-------------------------- MODULE Services_proofs --------------------------
(* What is proved of the services a process keeps: the channels it shares,   *)
(* its guarded calls, what the cost service and the local services hold, and *)
(* the history a handler keeps in the storage service.                       *)
(* Each component first on its own, for any constants its assumptions admit, *)
(* and at the end the specification of the run that composes them.           *)
EXTENDS MCServices, FiniteSetTheorems, SequenceTheorems, TLAPS

-----------------------------------------------------------------------------
(* ChannelPool on its own. *)
PoolSpec == PoolInit /\ [][PoolNext]_pvars

PoolTyped ==
  /\ cached \in [Keys -> Nat] /\ refs \in [Keys -> Nat] /\ stubs \in [Keys -> Nat]
  /\ dialled \in Seq(Keys)
  /\ shut \subseteq Channels
  /\ at \in [Takers -> {"idle", "using", "closing", "waiting", "evicted", "over"}]
  /\ hold \in [Takers -> Nat]
  /\ sweep.at \in {"idle", "closing", "broken"}
  /\ sweep = [at |-> sweep.at, left |-> sweep.left, size |-> sweep.size]
  /\ strayed \subseteq Keys

(* A client holds a channel ids for its key from taking it to giving it     *)
(* back.                                                                     *)
HoldsItsOwn ==
  \A c \in Takers :
    /\ at[c] \in {"idle", "waiting", "evicted"} => hold[c] = 0
    /\ at[c] \in {"using", "closing"} => hold[c] # 0
    /\ hold[c] # 0 => hold[c] \in Channels /\ dialled[hold[c]] = KeyOf[c]

UsersOf(k) == {c \in TakersOf(k) : at[c] # "closing"}

(* What holds of one key, whatever becomes of the others.                    *)
KeyInOrder(k) ==
  /\ cached[k] # 0 => cached[k] \in Channels /\ dialled[cached[k]] = k
  /\ refs[k] = 0 <=> cached[k] = 0
  /\ stubs[k] # 0 => stubs[k] = cached[k]
  /\ cached[k] \in shut => k \in strayed /\ sweep.at \in {"closing", "broken"}
  /\ k \notin strayed => /\ refs[k] = Cardinality(UsersOf(k))
                         /\ \A c \in UsersOf(k) : hold[c] = cached[k]
                         /\ \A n \in Channels : dialled[n] = k => n \in shut \/ n = cached[k]

PoolInv == PoolTyped /\ HoldsItsOwn /\ \A k \in Keys : KeyInOrder(k)

(* The users of a key are finitely many.                                     *)
LEMMA UsersFinite ==
  ASSUME NEW k
  PROVE  /\ IsFiniteSet(UsersOf(k)) /\ Cardinality(UsersOf(k)) \in Nat
         /\ (Cardinality(UsersOf(k)) = 0 <=> UsersOf(k) = {})
<1>1. UsersOf(k) \subseteq Takers
  BY DEF UsersOf, TakersOf
<1>2. IsFiniteSet(UsersOf(k))
  BY <1>1, FS_Subset, PoolAssumption
<1> QED BY <1>2, FS_EmptySet, FS_CardinalityType

(* A client more uses the key: the count of users is one higher.             *)
LEMMA UserJoins ==
  ASSUME NEW k, NEW c, c \notin UsersOf(k), UsersOf(k)' = UsersOf(k) \cup {c}
  PROVE  Cardinality(UsersOf(k)') = Cardinality(UsersOf(k)) + 1
BY UsersFinite, FS_AddElement

(* A client fewer uses the key: the count of users is one lower.             *)
LEMMA UserLeaves ==
  ASSUME NEW k, NEW c \in UsersOf(k), UsersOf(k)' = UsersOf(k) \ {c}
  PROVE  Cardinality(UsersOf(k)') = Cardinality(UsersOf(k)) - 1
BY UsersFinite, FS_RemoveElement

(* The step of a client touches its own key and nothing of another's.        *)
Touches(c) ==
  /\ \A j \in Keys \ {KeyOf[c]} : cached'[j] = cached[j] /\ refs'[j] = refs[j] /\ stubs'[j] = stubs[j]
  /\ \A d \in Takers \ {c} : at'[d] = at[d] /\ hold'[d] = hold[d]
  /\ shut \subseteq shut' /\ \A n \in shut' \ shut : n \in Channels /\ dialled[n] = KeyOf[c]
  /\ dialled' = dialled \/ dialled' = Append(dialled, KeyOf[c])
  /\ strayed \subseteq strayed' /\ strayed' \subseteq strayed \cup {KeyOf[c]} /\ sweep' = sweep

(* A dial adds a channel and leaves the earlier ones their keys.             *)
LEMMA ChannelsGrow ==
  ASSUME PoolTyped, NEW k \in Keys, dialled' = dialled \/ dialled' = Append(dialled, k)
  PROVE  /\ dialled' \in Seq(Keys) /\ Channels \subseteq Channels' /\ 0 \notin Channels
         /\ \A n \in Channels : dialled'[n] = dialled[n]
         /\ \A n \in Channels' \ Channels : dialled' = Append(dialled, k) /\ n = Len(dialled) + 1 /\ dialled'[n] = k
<1>1. CASE dialled' = dialled
  BY <1>1 DEF PoolTyped, Channels
<1>2. CASE dialled' = Append(dialled, k)
  <2>1. dialled' \in Seq(Keys) /\ Len(dialled') = Len(dialled) + 1 /\ Len(dialled) \in Nat
        /\ \A n \in 1..Len(dialled) : dialled'[n] = dialled[n]
    BY <1>2 DEF PoolTyped
  <2>2. dialled'[Len(dialled) + 1] = k
    BY <1>2 DEF PoolTyped
  <2>3. Channels' = Channels \cup {Len(dialled) + 1}
    BY <2>1 DEF Channels
  <2> QED BY <1>2, <2>1, <2>2, <2>3 DEF Channels
<1> QED BY <1>1, <1>2

(* A key no step touches, and whose users stay, is in order still.           *)
LEMMA OthersKept ==
  ASSUME PoolInv, NEW c \in Takers, Touches(c), NEW j \in Keys \ {KeyOf[c]}
  PROVE  KeyInOrder(j)'
<1>k. KeyOf[c] \in Keys
  BY PoolAssumption
<1>t. PoolTyped /\ KeyInOrder(j)
  BY DEF PoolInv
<1>g. /\ Channels \subseteq Channels' /\ 0 \notin Channels
      /\ \A n \in Channels : dialled'[n] = dialled[n]
      /\ \A n \in Channels' \ Channels : dialled'[n] = KeyOf[c]
  BY <1>k, <1>t, ChannelsGrow DEF Touches
<1>1. cached'[j] = cached[j] /\ refs'[j] = refs[j] /\ stubs'[j] = stubs[j]
  BY DEF Touches
<1>2. UsersOf(j)' = UsersOf(j)
  BY DEF Touches, UsersOf, TakersOf
<1>3. \A d \in UsersOf(j) : hold'[d] = hold[d]
  <2>1. \A d \in UsersOf(j) : d \in Takers \ {c}
    BY DEF UsersOf, TakersOf
  <2> QED BY <2>1 DEF Touches
<1>4. \A n \in Channels : dialled[n] = j => (n \in shut' <=> n \in shut)
  BY DEF Touches
<1>5. cached[j] \in shut' => cached[j] \in shut
  <2>1. CASE cached[j] = 0
    BY <2>1, <1>g DEF Touches
  <2>2. CASE cached[j] # 0
    BY <2>2, <1>4, <1>t DEF KeyInOrder
  <2> QED BY <2>1, <2>2
<1>6. strayed \subseteq strayed' /\ sweep' = sweep
  BY DEF Touches
<1>7. (cached[j] # 0 => cached'[j] \in Channels' /\ dialled'[cached'[j]] = j)
  BY <1>1, <1>g, <1>t DEF KeyInOrder
<1>8. ASSUME j \notin strayed', NEW n \in Channels', dialled'[n] = j
      PROVE  n \in shut' \/ n = cached'[j]
  BY <1>8, <1>g, <1>1, <1>4, <1>6, <1>t DEF KeyInOrder
<1> QED BY <1>1, <1>2, <1>3, <1>5, <1>6, <1>7, <1>8, <1>t DEF KeyInOrder

(* What is left to show of a client's step.                                  *)
LEMMA StepOfClient ==
  ASSUME PoolInv, NEW c \in Takers, Touches(c), KeyInOrder(KeyOf[c])',
         cached' \in [Keys -> Nat], refs' \in [Keys -> Nat], stubs' \in [Keys -> Nat],
         at' \in [Takers -> {"idle", "using", "closing", "waiting", "evicted", "over"}],
         hold' \in [Takers -> Nat],
         at'[c] \in {"idle", "waiting", "evicted"} => hold'[c] = 0,
         at'[c] \in {"using", "closing"} => hold'[c] # 0,
         hold'[c] = 0 \/ hold'[c] = hold[c] \/ (hold'[c] \in Channels' /\ dialled'[hold'[c]] = KeyOf[c])
  PROVE  PoolInv'
<1>k. KeyOf[c] \in Keys
  BY PoolAssumption
<1>t. PoolTyped
  BY DEF PoolInv
<1>g. /\ dialled' \in Seq(Keys) /\ Channels \subseteq Channels'
      /\ \A n \in Channels : dialled'[n] = dialled[n]
  BY <1>k, <1>t, ChannelsGrow DEF Touches
<1>1. PoolTyped'
  <2>1. shut' \subseteq Channels' /\ strayed' \subseteq Keys /\ sweep' = sweep
    BY <1>g, <1>k, <1>t DEF PoolTyped, Touches
  <2> QED BY <2>1, <1>g, <1>t DEF PoolTyped
<1>2. HoldsItsOwn'
  <2> SUFFICES ASSUME NEW d \in Takers
               PROVE  /\ at'[d] \in {"idle", "waiting", "evicted"} => hold'[d] = 0
                      /\ at'[d] \in {"using", "closing"} => hold'[d] # 0
                      /\ hold'[d] # 0 => hold'[d] \in Channels' /\ dialled'[hold'[d]] = KeyOf[d]
    BY DEF HoldsItsOwn
  <2>1. CASE d # c
    <3>1. at'[d] = at[d] /\ hold'[d] = hold[d]
      BY <2>1 DEF Touches
    <3> QED BY <3>1, <1>g DEF PoolInv, HoldsItsOwn
  <2>2. CASE d = c
    BY <2>2, <1>g DEF PoolInv, HoldsItsOwn
  <2> QED BY <2>1, <2>2
<1>3. \A j \in Keys : KeyInOrder(j)'
  BY OthersKept
<1> QED BY <1>1, <1>2, <1>3 DEF PoolInv

(* A client takes the channel of its key, dialled if there is none.          *)
LEMMA TakeKeeps ==
  ASSUME PoolInv, NEW c \in Takers, Take(c), hold[c] = 0, at' = [at EXCEPT ![c] = "using"],
         UNCHANGED <<shut, sweep, strayed>>
  PROVE  PoolInv'
<1> DEFINE k == KeyOf[c]
<1>k. k \in Keys
  BY PoolAssumption
<1>t. PoolTyped /\ KeyInOrder(k)
  BY <1>k DEF PoolInv
<1>a. at' \in [Takers -> {"idle", "using", "closing", "waiting", "evicted", "over"}] /\ at'[c] = "using"
      /\ \A d \in Takers \ {c} : at'[d] = at[d]
  BY <1>t DEF PoolTyped
<1>1. CASE cached[k] # 0
  <2>1. /\ hold' = [hold EXCEPT ![c] = cached[k]] /\ refs' = [refs EXCEPT ![k] = @ + 1]
        /\ UNCHANGED <<cached, dialled>>
        /\ stubs' = [stubs EXCEPT ![k] = IF @ # 0 THEN @ ELSE hold'[c]]
    BY <1>1 DEF Take
  <2>2. /\ hold' \in [Takers -> Nat] /\ refs' \in [Keys -> Nat] /\ stubs' \in [Keys -> Nat]
        /\ hold'[c] = cached[k] /\ refs'[k] = refs[k] + 1 /\ stubs'[k] \in {stubs[k], cached[k]}
        /\ \A d \in Takers \ {c} : hold'[d] = hold[d]
        /\ \A j \in Keys \ {k} : refs'[j] = refs[j] /\ stubs'[j] = stubs[j]
    BY <2>1, <1>t, <1>k DEF PoolTyped
  <2>3. Touches(c)
    BY <2>1, <2>2, <1>a DEF Touches
  <2>4. UsersOf(k)' = UsersOf(k) \cup {c} /\ c \notin UsersOf(k)
    BY <2>2, <1>a, <1>1, <1>k, <1>t DEF UsersOf, TakersOf, PoolTyped
  <2>5. Cardinality(UsersOf(k)') = Cardinality(UsersOf(k)) + 1
    BY <2>4, UserJoins
  <2>6. refs[k] \in Nat
    BY <1>t, <1>k DEF PoolTyped
  <2>7. \A d \in UsersOf(k)' : (d \in UsersOf(k) /\ hold'[d] = hold[d]) \/ d = c
    BY <2>4, <2>2 DEF UsersOf, TakersOf
  <2>8. k \notin strayed' => /\ refs'[k] = Cardinality(UsersOf(k)')
                             /\ \A d \in UsersOf(k)' : hold'[d] = cached'[k]
    BY <2>1, <2>2, <2>5, <2>7, <1>t DEF KeyInOrder
  <2>9. KeyInOrder(k)'
    BY <2>1, <2>2, <2>6, <2>8, <1>t, <1>1 DEF KeyInOrder, Channels
  <2> QED BY <2>1, <2>2, <2>3, <2>9, <1>a, <1>1, <1>t, StepOfClient DEF KeyInOrder, PoolTyped,
             Channels
<1>2. CASE cached[k] = 0
  <2> DEFINE n == Len(dialled) + 1
  <2>1. /\ dialled' = Append(dialled, k)
        /\ cached' = [cached EXCEPT ![k] = Len(dialled')] /\ refs' = [refs EXCEPT ![k] = 1]
        /\ hold' = [hold EXCEPT ![c] = Len(dialled')]
        /\ stubs' = [stubs EXCEPT ![k] = IF @ # 0 THEN @ ELSE hold'[c]]
    BY <1>2 DEF Take
  <2>2. /\ n \in Nat \ {0} /\ n = Len(dialled') /\ Channels' = Channels \cup {n} /\ n \notin Channels
        /\ dialled'[n] = k
    BY <2>1, <1>t, <1>k DEF PoolTyped, Channels
  <2>3. /\ cached' \in [Keys -> Nat] /\ hold' \in [Takers -> Nat] /\ refs' \in [Keys -> Nat] /\ stubs' \in [Keys -> Nat]
        /\ cached'[k] = n /\ hold'[c] = n /\ refs'[k] = 1 /\ stubs'[k] \in {stubs[k], n}
        /\ \A d \in Takers \ {c} : hold'[d] = hold[d]
        /\ \A j \in Keys \ {k} : cached'[j] = cached[j] /\ refs'[j] = refs[j] /\ stubs'[j] = stubs[j]
    BY <2>1, <2>2, <1>t, <1>k DEF PoolTyped
  <2>4. Touches(c)
    BY <2>1, <2>3, <1>a DEF Touches
  <2>5. refs[k] = 0 /\ stubs[k] = 0
    BY <1>2, <1>t DEF KeyInOrder
  <2>6. k \notin strayed => UsersOf(k) = {} /\ UsersOf(k)' = {c}
    <3> SUFFICES ASSUME k \notin strayed PROVE UsersOf(k) = {} /\ UsersOf(k)' = {c}
      OBVIOUS
    <3>1. UsersOf(k) = {}
      BY <2>5, <1>t, UsersFinite DEF KeyInOrder
    <3>2. UsersOf(k)' = UsersOf(k) \cup {c}
      BY <2>2, <2>3, <1>a, <1>k, <1>t DEF UsersOf, TakersOf, PoolTyped
    <3> QED BY <3>1, <3>2
  <2>7. k \notin strayed => Cardinality(UsersOf(k)') = 1
    BY <2>6, FS_Singleton
  <2>8. n \notin shut'
    BY <2>2, <1>t DEF PoolTyped
  <2>9. k \notin strayed => \A m \in Channels' : dialled'[m] = k => m \in shut' \/ m = cached'[k]
    <3>1. \A m \in Channels : dialled'[m] = dialled[m]
      BY <2>1, <1>t, <1>k, ChannelsGrow
    <3>2. UNCHANGED <<shut, strayed>>
      OBVIOUS
    <3>3. 0 \notin Channels
      BY DEF Channels
    <3> QED BY <3>1, <3>2, <3>3, <2>2, <2>3, <1>2, <1>t DEF KeyInOrder
  <2>10. KeyInOrder(k)'
    BY <2>2, <2>3, <2>5, <2>6, <2>7, <2>8, <2>9 DEF KeyInOrder
  <2> QED BY <2>2, <2>3, <2>4, <2>10, <1>a, StepOfClient
<1> QED BY <1>1, <1>2

(* A client that used a channel gives it back, or a strategy begins to close *)
(* its own.                                                                  *)
Leaves(c) ==
  /\ at[c] = "using"
  /\ \/ \E p \in {"over", "waiting"} : at' = [at EXCEPT ![c] = p] /\ hold' = [hold EXCEPT ![c] = 0]
     \/ at' = [at EXCEPT ![c] = "closing"] /\ hold' = hold
  /\ UNCHANGED <<dialled, sweep, strayed>>

(* What a client that leaves makes of the counts.                            *)
LEMMA LeavesEffect ==
  ASSUME PoolInv, NEW c \in Takers, Leaves(c)
  PROVE  /\ c \in UsersOf(KeyOf[c]) /\ UsersOf(KeyOf[c])' = UsersOf(KeyOf[c]) \ {c}
         /\ \A d \in UsersOf(KeyOf[c]) \ {c} : hold'[d] = hold[d]
         /\ at' \in [Takers -> {"idle", "using", "closing", "waiting", "evicted", "over"}]
         /\ hold' \in [Takers -> Nat]
         /\ \A d \in Takers \ {c} : at'[d] = at[d] /\ hold'[d] = hold[d]
         /\ at'[c] \in {"over", "waiting", "closing"}
         /\ at'[c] \in {"waiting", "over"} => hold'[c] = 0
         /\ at'[c] = "closing" => hold'[c] # 0
         /\ hold'[c] = 0 \/ hold'[c] = hold[c]
         /\ hold[c] \in Channels /\ dialled[hold[c]] = KeyOf[c] /\ hold[c] # 0
<1>t. PoolTyped /\ HoldsItsOwn
  BY DEF PoolInv
<1>1. /\ at' \in [Takers -> {"idle", "using", "closing", "waiting", "evicted", "over"}]
      /\ hold' \in [Takers -> Nat]
      /\ \A d \in Takers \ {c} : at'[d] = at[d] /\ hold'[d] = hold[d]
  <2>1. ASSUME NEW p \in {"over", "waiting"}, at' = [at EXCEPT ![c] = p], hold' = [hold EXCEPT ![c] = 0]
        PROVE  /\ at' \in [Takers -> {"idle", "using", "closing", "waiting", "evicted", "over"}]
               /\ hold' \in [Takers -> Nat]
               /\ \A d \in Takers \ {c} : at'[d] = at[d] /\ hold'[d] = hold[d]
    BY <2>1, <1>t DEF PoolTyped
  <2>2. CASE at' = [at EXCEPT ![c] = "closing"] /\ hold' = hold
    BY <2>2, <1>t DEF PoolTyped
  <2> QED BY <2>1, <2>2 DEF Leaves
<1>2. hold[c] \in Channels /\ dialled[hold[c]] = KeyOf[c] /\ hold[c] # 0 /\ at[c] = "using"
  BY <1>t DEF Leaves, HoldsItsOwn
<1>3. \/ at'[c] \in {"over", "waiting"} /\ hold'[c] = 0
      \/ at'[c] = "closing" /\ hold'[c] = hold[c]
  BY <1>t DEF Leaves, PoolTyped
<1>4. c \in UsersOf(KeyOf[c]) /\ UsersOf(KeyOf[c])' = UsersOf(KeyOf[c]) \ {c}
  BY <1>1, <1>2, <1>3 DEF UsersOf, TakersOf
<1>5. UsersOf(KeyOf[c]) \subseteq Takers
  BY DEF UsersOf, TakersOf
<1> QED BY <1>1, <1>2, <1>3, <1>4, <1>5

(* One reference of several. *)
LEMMA LeaveKeeps ==
  ASSUME PoolInv, NEW c \in Takers, Leaves(c), refs[KeyOf[c]] > 1,
         refs' = [refs EXCEPT ![KeyOf[c]] = @ - 1], UNCHANGED <<cached, stubs, shut>>
  PROVE  PoolInv'
<1> DEFINE k == KeyOf[c]
<1>k. k \in Keys
  BY PoolAssumption
<1>t. PoolTyped /\ KeyInOrder(k) /\ refs[k] \in Nat
  BY <1>k DEF PoolInv, PoolTyped
<1>1. /\ refs' \in [Keys -> Nat] /\ refs'[k] = refs[k] - 1 /\ refs'[k] # 0
      /\ \A j \in Keys \ {k} : refs'[j] = refs[j]
  BY <1>t, <1>k DEF PoolTyped
<1>2. Touches(c)
  BY <1>1, LeavesEffect DEF Touches, Leaves
<1>3. Cardinality(UsersOf(k)') = Cardinality(UsersOf(k)) - 1
  BY LeavesEffect, UserLeaves
<1>4. k \notin strayed' => /\ refs'[k] = Cardinality(UsersOf(k)')
                           /\ \A d \in UsersOf(k)' : hold'[d] = cached'[k]
                           /\ \A n \in Channels' : dialled'[n] = k => n \in shut' \/ n = cached'[k]
  <2> SUFFICES ASSUME k \notin strayed'
               PROVE  /\ refs'[k] = Cardinality(UsersOf(k)')
                      /\ \A d \in UsersOf(k)' : hold'[d] = cached'[k]
                      /\ \A n \in Channels' : dialled'[n] = k => n \in shut' \/ n = cached'[k]
    OBVIOUS
  <2>1. k \notin strayed /\ UNCHANGED <<dialled, cached, shut>> /\ Channels' = Channels
    BY DEF Leaves, Channels
  <2>2. /\ refs[k] = Cardinality(UsersOf(k))
        /\ \A d \in UsersOf(k) : hold[d] = cached[k]
        /\ \A n \in Channels : dialled[n] = k => n \in shut \/ n = cached[k]
    BY <2>1, <1>t DEF KeyInOrder
  <2>3. UsersOf(k)' = UsersOf(k) \ {c} /\ \A d \in UsersOf(k) \ {c} : hold'[d] = hold[d]
    BY LeavesEffect
  <2> QED BY <1>1, <1>3, <2>1, <2>2, <2>3
<1>5. KeyInOrder(k)'
  <2>1. UNCHANGED <<dialled, cached, stubs, shut, strayed, sweep>> /\ Channels' = Channels
    BY DEF Leaves, Channels
  <2> QED BY <1>1, <1>4, <1>t, <2>1 DEF KeyInOrder
<1>6. cached' \in [Keys -> Nat] /\ stubs' \in [Keys -> Nat]
  BY <1>t DEF PoolTyped
<1> QED BY <1>1, <1>2, <1>5, <1>6, LeavesEffect, StepOfClient

(* The last reference: the key is forgotten and a channel of it is closed.   *)
LEMMA LastLeaveKeeps ==
  ASSUME PoolInv, NEW c \in Takers, Leaves(c), refs[KeyOf[c]] = 1, Forget(KeyOf[c]),
         NEW m \in {hold[c], cached[KeyOf[c]]}, shut' = shut \cup {m}
  PROVE  PoolInv'
<1> DEFINE k == KeyOf[c]
<1>k. k \in Keys
  BY PoolAssumption
<1>t. PoolTyped /\ KeyInOrder(k)
  BY <1>k DEF PoolInv
<1>1. /\ cached' \in [Keys -> Nat] /\ refs' \in [Keys -> Nat] /\ stubs' \in [Keys -> Nat]
      /\ cached'[k] = 0 /\ refs'[k] = 0 /\ stubs'[k] = 0
      /\ \A j \in Keys \ {k} : cached'[j] = cached[j] /\ refs'[j] = refs[j] /\ stubs'[j] = stubs[j]
  BY <1>t, <1>k DEF PoolTyped, Forget, PurgeStubs
<1>2. m \in Channels /\ dialled[m] = k /\ 0 \notin Channels
  BY <1>t, LeavesEffect DEF KeyInOrder, Channels
<1>3. Touches(c)
  BY <1>1, <1>2, LeavesEffect DEF Touches, Leaves
<1>4. 0 \notin shut' /\ UNCHANGED <<dialled, strayed>> /\ Channels' = Channels
  BY <1>2, <1>t DEF PoolTyped, Leaves, Channels
<1>5. ASSUME k \notin strayed
      PROVE  UsersOf(k)' = {} /\ \A n \in Channels : dialled[n] = k => n \in shut'
  <2>1. Cardinality(UsersOf(k)') = 0
    BY <1>5, <1>t, LeavesEffect, UserLeaves DEF KeyInOrder
  <2>2. UsersOf(k)' = {}
    <3>1. IsFiniteSet(UsersOf(k)) /\ UsersOf(k)' \subseteq UsersOf(k)
      BY LeavesEffect, UsersFinite
    <3>2. IsFiniteSet(UsersOf(k)')
      BY <3>1, FS_Subset
    <3> QED BY <2>1, <3>2, FS_EmptySet
  <2>3. m = cached[k]
    BY <1>5, <1>t, LeavesEffect DEF KeyInOrder
  <2> QED BY <1>5, <2>2, <2>3, <1>t DEF KeyInOrder
<1>6. KeyInOrder(k)'
  BY <1>1, <1>4, <1>5, FS_EmptySet DEF KeyInOrder
<1> QED BY <1>1, <1>3, <1>6, LeavesEffect, StepOfClient

(* No reference is left to a key that was taken away: it stays as it is.     *)
LEMMA StrayLeaveKeeps ==
  ASSUME PoolInv, NEW c \in Takers, Leaves(c), refs[KeyOf[c]] = 0, UNCHANGED <<refs, cached, stubs>>,
         shut' = shut \/ shut' = shut \cup {hold[c]}
  PROVE  PoolInv'
<1> DEFINE k == KeyOf[c]
<1>k. k \in Keys
  BY PoolAssumption
<1>t. PoolTyped /\ KeyInOrder(k)
  BY <1>k DEF PoolInv
<1>1. k \in strayed
  BY <1>t, LeavesEffect, UsersFinite DEF KeyInOrder
<1>2. Touches(c)
  BY LeavesEffect DEF Touches, Leaves
<1>3. cached'[k] = 0 /\ 0 \notin shut' /\ UNCHANGED <<dialled, strayed>>
  BY <1>t, LeavesEffect DEF KeyInOrder, PoolTyped, Leaves, Channels
<1>4. KeyInOrder(k)'
  BY <1>1, <1>3, <1>t DEF KeyInOrder
<1>5. cached' \in [Keys -> Nat] /\ refs' \in [Keys -> Nat] /\ stubs' \in [Keys -> Nat]
  BY <1>t DEF PoolTyped
<1> QED BY <1>2, <1>4, <1>5, LeavesEffect, StepOfClient

(* A client moves on with the channel it has, or gives up one it has closed, *)
(* and the pool is not asked.                                                *)
LEMMA AsideKeeps ==
  ASSUME PoolInv, NEW c \in Takers, UNCHANGED <<cached, refs, stubs, dialled, shut, sweep, strayed>>,
         \/ at[c] = "using" /\ at' = [at EXCEPT ![c] = "over"] /\ hold' = hold
         \/ at[c] = "closing" /\ at' = [at EXCEPT ![c] = "over"] /\ hold' = [hold EXCEPT ![c] = 0]
  PROVE  PoolInv'
<1> DEFINE k == KeyOf[c]
<1>k. k \in Keys
  BY PoolAssumption
<1>t. PoolTyped /\ KeyInOrder(k) /\ HoldsItsOwn
  BY <1>k DEF PoolInv
<1>1. /\ at' \in [Takers -> {"idle", "using", "closing", "waiting", "evicted", "over"}]
      /\ hold' \in [Takers -> Nat] /\ at'[c] = "over" /\ hold'[c] \in {0, hold[c]}
      /\ \A d \in Takers \ {c} : at'[d] = at[d] /\ hold'[d] = hold[d]
  <2>1. CASE at' = [at EXCEPT ![c] = "over"] /\ hold' = hold
    BY <2>1, <1>t DEF PoolTyped
  <2>2. CASE at' = [at EXCEPT ![c] = "over"] /\ hold' = [hold EXCEPT ![c] = 0]
    BY <2>2, <1>t DEF PoolTyped
  <2> QED BY <2>1, <2>2
<1>2. Touches(c)
  BY <1>1 DEF Touches
<1>3. UsersOf(k)' = UsersOf(k) /\ \A d \in UsersOf(k) : hold'[d] = hold[d]
  <2>1. UsersOf(k) \subseteq Takers
    BY DEF UsersOf, TakersOf
  <2>2. CASE at[c] = "using"
    BY <2>1, <2>2, <1>1, <1>t DEF UsersOf, TakersOf, PoolTyped
  <2>3. CASE at[c] = "closing"
    BY <2>1, <2>3, <1>1, <1>t DEF UsersOf, TakersOf, PoolTyped
  <2> QED BY <2>2, <2>3
<1>4. KeyInOrder(k)'
  BY <1>3, <1>t DEF KeyInOrder, Channels
<1>5. cached' \in [Keys -> Nat] /\ refs' \in [Keys -> Nat] /\ stubs' \in [Keys -> Nat]
  BY <1>t DEF PoolTyped
<1> QED BY <1>1, <1>2, <1>4, <1>5, StepOfClient

(* A resumed dial-back evicts: who still used the key strays.                *)
LEMMA EvictKeeps ==
  ASSUME PoolInv, NEW c \in Takers, at[c] = "waiting", cached[KeyOf[c]] # 0, Forget(KeyOf[c]),
         CloseCached(KeyOf[c]), TakeAway(KeyOf[c]), at' = [at EXCEPT ![c] = "evicted"],
         UNCHANGED <<dialled, hold, sweep>>
  PROVE  PoolInv'
<1> DEFINE k == KeyOf[c]
<1>k. k \in Keys
  BY PoolAssumption
<1>t. PoolTyped /\ KeyInOrder(k) /\ HoldsItsOwn
  BY <1>k DEF PoolInv
<1>1. /\ cached' \in [Keys -> Nat] /\ refs' \in [Keys -> Nat] /\ stubs' \in [Keys -> Nat]
      /\ cached'[k] = 0 /\ refs'[k] = 0 /\ stubs'[k] = 0
      /\ \A j \in Keys \ {k} : cached'[j] = cached[j] /\ refs'[j] = refs[j] /\ stubs'[j] = stubs[j]
  BY <1>t, <1>k DEF PoolTyped, Forget, PurgeStubs
<1>2. /\ at' \in [Takers -> {"idle", "using", "closing", "waiting", "evicted", "over"}] /\ at'[c] = "evicted"
      /\ \A d \in Takers \ {c} : at'[d] = at[d]
      /\ hold[c] = 0 /\ hold' \in [Takers -> Nat]
  BY <1>t DEF PoolTyped, HoldsItsOwn
<1>3. /\ shut' = shut \cup {cached[k]} /\ cached[k] \in Channels /\ dialled[cached[k]] = k /\ 0 \notin Channels
      /\ strayed' = IF TakersOf(k) # {} THEN strayed \cup {k} ELSE strayed
  BY <1>t DEF CloseCached, TakeAway, KeyInOrder, Channels
<1>4. Touches(c)
  BY <1>1, <1>2, <1>3 DEF Touches
<1>5. 0 \notin shut' /\ Channels' = Channels
  BY <1>3, <1>t DEF PoolTyped, Channels
<1>6. ASSUME k \notin strayed'
      PROVE  UsersOf(k)' = {} /\ \A n \in Channels : dialled[n] = k => n \in shut'
  <2>1. k \notin strayed /\ TakersOf(k) = {}
    BY <1>6, <1>3
  <2>2. UsersOf(k)' = {}
    BY <2>1 DEF UsersOf, TakersOf
  <2> QED BY <2>1, <2>2, <1>3, <1>t DEF KeyInOrder
<1>7. KeyInOrder(k)'
  BY <1>1, <1>5, <1>6, FS_EmptySet DEF KeyInOrder
<1> QED BY <1>1, <1>2, <1>4, <1>7, StepOfClient

(* close_all_cached_channels goes on, one key at a time.                     *)
LEMMA SweepKeeps ==
  ASSUME PoolInv, SweepStarts \/ SweepBreaks \/ SweepEnds \/ \E k \in Keys : SweepCloses(k)
  PROVE  PoolInv'
<1>t. PoolTyped /\ HoldsItsOwn /\ \A j \in Keys : KeyInOrder(j)
  BY DEF PoolInv
<1>1. CASE SweepStarts \/ SweepBreaks
  <2>1. sweep'.at \in {"closing", "broken"} /\ sweep' = [at |-> sweep'.at, left |-> sweep'.left, size |-> sweep'.size]
    <3>1. CASE SweepStarts
      BY <3>1 DEF SweepStarts
    <3>2. CASE SweepBreaks
      <4>1. sweep' = [at |-> "broken", left |-> sweep.left, size |-> sweep.size]
        BY <3>2, <1>t DEF SweepBreaks, PoolTyped
      <4> QED BY <4>1
    <3> QED BY <3>1, <3>2, <1>1
  <2>2. UNCHANGED <<cached, refs, stubs, dialled, shut, at, hold, strayed>>
    BY <1>1 DEF SweepStarts, SweepBreaks
  <2>3. ASSUME NEW j \in Keys PROVE KeyInOrder(j)'
    <3>1. KeyInOrder(j) /\ UsersOf(j)' = UsersOf(j) /\ Channels' = Channels
      BY <2>2, <1>t DEF UsersOf, TakersOf, Channels
    <3> QED BY <3>1, <2>1, <2>2 DEF KeyInOrder
  <2> QED BY <2>1, <2>2, <2>3, <1>t DEF PoolInv, PoolTyped, HoldsItsOwn, Channels
<1>2. ASSUME NEW k \in Keys, SweepCloses(k) PROVE PoolInv'
  <2>1. /\ sweep.at = "closing" /\ cached[k] # 0 /\ shut' = shut \cup {cached[k]} /\ strayed' = strayed \cup {k}
        /\ UNCHANGED <<cached, refs, stubs, dialled, at, hold>>
        /\ sweep' = [at |-> "closing", left |-> sweep.left \ {k}, size |-> sweep.size]
    BY <1>2, <1>t DEF SweepCloses, PoolTyped
  <2>2. cached[k] \in Channels /\ dialled[cached[k]] = k
    BY <2>1, <1>t DEF KeyInOrder
  <2>3. PoolTyped'
    BY <2>1, <2>2, <1>t DEF PoolTyped, Channels
  <2>4. ASSUME NEW j \in Keys PROVE KeyInOrder(j)'
    <3>1. KeyInOrder(j) /\ UsersOf(j)' = UsersOf(j) /\ Channels' = Channels /\ 0 \notin Channels
      BY <2>1, <1>t DEF UsersOf, TakersOf, Channels
    <3>2. CASE j = k
      BY <3>1, <3>2, <2>1 DEF KeyInOrder
    <3>3. CASE j # k
      <4>1. cached[j] \in shut' => cached[j] \in shut
        BY <3>1, <3>3, <2>1, <2>2 DEF KeyInOrder
      <4>2. j \notin strayed' => j \notin strayed
        BY <2>1
      <4> QED BY <4>1, <4>2, <3>1, <2>1 DEF KeyInOrder
    <3> QED BY <3>2, <3>3
  <2>5. HoldsItsOwn'
    BY <2>1, <1>t DEF HoldsItsOwn, Channels
  <2> QED BY <2>3, <2>4, <2>5 DEF PoolInv
<1>3. CASE SweepEnds
  <2>1. /\ cached' = [j \in Keys |-> 0] /\ refs' = [j \in Keys |-> 0] /\ stubs' = [j \in Keys |-> 0]
        /\ strayed' = strayed \cup {j \in Keys : TakersOf(j) # {}}
        /\ UNCHANGED <<dialled, shut, at, hold>>
        /\ sweep' = [at |-> "idle", left |-> sweep.left, size |-> sweep.size]
    BY <1>3, <1>t DEF SweepEnds, PoolTyped
  <2>2. PoolTyped'
    BY <2>1, <1>t DEF PoolTyped, Channels
  <2>3. ASSUME NEW j \in Keys PROVE KeyInOrder(j)'
    <3>1. KeyInOrder(j) /\ UsersOf(j)' = UsersOf(j) /\ Channels' = Channels
      BY <2>1, <1>t DEF UsersOf, TakersOf, Channels
    <3>2. 0 \notin shut'
      BY <2>1, <1>t DEF PoolTyped, Channels
    <3>3. ASSUME j \notin strayed'
          PROVE  UsersOf(j) = {} /\ \A n \in Channels : dialled[n] = j => n \in shut
      <4>1. j \notin strayed /\ UsersOf(j) = {}
        BY <3>3, <2>1 DEF UsersOf
      <4>2. cached[j] = 0
        BY <4>1, <3>1, FS_EmptySet DEF KeyInOrder
      <4> QED BY <4>1, <4>2, <3>1 DEF KeyInOrder, Channels
    <3> QED BY <3>1, <3>2, <3>3, <2>1, FS_EmptySet DEF KeyInOrder
  <2>4. HoldsItsOwn'
    BY <2>1, <1>t DEF HoldsItsOwn, Channels
  <2> QED BY <2>2, <2>3, <2>4 DEF PoolInv
<1> QED BY <1>1, <1>2, <1>3

(* Every step of the pool keeps its invariant.                               *)
LEMMA PoolInvStep == PoolInv /\ [PoolNext]_pvars => PoolInv'
<1> SUFFICES ASSUME PoolInv, [PoolNext]_pvars PROVE PoolInv'
  OBVIOUS
<1>t. PoolTyped /\ HoldsItsOwn /\ \A j \in Keys : KeyInOrder(j)
  BY DEF PoolInv
<1>k. \A c \in Takers : KeyOf[c] \in Keys /\ refs[KeyOf[c]] \in Nat
  BY <1>t, PoolAssumption DEF PoolTyped
<1>1. ASSUME NEW c \in Takers, Open(c) \/ Redial(c) PROVE PoolInv'
  BY <1>1, <1>t, TakeKeeps DEF Open, Redial, HoldsItsOwn
<1>2. ASSUME NEW c \in Takers, CloseChannel(c) PROVE PoolInv'
  <2>1. Leaves(c)
    BY <1>2 DEF CloseChannel, Leaves
  <2>2. \/ refs[KeyOf[c]] > 1 /\ refs' = [refs EXCEPT ![KeyOf[c]] = @ - 1] /\ UNCHANGED <<cached, stubs, shut>>
        \/ refs[KeyOf[c]] = 1 /\ Forget(KeyOf[c]) /\ shut' = shut \cup {hold[c]}
        \/ refs[KeyOf[c]] = 0 /\ UNCHANGED <<refs, cached, stubs>> /\ shut' = shut \cup {hold[c]}
    BY <1>2 DEF CloseChannel
  <2> QED BY <2>1, <2>2, LeaveKeeps, LastLeaveKeeps, StrayLeaveKeeps
<1>3. ASSUME NEW c \in Takers, CloseReturns(c) \/ CallEnds(c) PROVE PoolInv'
  BY <1>3, AsideKeeps DEF CloseReturns, CallEnds
<1>4. ASSUME NEW c \in Takers, Delivered(c) \/ Lost(c) PROVE PoolInv'
  <2>1. PICK p \in {"waiting", "over"} : EndAttempt(c, p)
    BY <1>4 DEF Delivered, Lost
  <2>2. Leaves(c)
    BY <2>1 DEF EndAttempt, Leaves
  <2>3. \/ refs[KeyOf[c]] = 0 /\ UNCHANGED <<refs, cached, stubs, shut>>
        \/ refs[KeyOf[c]] > 1 /\ refs' = [refs EXCEPT ![KeyOf[c]] = @ - 1] /\ UNCHANGED <<cached, stubs, shut>>
        \/ refs[KeyOf[c]] = 1 /\ Forget(KeyOf[c]) /\ shut' = shut \cup {cached[KeyOf[c]]}
    BY <2>1 DEF EndAttempt, ReleaseCached, CloseCached
  <2> QED BY <2>2, <2>3, LeaveKeeps, LastLeaveKeeps, StrayLeaveKeeps
<1>5. ASSUME NEW c \in Takers, Resume(c) PROVE PoolInv'
  <2>1. CASE cached[KeyOf[c]] = 0
    BY <2>1, <1>5, <1>t, TakeKeeps DEF Resume, HoldsItsOwn
  <2>2. CASE cached[KeyOf[c]] # 0
    BY <2>2, <1>5, EvictKeeps DEF Resume
  <2> QED BY <2>1, <2>2
<1>6. ASSUME SweepStarts \/ SweepBreaks \/ SweepEnds \/ \E k \in Keys : SweepCloses(k) PROVE PoolInv'
  BY <1>6, SweepKeeps
<1>7. ASSUME UNCHANGED pvars PROVE PoolInv'
  <2>1. PoolTyped' /\ HoldsItsOwn'
    BY <1>7, <1>t DEF pvars, PoolTyped, HoldsItsOwn, Channels
  <2>2. ASSUME NEW j \in Keys PROVE KeyInOrder(j)'
    <3>1. KeyInOrder(j) /\ UsersOf(j)' = UsersOf(j) /\ Channels' = Channels
      BY <1>7, <1>t DEF pvars, UsersOf, TakersOf, Channels
    <3> QED BY <3>1, <1>7 DEF KeyInOrder, pvars
  <2> QED BY <2>1, <2>2 DEF PoolInv
<1> QED BY <1>1, <1>2, <1>3, <1>4, <1>5, <1>6, <1>7 DEF PoolNext

(* An empty pool satisfies it.                                               *)
LEMMA PoolInvInit == PoolInit => PoolInv
<1> SUFFICES ASSUME PoolInit PROVE PoolInv
  OBVIOUS
<1>1. Channels = {} /\ \A k : UsersOf(k) = {}
  BY DEF PoolInit, Channels, UsersOf, TakersOf
<1>2. PoolTyped /\ HoldsItsOwn
  BY DEF PoolInit, PoolTyped, HoldsItsOwn
<1>3. \A k \in Keys : KeyInOrder(k)
  BY <1>1, FS_EmptySet DEF PoolInit, KeyInOrder
<1> QED BY <1>2, <1>3 DEF PoolInv

(* So it holds of every behaviour of the pool.                               *)
LEMMA PoolInvAlways == PoolSpec => []PoolInv
<1> QED BY PoolInvInit, PoolInvStep, PTL DEF PoolSpec

(* The pool of channels stays in order, for any clients, addresses and       *)
(* channels and however evictions and sweeps cross their taking and giving   *)
(* back: unless a key was taken away from its users its count is them and    *)
(* they hold one open channel; what is handed out next is open but during or *)
(* after a sweep; and no open channel of a key that never strayed is lost.   *)
THEOREM PoolStaysInOrder == PoolSpec => []PoolInOrder
<1>1. PoolInv => PoolInOrder
  <2> SUFFICES ASSUME PoolInv PROVE PoolInOrder
    OBVIOUS
  <2>1. RefsAreUsers
    <3> SUFFICES ASSUME NEW k \in Keys \ strayed
                 PROVE  /\ refs[k] = Cardinality(UsersOf(k))
                        /\ \A c \in TakersOf(k) : at[c] # "closing" => hold[c] = cached[k] /\ hold[c] \notin shut
      BY DEF RefsAreUsers, UsersOf
    <3> QED BY DEF PoolInv, KeyInOrder, UsersOf
  <2>2. CacheIsOpen
    BY DEF PoolInv, KeyInOrder, CacheIsOpen
  <2>3. NoneLost
    <3> SUFFICES ASSUME NEW n \in Channels, dialled[n] \notin strayed
                 PROVE  n \in shut \/ cached[dialled[n]] = n
      BY DEF NoneLost
    <3>1. dialled[n] \in Keys
      BY DEF PoolInv, PoolTyped, Channels
    <3> QED BY <3>1 DEF PoolInv, KeyInOrder
  <2> QED BY <2>1, <2>2, <2>3 DEF PoolInOrder
<1> QED BY <1>1, PoolInvAlways, PTL

-----------------------------------------------------------------------------
(* GuardedQuery on its own. *)
QuerySpec == QueryInit /\ [][QueryNext]_qvars

CallRecords == [at : {"idle", "refused", "asking", "backing_off", "returned", "failed", "cancelled"},
                by : 0..MaxBreakers, attempt : Nat, probe : BOOLEAN]

QueryTyped ==
  /\ current \in 0..MaxBreakers
  /\ breaker \in [Generations -> Breakers]
  /\ locked \in [Generations -> BOOLEAN]
  /\ call \in [Calls -> CallRecords]
  /\ \A c \in Calls : InFlight(c) => call[c].by \in Generations

(* While the lock is taken its breaker is half-open and a probe is under     *)
(* way.                                                                      *)
LockAnswered ==
  \A g \in Generations : locked[g] => breaker[g].state = "half_open" /\ \E c \in Calls : c \in Probes(g)

(* A probe that no other call has freed holds the lock, and is alone.        *)
ProbeAlone ==
  \A g \in Generations \ jostled : \A c \in Probes(g) : locked[g] /\ \A d \in Probes(g) : d = c

QueryInv == QueryTyped /\ LockAnswered /\ ProbeAlone

(* The methods of a breaker keep it a breaker. *)
LEMMA BreakerTyped ==
  ASSUME NEW b \in Breakers
  PROVE  StateRead(b) \in Breakers /\ RecordSuccess(b) \in Breakers /\ RecordFailure(b) \in Breakers
         /\ CoolDown(b) \in Breakers
<1> USE FailMaxAssumption DEF Breakers
<1>1. StateRead(b) \in Breakers
  BY DEF StateRead
<1>2. FreshBreaker \in Breakers
  BY DEF FreshBreaker
<1>3. CoolDown(b) \in Breakers
  BY DEF CoolDown
<1>4. RecordFailure(b) \in Breakers
  BY DEF RecordFailure
<1> QED BY <1>1, <1>2, <1>3, <1>4 DEF RecordSuccess

(* A call that is admitted, refused or ended: what its step does to the lock *)
(* and to the probes of its breaker, which is all the invariant is about.    *)
LEMMA CheckKeeps ==
  ASSUME QueryInv, NEW c \in Calls, Check(c)
  PROVE  QueryInv'
<1> DEFINE g == Registered
           b == StateRead(breaker[g])
           held == locked[g] /\ breaker[g].state # "cooled"
           probe == b.state = "half_open"
           refused == b.state = "open" \/ (probe /\ held)
<1>1. /\ call[c].at = "idle" /\ g \in Generations
      /\ current' = g
      /\ breaker' = [breaker EXCEPT ![g] = b]
      /\ locked' = [locked EXCEPT ![g] = held \/ probe]
      /\ call' = [call EXCEPT ![c] = [at |-> IF refused THEN "refused" ELSE "asking", by |-> g,
                                      attempt |-> 0, probe |-> probe /\ ~refused]]
      /\ jostled' = IF Probes(g) = {} THEN jostled \ {g} ELSE jostled
  BY DEF Check, LockTaken
<1> HIDE DEF g
<1>t. QueryTyped
  BY DEF QueryInv
<1>2. breaker[g] \in Breakers /\ b \in Breakers /\ locked[g] \in BOOLEAN
  BY <1>1, <1>t, BreakerTyped DEF QueryTyped
<1>3. /\ breaker'[g] = b /\ (locked'[g] <=> held \/ probe)
      /\ \A h \in Generations \ {g} : breaker'[h] = breaker[h] /\ locked'[h] = locked[h]
  BY <1>1, <1>t DEF QueryTyped
<1>4. /\ call'[c].at = (IF refused THEN "refused" ELSE "asking") /\ call'[c].by = g
      /\ (call'[c].probe <=> probe /\ ~refused)
      /\ \A d \in Calls \ {c} : call'[d] = call[d]
  BY <1>1, <1>t DEF QueryTyped
<1>5. QueryTyped'
  <2>1. call' \in [Calls -> CallRecords]
    <3>1. [at |-> IF refused THEN "refused" ELSE "asking", by |-> g, attempt |-> 0, probe |-> probe /\ ~refused] \in CallRecords
      BY <1>1 DEF CallRecords, Generations
    <3> QED BY <3>1, <1>1, <1>t DEF QueryTyped
  <2>2. breaker' \in [Generations -> Breakers] /\ locked' \in [Generations -> BOOLEAN] /\ current' \in 0..MaxBreakers
    BY <1>1, <1>2, <1>t DEF QueryTyped, Generations
  <2> QED BY <2>1, <2>2, <1>1, <1>4, <1>t DEF QueryTyped, InFlight
<1>6. \A h \in Generations : \A d \in Calls \ {c} : d \in Probes(h)' <=> d \in Probes(h)
  BY <1>4 DEF Probes, InFlight
<1>7. \A h \in Generations : c \notin Probes(h) /\ (c \in Probes(h)' <=> h = g /\ probe /\ ~refused)
  BY <1>1, <1>4 DEF Probes, InFlight
<1>8. \A h \in Generations : Probes(h) \subseteq Calls /\ Probes(h)' \subseteq Calls
  BY DEF Probes
<1>9. held => b.state = "half_open" /\ probe
  BY <1>1, <1>2 DEF QueryInv, LockAnswered, StateRead, Breakers
<1>10. LockAnswered'
  <2> SUFFICES ASSUME NEW h \in Generations, locked'[h]
               PROVE  breaker'[h].state = "half_open" /\ \E d \in Calls : d \in Probes(h)'
    BY DEF LockAnswered
  <2>1. CASE h # g
    BY <2>1, <1>3, <1>6, <1>7 DEF QueryInv, LockAnswered
  <2>2. CASE h = g /\ held
    BY <2>2, <1>3, <1>6, <1>7, <1>8, <1>9 DEF QueryInv, LockAnswered
  <2>3. CASE h = g /\ ~held
    BY <2>3, <1>3, <1>6, <1>7
  <2> QED BY <2>1, <2>2, <2>3
<1>11. ProbeAlone'
  <2> SUFFICES ASSUME NEW h \in Generations, h \notin jostled', NEW d \in Probes(h)', NEW e \in Probes(h)'
               PROVE  locked'[h] /\ d = e
    BY DEF ProbeAlone
  <2>1. CASE h # g
    BY <2>1, <1>1, <1>3, <1>6, <1>7, <1>8 DEF QueryInv, ProbeAlone
  <2>2. CASE h = g /\ Probes(g) = {}
    BY <2>2, <1>3, <1>6, <1>7, <1>8
  <2>3. CASE h = g /\ Probes(g) # {}
    <3>1. h \notin jostled
      BY <2>3, <1>1
    <3>2. locked[g]
      BY <2>3, <3>1 DEF QueryInv, ProbeAlone
    <3>3. held /\ refused
      BY <3>2, <2>3, <1>1, <1>9, <1>2 DEF QueryInv, LockAnswered, StateRead
    <3> QED BY <2>3, <3>1, <3>3, <1>3, <1>6, <1>7, <1>8 DEF QueryInv, ProbeAlone
  <2> QED BY <2>1, <2>2, <2>3
<1> QED BY <1>5, <1>10, <1>11 DEF QueryInv

(* A call that is under way ends.                                            *)
LEMMA EndKeeps ==
  ASSUME QueryInv, NEW c \in Calls, InFlight(c), NEW outcome \in {"returned", "failed", "cancelled"},
         NEW b \in Breakers, End(c, outcome, b)
  PROVE  QueryInv'
<1> DEFINE g == call[c].by
<1>t. QueryTyped
  BY DEF QueryInv
<1>1. /\ g \in Generations
      /\ breaker' = [breaker EXCEPT ![g] = b]
      /\ locked' = [locked EXCEPT ![g] = FALSE]
      /\ call' = [call EXCEPT ![c].at = outcome, ![c].probe = FALSE]
      /\ jostled' = IF locked[g] /\ ~call[c].probe THEN jostled \cup {g} ELSE jostled
      /\ current' = current
  BY <1>t DEF End, LockLeft, FreeLock, QueryTyped
<1>2. call[c] \in CallRecords
  BY <1>t DEF QueryTyped
<1> HIDE DEF g
<1>3. /\ locked'[g] = FALSE
      /\ \A h \in Generations \ {g} : breaker'[h] = breaker[h] /\ locked'[h] = locked[h]
  BY <1>1, <1>t DEF QueryTyped
<1>4. /\ call'[c] = [call[c] EXCEPT !.at = outcome, !.probe = FALSE]
      /\ \A d \in Calls \ {c} : call'[d] = call[d]
  BY <1>1, <1>t DEF QueryTyped
<1>5. call'[c] \in CallRecords /\ call'[c].at = outcome
  BY <1>2, <1>4 DEF CallRecords
<1>6. QueryTyped'
  <2>1. call' \in [Calls -> CallRecords]
    BY <1>1, <1>4, <1>5, <1>t DEF QueryTyped
  <2>2. breaker' \in [Generations -> Breakers] /\ locked' \in [Generations -> BOOLEAN] /\ current' \in 0..MaxBreakers
    BY <1>1, <1>t DEF QueryTyped
  <2> QED BY <2>1, <2>2, <1>4, <1>5, <1>t DEF QueryTyped, InFlight
<1>7. \A h \in Generations : \A d \in Calls : d \in Probes(h)' <=> d \in Probes(h) /\ d # c
  BY <1>4, <1>5 DEF Probes, InFlight
<1>8. \A h \in Generations : Probes(h) \subseteq Calls /\ Probes(h)' \subseteq Calls
  BY DEF Probes
<1>9. c \in Probes(g) <=> call[c].probe
  BY DEF Probes, g
<1>10. \A h \in Generations \ {g} : c \notin Probes(h)
  BY DEF Probes, g
<1>11. LockAnswered'
  BY <1>3, <1>7, <1>10 DEF QueryInv, LockAnswered
<1>12. ProbeAlone'
  <2> SUFFICES ASSUME NEW h \in Generations, h \notin jostled', NEW d \in Probes(h)', NEW e \in Probes(h)'
               PROVE  locked'[h] /\ d = e
    BY DEF ProbeAlone
  <2>0. h \notin jostled /\ d \in Probes(h) /\ e \in Probes(h) /\ d # c
    BY <1>1, <1>7, <1>8
  <2>1. locked[h] /\ d = e
    BY <2>0 DEF QueryInv, ProbeAlone
  <2>2. CASE h # g
    BY <2>1, <2>2, <1>3
  <2>3. CASE h = g
    <3>1. call[c].probe
      BY <2>1, <2>3, <1>1
    <3>2. d = c
      BY <3>1, <2>0, <2>3, <1>9 DEF QueryInv, ProbeAlone
    <3> QED BY <3>2, <2>0
  <2> QED BY <2>2, <2>3
<1> QED BY <1>6, <1>11, <1>12 DEF QueryInv

(* A retry stays in flight with what it had. *)
LEMMA RetryKeeps ==
  ASSUME QueryInv, NEW c \in Calls, BacksOff(c) \/ Retries(c)
  PROVE  QueryInv'
<1>t. QueryTyped
  BY DEF QueryInv
<1>2. call[c] \in CallRecords /\ InFlight(c)
  BY <1>t DEF QueryTyped, BacksOff, Retries, InFlight
<1>1. call' = [call EXCEPT ![c] = call'[c]] /\ call'[c] \in CallRecords
      /\ call'[c].at \in {"asking", "backing_off"} /\ call'[c].by = call[c].by /\ (call'[c].probe <=> call[c].probe)
      /\ UNCHANGED <<current, breaker, locked, jostled>>
  <2>1. CASE BacksOff(c)
    <3>1. call'[c] = [call[c] EXCEPT !.at = "backing_off"]
      BY <2>1, <1>t DEF BacksOff, QueryTyped
    <3>2. call' = [call EXCEPT ![c] = call'[c]]
      BY <3>1, <2>1, <1>t DEF BacksOff, QueryTyped
    <3> QED BY <3>1, <3>2, <2>1, <1>2 DEF BacksOff, CallRecords
  <2>2. CASE Retries(c)
    <3>1. call'[c] = [call[c] EXCEPT !.at = "asking", !.attempt = @ + 1]
      BY <2>2, <1>t DEF Retries, QueryTyped
    <3>2. call' = [call EXCEPT ![c] = call'[c]]
      BY <3>1, <2>2, <1>t DEF Retries, QueryTyped
    <3>3. call[c].attempt + 1 \in Nat
      BY <1>2 DEF CallRecords
    <3>4. call'[c] \in CallRecords /\ call'[c].at = "asking" /\ call'[c].by = call[c].by
          /\ (call'[c].probe <=> call[c].probe)
      BY <3>1, <3>3, <1>2 DEF CallRecords
    <3> QED BY <3>2, <3>4, <2>2 DEF Retries
  <2> QED BY <2>1, <2>2
<1>3. \A d \in Calls \ {c} : call'[d] = call[d]
  BY <1>1, <1>t DEF QueryTyped
<1>4. QueryTyped'
  BY <1>1, <1>2, <1>3, <1>t DEF QueryTyped, InFlight
<1>5. \A h \in Generations : \A d \in Calls : d \in Probes(h)' <=> d \in Probes(h)
  BY <1>1, <1>2, <1>3 DEF Probes, InFlight
<1>6. \A h \in Generations : Probes(h) \subseteq Calls /\ Probes(h)' \subseteq Calls
  BY DEF Probes
<1> QED BY <1>1, <1>4, <1>5, <1>6 DEF QueryInv, LockAnswered, ProbeAlone

(* Every step of the guarded calls keeps their invariant.                    *)
LEMMA QueryInvStep == QueryInv /\ [QueryNext]_qvars => QueryInv'
<1> SUFFICES ASSUME QueryInv, [QueryNext]_qvars PROVE QueryInv'
  OBVIOUS
<1>t. QueryTyped
  BY DEF QueryInv
<1>b. \A c \in Calls : InFlight(c) => breaker[call[c].by] \in Breakers
  BY <1>t DEF QueryTyped
<1>1. ASSUME NEW c \in Calls, Check(c) PROVE QueryInv'
  BY <1>1, CheckKeeps
<1>2. ASSUME NEW c \in Calls, Responds(c) PROVE QueryInv'
  <2>1. InFlight(c) /\ RecordSuccess(breaker[call[c].by]) \in Breakers
    BY <1>2, <1>b, BreakerTyped DEF Responds, InFlight
  <2>2. PICK outcome \in {"returned", "failed"} : End(c, outcome, RecordSuccess(breaker[call[c].by]))
    BY <1>2 DEF Responds
  <2> QED BY <2>1, <2>2, EndKeeps
<1>3. ASSUME NEW c \in Calls, BacksOff(c) \/ Retries(c) PROVE QueryInv'
  BY <1>3, RetryKeeps
<1>4. ASSUME NEW c \in Calls, Fails(c) PROVE QueryInv'
  <2>1. InFlight(c) /\ RecordFailure(breaker[call[c].by]) \in Breakers
    BY <1>4, <1>b, BreakerTyped DEF Fails, InFlight
  <2> QED BY <2>1, <1>4, EndKeeps DEF Fails
<1>5. ASSUME NEW c \in Calls, Cancelled(c) PROVE QueryInv'
  BY <1>5, <1>b, EndKeeps DEF Cancelled
<1>6. ASSUME NEW g \in Generations, Cools(g) PROVE QueryInv'
  <2>1. breaker' = [breaker EXCEPT ![g] = CoolDown(breaker[g])] /\ UNCHANGED <<current, locked, call, jostled>>
    BY <1>6 DEF Cools
  <2>2. CoolDown(breaker[g]) \in Breakers
    BY <1>t, BreakerTyped DEF QueryTyped
  <2>3. ~locked[g]
    BY <1>6 DEF Cools, QueryInv, LockAnswered
  <2>4. QueryTyped'
    BY <2>1, <2>2, <1>t DEF QueryTyped, InFlight
  <2>5. \A h \in Generations : Probes(h)' = Probes(h) /\ (locked'[h] => breaker'[h] = breaker[h])
    BY <2>1, <2>3, <1>t DEF Probes, InFlight, QueryTyped
  <2> QED BY <2>1, <2>4, <2>5 DEF QueryInv, LockAnswered, ProbeAlone
<1>7. ASSUME Removed \/ UNCHANGED qvars PROVE QueryInv'
  <2>1. UNCHANGED <<breaker, locked, call, jostled>> /\ current' \in 0..MaxBreakers
    BY <1>7, <1>t, QueryAssumption DEF Removed, qvars, QueryTyped
  <2> QED BY <2>1, <1>t DEF QueryInv, QueryTyped, LockAnswered, ProbeAlone, Probes, InFlight
<1> QED BY <1>1, <1>2, <1>3, <1>4, <1>5, <1>6, <1>7 DEF QueryNext

(* Calls that have not begun satisfy it.                                     *)
LEMMA QueryInvInit == QueryInit => QueryInv
<1> SUFFICES ASSUME QueryInit PROVE QueryInv
  OBVIOUS
<1> USE FailMaxAssumption, QueryAssumption DEF QueryInit
<1>1. FreshBreaker \in Breakers
  BY DEF FreshBreaker, Breakers
<1>2. [at |-> "idle", by |-> 0, attempt |-> 0, probe |-> FALSE] \in CallRecords
  BY DEF CallRecords
<1>3. QueryTyped
  BY <1>1, <1>2 DEF QueryTyped, InFlight
<1>4. \A g \in Generations : Probes(g) = {} /\ ~locked[g]
  BY DEF Probes
<1> QED BY <1>3, <1>4 DEF QueryInv, LockAnswered, ProbeAlone

(* So it holds of every behaviour of the guarded calls.                      *)
LEMMA QueryInvAlways == QuerySpec => []QueryInv
<1> QED BY QueryInvInit, QueryInvStep, PTL DEF QuerySpec

(* The lock of a half-open breaker does what check() takes it for: for any   *)
(* number of calls, retries and breakers, while it is taken a probe is under *)
(* way and the breaker half-open, so that it cannot wedge, and no two probes *)
(* are, but after a call admitted earlier freed the lock of another.         *)
THEOREM OneProbeIsLocked == QuerySpec => []ProbesAreLocked
<1>1. QueryInv => LockHeldByProbe
  BY DEF QueryInv, LockAnswered, LockHeldByProbe, Probes
<1>2. QueryInv => OneProbe
  <2> SUFFICES ASSUME QueryInv, NEW g \in Generations, g \notin jostled
               PROVE  Cardinality(Probes(g)) <= 1
    BY DEF OneProbe
  <2>1. CASE Probes(g) = {}
    BY <2>1, FS_EmptySet
  <2>2. CASE Probes(g) # {}
    <3>1. PICK c : Probes(g) = {c}
      BY <2>2 DEF QueryInv, ProbeAlone
    <3>2. Cardinality(Probes(g)) = 1
      BY <3>1, FS_Singleton
    <3> QED BY <3>2
  <2> QED BY <2>1, <2>2
<1>3. QueryInv => ProbesAreLocked
  BY <1>1, <1>2 DEF ProbesAreLocked
<1> QED BY <1>3, QueryInvAlways, PTL

-----------------------------------------------------------------------------
(* CostLedger on its own. *)
CostSpec == CostInit /\ [][CostNext]_covars

CostTyped ==
  /\ distant \in BOOLEAN
  /\ entry \in [Costs -> {"idle", "logged", "asking", "charged"}]
  /\ charges \in [Costs -> Nat] /\ unheard \in [Costs -> Nat]

(* A local ledger answers at once: nothing is asked, and no answer is lost.  *)
AnsweredAtOnce == ~distant => \A c \in Costs : unheard[c] = 0 /\ entry[c] # "asking"

CostInv == CostTyped /\ AnsweredAtOnce /\ ChargedAsAdded

(* One call of add_cost goes on, and its line of the ledger with it: n       *)
(* charges, m of them unheard of.                                            *)
Moves(c, how, n, m) ==
  /\ how \in {"logged", "asking", "charged"} /\ n \in 0..1 /\ m \in 0..1
  /\ entry' = [entry EXCEPT ![c] = how]
  /\ charges' = [charges EXCEPT ![c] = @ + n]
  /\ unheard' = [unheard EXCEPT ![c] = @ + m]
  /\ UNCHANGED distant
  /\ entry[c] # "charged" /\ n = m + (IF how = "charged" THEN 1 ELSE 0)
  /\ ~distant => m = 0 /\ how # "asking" /\ (n = 1 => ~LabelTaken(c))

(* One client of the ledger moves, and the others stand.                     *)
LEMMA OneCostMoves ==
  ASSUME CostInv, NEW c \in Costs, NEW how, NEW n, NEW m, Moves(c, how, n, m)
  PROVE  CostInv'
<1> USE DEF Moves
<1>t. CostTyped /\ AnsweredAtOnce /\ ChargedAsAdded
  BY DEF CostInv
<1>1. CostTyped'
  BY <1>t DEF CostTyped
<1>2. /\ entry'[c] = how /\ charges'[c] = charges[c] + n /\ unheard'[c] = unheard[c] + m
      /\ \A d \in Costs \ {c} : entry'[d] = entry[d] /\ charges'[d] = charges[d] /\ unheard'[d] = unheard[d]
  BY <1>t DEF CostTyped
<1>3. AnsweredAtOnce'
  BY <1>2, <1>t DEF AnsweredAtOnce, CostTyped
<1>4. \A d \in Costs : charges[d] \in Nat /\ unheard[d] \in Nat
  BY <1>t DEF CostTyped
<1>5. \A d \in Costs : charges'[d] = unheard'[d] + (IF entry'[d] = "charged" THEN 1 ELSE 0)
  BY <1>2, <1>4, <1>t DEF ChargedAsAdded
<1>6. ASSUME ~distant, NEW d \in Costs, NEW e \in Costs \ {d}, charges'[d] > 0, charges'[e] > 0
      PROVE  LabelOf[d] # LabelOf[e]
  <2>1. CASE d # c /\ e # c
    BY <2>1, <1>2, <1>6, <1>t DEF ChargedAsAdded
  <2>2. CASE n = 0
    BY <2>2, <1>2, <1>4, <1>6, <1>t DEF ChargedAsAdded
  <2>3. CASE n = 1 /\ (d = c \/ e = c)
    BY <2>3, <1>2, <1>6 DEF LabelTaken
  <2> QED BY <2>1, <2>2, <2>3
<1> QED BY <1>1, <1>3, <1>5, <1>6 DEF CostInv, ChargedAsAdded

(* Every step of the ledger keeps its invariant.                             *)
LEMMA CostInvStep == CostInv /\ [CostNext]_covars => CostInv'
<1> SUFFICES ASSUME CostInv, [CostNext]_covars PROVE CostInv'
  OBVIOUS
<1>t. CostTyped /\ AnsweredAtOnce /\ ChargedAsAdded
  BY DEF CostInv
<1>c. \A c \in Costs : /\ charges' = charges => charges' = [charges EXCEPT ![c] = @ + 0]
                       /\ unheard' = unheard => unheard' = [unheard EXCEPT ![c] = @ + 0]
  BY <1>t DEF CostTyped
<1>1. ASSUME RunBegins \/ (\E R \in SUBSET Rates : SetCostConfig(R)) \/ UNCHANGED covars PROVE CostInv'
  <2>1. UNCHANGED <<distant, entry, charges, unheard>>
    BY <1>1 DEF RunBegins, SetCostConfig, covars
  <2> QED BY <2>1, <1>t DEF CostInv, CostTyped, AnsweredAtOnce, ChargedAsAdded
<1>2. ASSUME NEW c \in Costs, AddCost(c) PROVE CostInv'
  <2>1. UNCHANGED <<distant, unheard>> /\ entry[c] = "idle"
    BY <1>2 DEF AddCost
  <2>2. CASE entry' = [entry EXCEPT ![c] = "logged"] /\ charges' = charges
    <3>1. Moves(c, "logged", 0, 0)
      BY <2>1, <2>2, <1>c DEF Moves
    <3> QED BY <3>1, OneCostMoves
  <2>3. CASE distant /\ entry' = [entry EXCEPT ![c] = "asking"] /\ charges' = charges
    <3>1. Moves(c, "asking", 0, 0)
      BY <2>1, <2>3, <1>c DEF Moves
    <3> QED BY <3>1, OneCostMoves
  <2>4. CASE ~distant /\ ~LabelTaken(c) /\ entry' = [entry EXCEPT ![c] = "charged"]
             /\ charges' = [charges EXCEPT ![c] = @ + 1]
    <3>1. unheard' = [unheard EXCEPT ![c] = @ + 0]
      BY <2>1, <1>c
    <3>2. Moves(c, "charged", 1, 0)
      <4>1. ~distant => ~LabelTaken(c)
        BY <2>4
      <4>2. UNCHANGED distant /\ entry[c] # "charged" /\ entry' = [entry EXCEPT ![c] = "charged"]
            /\ charges' = [charges EXCEPT ![c] = @ + 1]
        BY <2>1, <2>4
      <4> QED BY <3>1, <4>1, <4>2, SMT DEF Moves
    <3> QED BY <3>2, OneCostMoves
  <2> QED BY <1>2, <2>2, <2>3, <2>4 DEF AddCost, Settles, Charge
<1>3. ASSUME NEW c \in Costs, Charged(c) PROVE CostInv'
  <2>1. distant
    BY <1>3, <1>t DEF Charged, AnsweredAtOnce, CostTyped
  <2>2. unheard' = [unheard EXCEPT ![c] = @ + 0]
    BY <1>3, <1>c DEF Charged
  <2>3. Moves(c, "charged", 1, 0)
    BY <2>1, <2>2, <1>3 DEF Moves, Charged, Settles, Charge
  <2> QED BY <2>3, OneCostMoves
<1>4. ASSUME NEW c \in Costs, ChargedUnheard(c) PROVE CostInv'
  <2>1. distant /\ entry[c] = "asking"
    BY <1>4, <1>t DEF ChargedUnheard, AnsweredAtOnce, CostTyped
  <2>2. PICK how \in {"asking", "logged"} : entry' = [entry EXCEPT ![c] = how]
    BY <1>4 DEF ChargedUnheard, AttemptFails, Settles
  <2>3. Moves(c, how, 1, 1)
    BY <2>1, <2>2, <1>4 DEF Moves, ChargedUnheard, Charge
  <2> QED BY <2>3, OneCostMoves
<1>5. ASSUME NEW c \in Costs, NEW t \in BOOLEAN, Uncharged(c, t) PROVE CostInv'
  <2>1. distant /\ entry[c] = "asking"
    BY <1>5, <1>t DEF Uncharged, AnsweredAtOnce, CostTyped
  <2>2. PICK how \in {"asking", "logged"} : entry' = [entry EXCEPT ![c] = how]
    BY <1>5 DEF Uncharged, AttemptFails, Settles
  <2>3. Moves(c, how, 0, 0)
    BY <2>1, <2>2, <1>5, <1>c DEF Moves, Uncharged
  <2> QED BY <2>3, OneCostMoves
<1> QED BY <1>1, <1>2, <1>3, <1>4, <1>5 DEF CostNext

(* An empty ledger satisfies it.                                             *)
LEMMA CostInvInit == CostInit => CostInv
<1>1. CostInit => CostTyped /\ AnsweredAtOnce
  BY DEF CostInit, CostTyped, AnsweredAtOnce
<1> QED BY <1>1 DEF CostInit, CostInv, ChargedAsAdded

(* A run is charged what its handlers added, for any number of costs, names, *)
(* repeats and answers lost.                                                 *)
THEOREM ChargesAreAdded == CostSpec => []ChargedAsAdded
<1>1. CostInv => ChargedAsAdded
  BY DEF CostInv
<1> QED BY <1>1, CostInvInit, CostInvStep, PTL DEF CostSpec

-----------------------------------------------------------------------------
(* LocalStore on its own. *)
StoreSpec == StoreInit /\ [][StoreNext]_stvars

StoreTyped ==
  /\ map = [s \in Stores |-> [a \in Addresses |-> map[s][a]]]
  /\ file = [a \in Addresses |-> file[a]]
  /\ built \subseteq Stores
  /\ abreast \in [Stores -> SUBSET Addresses]

StoreInv == StoreTyped /\ OutlivesItsRun

(* A storage is built from the file.                                         *)
LEMMA BuildKeeps ==
  ASSUME StoreInv, NEW s \in Stores, Builds(s)
  PROVE  StoreInv'
<1>t. StoreTyped /\ OutlivesItsRun
  BY DEF StoreInv
<1> DEFINE A == {a \in Addresses \ offFile : FromFile(s)[a] = file[a]}
<1>1. /\ built' = built \cup {s} /\ map' = [map EXCEPT ![s] = FromFile(s)]
      /\ abreast' = [abreast EXCEPT ![s] = A] /\ file' = file /\ last' = last /\ offFile' = offFile
  BY DEF Builds
<1> HIDE DEF A
<1>f. FromFile(s) = [a \in Addresses |-> FromFile(s)[a]]
  BY <1>t DEF FromFile, Empty, StoreTyped
<1>a. A \subseteq Addresses /\ \A a \in A : a \notin offFile /\ FromFile(s)[a] = file[a]
  BY DEF A
<1>2. /\ map'[s] = FromFile(s) /\ abreast'[s] = A
      /\ \A t \in Stores \ {s} : map'[t] = map[t] /\ abreast'[t] = abreast[t]
  BY <1>1, <1>t DEF StoreTyped
<1>3. StoreTyped'
  <2>1. map' = [t \in Stores |-> map'[t]]
    BY <1>1, <1>t DEF StoreTyped
  <2>2. ASSUME NEW t \in Stores PROVE map'[t] = [a \in Addresses |-> map'[t][a]]
    <3>1. CASE t = s
      BY <3>1, <1>2, <1>f
    <3>2. CASE t # s
      <4>1. map'[t] = map[t]
        BY <3>2, <1>2
      <4>2. map[t] = [a \in Addresses |-> map[t][a]]
        BY <1>t DEF StoreTyped
      <4> QED BY <4>1, <4>2
    <3> QED BY <3>1, <3>2
  <2>3. map' = [t \in Stores |-> [a \in Addresses |-> map'[t][a]]]
    BY <2>1, <2>2
  <2> QED BY <2>3, <1>1, <1>a, <1>t DEF StoreTyped
<1>4. ASSUME NEW t \in built', NEW a \in abreast'[t] PROVE map'[t][a] = last'[a] /\ a \in Addresses
  <2>1. CASE t = s
    <3>1. a \in A /\ map'[t][a] = FromFile(s)[a] /\ last' = last
      BY <2>1, <1>1, <1>2
    <3>2. a \in Addresses \ offFile /\ FromFile(s)[a] = file[a]
      BY <3>1, <1>a
    <3>3. file[a] = last[a]
      BY <3>2, <1>t DEF OutlivesItsRun
    <3> QED BY <3>1, <3>2, <3>3
  <2>2. CASE t # s
    <3>1. t \in built /\ t \in Stores /\ abreast'[t] = abreast[t] /\ map'[t] = map[t]
      BY <2>2, <1>1, <1>2, <1>t DEF StoreTyped
    <3>2. a \in abreast[t] /\ a \in Addresses
      BY <3>1, <1>t DEF StoreTyped
    <3> QED BY <3>1, <3>2, <1>1, <1>t DEF OutlivesItsRun, Answer
  <2> QED BY <2>1, <2>2
<1>5. \A t, a : a \in Addresses => (a \in Listed(t, a[1])' <=> map'[t][a] # NoDoc)
  BY DEF Listed, Addresses
<1> QED BY <1>1, <1>3, <1>4, <1>5, <1>t DEF StoreInv, OutlivesItsRun, Answer

(* A change in one storage, saved or not.                                    *)
LEMMA EditKeeps ==
  ASSUME StoreInv, NEW s \in built, NEW A \in SUBSET Addresses, NEW v, Edit(s, A, v), Saved(map'[s], s, A)
  PROVE  StoreInv'
<1>t. StoreTyped /\ OutlivesItsRun
  BY DEF StoreInv
<1>s. s \in Stores
  BY <1>t DEF StoreTyped
<1>1. /\ map' = [map EXCEPT ![s] = [a \in Addresses |-> IF a \in A THEN v ELSE map[s][a]]]
      /\ last' = [a \in Addresses |-> IF a \in A THEN v ELSE last[a]]
      /\ abreast' = [t \in Stores |-> IF t = s THEN abreast[s] \cup A ELSE abreast[t] \ A]
      /\ built' = built
  BY DEF Edit
<1>2. /\ map'[s] = [a \in Addresses |-> IF a \in A THEN v ELSE map[s][a]]
      /\ \A t \in Stores \ {s} : map'[t] = map[t]
  BY <1>1, <1>s, <1>t DEF StoreTyped
<1>3. map' = [t \in Stores |-> [a \in Addresses |-> map'[t][a]]]
  BY <1>1, <1>2, <1>s, <1>t DEF StoreTyped
<1>4. abreast' \in [Stores -> SUBSET Addresses]
  BY <1>1, <1>s, <1>t DEF StoreTyped
<1>5. \A t \in built' : \A a \in abreast'[t] : map'[t][a] = last'[a] /\ a \in Addresses
  <2>1. \A t \in Stores : abreast'[t] = IF t = s THEN abreast[s] \cup A ELSE abreast[t] \ A
    BY <1>1
  <2>2. ASSUME NEW t \in built, NEW a \in Addresses, a \in abreast[t] PROVE map[t][a] = last[a]
    BY <2>2, <1>t DEF OutlivesItsRun, Answer
  <2>3. ASSUME NEW t \in built, NEW a \in abreast'[t] PROVE map'[t][a] = last'[a] /\ a \in Addresses
    <3>1. a \in Addresses /\ t \in Stores
      BY <2>3, <1>4, <1>t DEF StoreTyped
    <3>2. CASE t = s
      BY <3>1, <3>2, <2>1, <2>2, <2>3, <1>1, <1>2
    <3>3. CASE t # s
      BY <3>1, <3>3, <2>1, <2>2, <2>3, <1>1, <1>2
    <3> QED BY <3>2, <3>3
  <2> QED BY <2>3, <1>1
<1>6. file' = [a \in Addresses |-> file'[a]] /\ \A a \in Addresses \ offFile' : file'[a] = last'[a]
  <2>1. CASE file' = file /\ offFile' = offFile \cup A
    BY <2>1, <1>1, <1>t DEF OutlivesItsRun, StoreTyped
  <2>2. CASE file' = map'[s] /\ offFile' = Addresses \ abreast'[s]
    BY <2>2, <1>1, <1>2, <1>4, <1>5, <1>s
  <2> QED BY <2>1, <2>2 DEF Saved
<1>7. \A t, a : a \in Addresses => (a \in Listed(t, a[1])' <=> map'[t][a] # NoDoc)
  BY DEF Listed, Addresses
<1>8. StoreTyped'
  BY <1>1, <1>3, <1>4, <1>6, <1>t DEF StoreTyped
<1> QED BY <1>5, <1>6, <1>7, <1>8 DEF StoreInv, OutlivesItsRun, Answer

(* Every step of the local storage keeps its invariant.                      *)
LEMMA StoreInvStep == StoreInv /\ [StoreNext]_stvars => StoreInv'
<1> SUFFICES ASSUME StoreInv, [StoreNext]_stvars PROVE StoreInv'
  OBVIOUS
<1>1. CASE UNCHANGED stvars
  BY <1>1 DEF stvars, StoreInv, StoreTyped, OutlivesItsRun, Answer, Listed
<1>2. ASSUME NEW s \in Stores, Builds(s) PROVE StoreInv'
  BY <1>2, BuildKeeps
<1>3. ASSUME NEW s \in Stores, NEW a \in Addresses, NEW v \in Bodies \cup {Odd},
             StoreDoc(s, a, v) \/ UpdateDoc(s, a, v)
      PROVE  StoreInv'
  <2>1. s \in built /\ {a} \in SUBSET Addresses
        /\ Edit(s, {a}, Doc(v, fits[s][a[1]])) /\ Saved(map'[s], s, {a})
    BY <1>3 DEF StoreDoc, UpdateDoc, Writable
  <2> QED BY <2>1, EditKeeps
<1>4. ASSUME NEW s \in Stores, NEW a \in Addresses, RemoveDoc(s, a) PROVE StoreInv'
  <2>1. s \in built /\ {a} \in SUBSET Addresses /\ Edit(s, {a}, NoDoc) /\ Saved(map'[s], s, {a})
    BY <1>4 DEF RemoveDoc, RemovalSaved
  <2> QED BY <2>1, EditKeeps
<1>5. ASSUME NEW s \in Stores, NEW g \in Groups, NEW D \in SUBSET Docs, RemoveGroup(s, g, D) PROVE StoreInv'
  <2>1. s \in built /\ Edit(s, Held(s, g, D), NoDoc) /\ Saved(map'[s], s, Held(s, g, D))
    BY <1>5 DEF RemoveGroup, RemovalSaved
  <2>2. Held(s, g, D) \in SUBSET Addresses
    BY DEF Held, Addresses
  <2> QED BY <2>1, <2>2, EditKeeps
<1>6. \A D \in {Docs} \cup {{d} : d \in Docs} : D \in SUBSET Docs
  OBVIOUS
<1> QED BY <1>1, <1>2, <1>3, <1>4, <1>5, <1>6 DEF StoreNext

(* Empty storages satisfy it.                                                *)
LEMMA StoreInvInit == StoreInit => StoreInv
BY DEF StoreInit, StoreInv, StoreTyped, OutlivesItsRun, Empty

(* A record outlives its run as its callers were told, for any storages,     *)
(* collections, records and payloads.                                        *)
THEOREM RecordsOutlive == StoreSpec => []OutlivesItsRun
<1>1. StoreInv => OutlivesItsRun
  BY DEF StoreInv
<1> QED BY <1>1, StoreInvInit, StoreInvStep, PTL DEF StoreSpec

-----------------------------------------------------------------------------
(* LocalFiles on its own. *)
FilesSpec == FilesInit /\ [][FilesNext]_flvars

Updates == {"writing", "noting", "renaming", "naming"}
Deletes == {"checking", "unlinking", "dropping"}
Doings == [at : {"idle", "uploading", "recording"} \cup Updates \cup Deletes,
           title : Titles \cup {NoTitle}, bytes : Bytes \cup {NoBytes}, flag : BOOLEAN,
           id : Nat, rest : SUBSET Nat]
Files == [path : Titles, sum : Bytes, status : {"ACTIVE", "DELETED"}]

(* What a coroutine keeps is what its next steps need.                       *)
Equipped(d, ids) ==
  /\ d.at \in {"uploading", "recording", "renaming", "naming"} \cup Deletes => d.title \in Titles
  /\ d.at \in {"uploading", "recording", "writing", "noting"} => d.bytes \in Bytes
  /\ d.at \in Updates \cup Deletes => d.id \in ids

FilesTyped ==
  /\ disk \in [Paths -> Bytes \cup {NoBytes}]
  /\ info \in Seq(Files) /\ DOMAIN info \subseteq Ids
  /\ listing \subseteq DOMAIN info /\ told \subseteq DOMAIN info
  /\ does \in [Users -> Doings] /\ \A u \in Users : Equipped(does[u], DOMAIN info)
  /\ DOMAIN written = Paths

(* Whoever wrote a path last finds there what it wrote, and under the id of  *)
(* no record there is nothing.                                               *)
WritersFind ==
  /\ \A u \in Users : does[u].at = "recording" /\ written[does[u].title] = u
                      => disk[does[u].title] = does[u].bytes
  /\ \A i \in Ids \ DOMAIN info : disk[i] = NoBytes

(* A record that no other operation came to: one updates it at most, who is  *)
(* at it finds it in the table; what lies under its id is its new content,   *)
(* which its update is about to note or has noted; what lies under its path, *)
(* or under the one it is about to get, is what it says.                     *)
RecordTrue(i) ==
  /\ i \in told => i \notin listing
  /\ i \notin listing => AtIt(i) = {}
  /\ \A u, v \in Updating(i) : u = v
  /\ disk[i] # NoBytes => \/ i \in edited /\ disk[i] = info[i].sum
                          \/ \E u \in Updating(i) : does[u].at = "noting"
  /\ \A u \in Updating(i) : /\ does[u].at = "noting" => disk[i] = does[u].bytes
                            /\ does[u].at = "naming" => disk[i] = NoBytes
                            /\ does[u].at = "naming" /\ written[does[u].title] = u
                               => disk[does[u].title] = info[i].sum
  /\ i \in listing /\ i \notin edited /\ ~BeingDropped(i) => disk[info[i].path] = info[i].sum

FilesInv == FilesTyped /\ WritersFind /\ \A i \in DOMAIN info \ foreign : RecordTrue(i)

(* A deletion takes the next of the records it has left, if it is listed.    *)
LEMMA TakesNext ==
  ASSUME NEW u, NEW permanent \in BOOLEAN, NEW rest \in SUBSET Nat,
         info' \in Seq(Files), listing' \subseteq DOMAIN info'
  PROVE  /\ Takes(u, permanent, rest) \in Doings
         /\ \/ Takes(u, permanent, rest).at = "idle"
            \/ /\ Takes(u, permanent, rest).at = "checking"
               /\ Takes(u, permanent, rest).id \in listing'
               /\ Takes(u, permanent, rest).title \in Titles
<1> DEFINE i == Least(rest)
<1>1. CASE rest = {} \/ i \notin listing'
  <2>1. Takes(u, permanent, rest) = Idle
    BY <1>1 DEF Takes
  <2> QED BY <2>1 DEF Idle, Doings
<1>2. CASE ~(rest = {} \/ i \notin listing')
  <2>1. Takes(u, permanent, rest) = [at |-> "checking", title |-> info'[i].path, bytes |-> NoBytes, flag |-> permanent, id |-> i,
             rest |-> rest \ {i}]
    BY <1>2 DEF Takes, Idle
  <2>2. i \in DOMAIN info' /\ i \in Nat /\ info'[i].path \in Titles
    <3> HIDE DEF i
    <3>1. info' \in [1..Len(info') -> Files] /\ Len(info') \in Nat
      BY LenProperties
    <3>2. i \in DOMAIN info' /\ i \in Nat /\ info'[i] \in Files
      BY <1>2, <3>1
    <3> QED BY <3>2 DEF Files
  <2> HIDE DEF i
  <2>3. Takes(u, permanent, rest) \in Doings
    <3> DEFINE n == info'[i].path
    <3>1. n \in Titles /\ i \in Nat /\ rest \ {i} \in SUBSET Nat
      BY <2>2
    <3> HIDE DEF n
    <3>2. [at |-> "checking", title |-> n, bytes |-> NoBytes, flag |-> permanent, id |-> i, rest |-> rest \ {i}]
          \in Doings
      BY <3>1 DEF Doings, Deletes
    <3> USE DEF n
    <3> QED BY <2>1, <3>2
  <2>4. i \in listing'
    BY <1>2
  <2> QED BY <2>1, <2>2, <2>3, <2>4
<1> QED BY <1>1, <1>2

(* A step of u, for a record it is not at.                                   *)
PassesBy(u, j) ==
  /\ \A v \in Users \ {u} : does'[v] = does[v]
  /\ ~(does[u].id = j /\ does[u].at \in Updates \cup {"dropping"})
  /\ does'[u].id = j /\ does'[u].at \in Updates \cup (Deletes \ {"unlinking"})
     => does'[u].at = "checking" /\ j \in listing'
  /\ (j \in told' <=> j \in told) /\ (j \in listing' <=> j \in listing) /\ (j \in edited' <=> j \in edited)
  /\ disk'[j] = disk[j] /\ info'[j].path = info[j].path /\ info'[j].sum = info[j].sum
  /\ disk'[info[j].path] = disk[info[j].path]
  /\ \A v \in Users \ {u} : \A n \in Titles : written'[n] = v => written[n] = v /\ disk'[n] = disk[n]

(* The work of another, on other files, passes an operation by.              *)
LEMMA PassedBy ==
  ASSUME FilesInv, NEW u \in Users, NEW j \in DOMAIN info \ foreign, PassesBy(u, j)
  PROVE  RecordTrue(j)'
<1>t. FilesTyped /\ RecordTrue(j)
  BY DEF FilesInv
<1>1. \A v \in Users : v \in Updating(j)' <=> v \in Updating(j)
  BY DEF PassesBy, Updating, Updates
<1>2. Updating(j)' = Updating(j)
  BY <1>1 DEF Updating
<1>3. \A v \in Updating(j) : v \in Users \ {u} /\ does'[v] = does[v] /\ does[v].at \in Updates /\ does[v].id = j
  BY DEF PassesBy, Updating, Updates
<1>4. BeingDropped(j)' => BeingDropped(j)
  BY DEF PassesBy, BeingDropped, Updates, Deletes
<1>4b. BeingDropped(j) => BeingDropped(j)'
  BY DEF PassesBy, BeingDropped, Updates, Deletes
<1>5. j \notin listing' => AtIt(j)' = {}
  BY <1>2, <1>t DEF RecordTrue, AtIt, PassesBy, Updates, Deletes
<1>6. \A v \in Updating(j) : does[v].at = "naming" /\ written'[does[v].title] = v
        => written[does[v].title] = v /\ disk'[does[v].title] = disk[does[v].title]
  BY <1>3, <1>t DEF PassesBy, FilesTyped, Equipped
<1>7. /\ \A v \in Updating(j)' : /\ does'[v].at = "noting" => disk'[j] = does'[v].bytes
                                 /\ does'[v].at = "naming" => disk'[j] = NoBytes
                                 /\ does'[v].at = "naming" /\ written'[does'[v].title] = v
                                    => disk'[does'[v].title] = info'[j].sum
  BY <1>2, <1>3, <1>6, <1>t DEF RecordTrue, PassesBy
<1>8. disk'[j] # NoBytes => \/ j \in edited' /\ disk'[j] = info'[j].sum
                            \/ \E v \in Updating(j)' : does'[v].at = "noting"
  BY <1>2, <1>3, <1>t DEF RecordTrue, PassesBy
<1>9. j \in listing' /\ j \notin edited' /\ ~BeingDropped(j)' => disk'[info'[j].path] = info'[j].sum
  BY <1>4b, <1>t DEF RecordTrue, PassesBy
<1> QED BY <1>2, <1>5, <1>7, <1>8, <1>9, <1>t DEF RecordTrue, PassesBy

(* A coroutine goes on to w, which has what its next steps need.             *)
LEMMA GoesTo ==
  ASSUME FilesTyped, NEW u \in Users, NEW w \in Doings, Equipped(w, DOMAIN info'), DOMAIN info \subseteq DOMAIN info',
         does' = [does EXCEPT ![u] = w]
  PROVE  /\ does' \in [Users -> Doings] /\ \A v \in Users : Equipped(does'[v], DOMAIN info')
         /\ does'[u] = w /\ \A v \in Users \ {u} : does'[v] = does[v]
<1>1. /\ does' \in [Users -> Doings] /\ does'[u] = w /\ \A v \in Users \ {u} : does'[v] = does[v]
  BY DEF FilesTyped
<1>2. \A v \in Users : Equipped(does[v], DOMAIN info)
  BY DEF FilesTyped
<1>3. ASSUME NEW v \in Users \ {u} PROVE Equipped(does'[v], DOMAIN info')
  BY <1>1, <1>2 DEF Equipped
<1> QED BY <1>1, <1>3

(* One worker goes on where files and records stay as they are.              *)
LEMMA MovesOn ==
  ASSUME FilesTyped, NEW u \in Users,
         NEW a \in {"idle", "uploading", "recording"} \cup Updates \cup Deletes, MovesTo(u, a)
  PROVE  LET w == [does[u] EXCEPT !.at = a]
         IN  /\ does' = [does EXCEPT ![u] = w] /\ w \in Doings /\ w.at = a /\ w.title = does[u].title
             /\ w.bytes = does[u].bytes /\ w.id = does[u].id
<1>1. does[u] \in Doings /\ does \in [Users -> Doings]
  BY DEF FilesTyped
<1>2. [does[u] EXCEPT !.at = a] \in Doings
  BY <1>1 DEF Doings
<1>3. does' = [does EXCEPT ![u] = [does[u] EXCEPT !.at = a]]
  BY <1>1 DEF MovesTo
<1> QED BY <1>1, <1>2, <1>3 DEF Doings

(* A worker between operations needs nothing of its record.                  *)
LEMMA IdleIsEquipped == Idle \in Doings /\ \A ids : Equipped(Idle, ids)
BY DEF Idle, Doings, Equipped, Updates, Deletes

(* Records are kept as sequences are.                                        *)
LEMMA RecordsMade ==
  ASSUME FilesTyped
  PROVE  /\ Len(info) \in Nat /\ DOMAIN info = 1..Len(info)
         /\ \A i \in DOMAIN info : info[i] \in Files /\ i \in Nat /\ i \in Ids /\ i \in Paths /\ info[i].path \in Titles
         /\ \A n \in Titles : n \in Paths /\ n \notin Ids
<1>1. Len(info) \in Nat /\ DOMAIN info = 1..Len(info) /\ \A i \in DOMAIN info : info[i] \in Files
  BY ElementOfSeq, LenProperties DEF FilesTyped
<1> QED BY <1>1, FilesAssumption DEF FilesTyped, Files, Ids, Paths

-----------------------------------------------------------------------------
(* An upload is checked.                                                     *)
LEMMA UploadChecksKeeps ==
  ASSUME FilesInv, NEW u \in Users, NEW n \in Titles, NEW b \in Bytes, NEW replace \in BOOLEAN,
         UploadChecks(u, n, b, replace)
  PROVE  FilesInv'
<1>t. FilesTyped /\ WritersFind /\ \A i \in DOMAIN info \ foreign : RecordTrue(i)
  BY DEF FilesInv
<1>r. /\ \A i \in DOMAIN info : i \in Paths /\ info[i].path \in Titles
  BY <1>t, RecordsMade
<1>1. /\ UNCHANGED <<disk, info, listing, written, foreign, edited, told>> /\ does[u].at = "idle"
  BY DEF UploadChecks, Begins
<1>2. PICK w \in Doings : does' = [does EXCEPT ![u] = w] /\ w.at \in {"idle", "uploading"} /\ Equipped(w, DOMAIN info)
  <2>1. CASE does' = [does EXCEPT ![u] = Idle]
    BY <2>1, IdleIsEquipped DEF Idle
  <2>2. CASE does' = [does EXCEPT ![u] = [Idle EXCEPT !.at = "uploading", !.title = n, !.bytes = b]]
    <3> DEFINE w == [Idle EXCEPT !.at = "uploading", !.title = n, !.bytes = b]
    <3>1. w \in Doings
      BY IdleIsEquipped DEF Doings
    <3>2. w.at = "uploading" /\ w.title = n /\ w.bytes = b
      BY IdleIsEquipped DEF Doings
    <3>3. does' = [does EXCEPT ![u] = w]
      BY <2>2
    <3> HIDE DEF w
    <3>4. Equipped(w, DOMAIN info)
      BY <3>2 DEF Equipped, Updates, Deletes
    <3> QED BY <3>1, <3>2, <3>3, <3>4
  <2> QED BY <2>1, <2>2 DEF UploadChecks, Begins
<1>3. /\ does' \in [Users -> Doings] /\ \A v \in Users : Equipped(does'[v], DOMAIN info')
      /\ does'[u] = w /\ \A v \in Users \ {u} : does'[v] = does[v]
  BY <1>1, <1>2, <1>t, GoesTo
<1>4. FilesTyped'
  BY <1>1, <1>3, <1>t DEF FilesTyped
<1>5. WritersFind'
  BY <1>1, <1>2, <1>3, <1>t DEF WritersFind
<1>6. \A j \in DOMAIN info \ foreign : PassesBy(u, j)
  BY <1>1, <1>2, <1>3, <1>r DEF PassesBy, Updates, Deletes
<1> QED BY <1>1, <1>4, <1>5, <1>6, PassedBy DEF FilesInv

(* An upload writes the content of its file.                                 *)
LEMMA UploadWritesKeeps ==
  ASSUME FilesInv, NEW u \in Users, UploadWrites(u)
  PROVE  FilesInv'
<1>t. FilesTyped /\ WritersFind /\ \A i \in DOMAIN info \ foreign : RecordTrue(i)
  BY DEF FilesInv
<1>r. /\ \A i \in DOMAIN info : i \in Paths /\ info[i].path \in Titles /\ i \in Ids
      /\ \A n \in Titles : n \in Paths /\ n \notin Ids
  BY <1>t, RecordsMade
<1> DEFINE n == does[u].title
<1>1. /\ does[u].at = "uploading" /\ MovesTo(u, "recording")
      /\ disk' = [disk EXCEPT ![n] = does[u].bytes] /\ written' = [written EXCEPT ![n] = u]
      /\ foreign' = foreign \cup {i \in DOMAIN info : info[i].path = n}
      /\ UNCHANGED <<info, listing, edited, told>>
  BY DEF UploadWrites, OthersAt
<1>2. n \in Titles /\ does[u].bytes \in Bytes
  BY <1>1, <1>t DEF FilesTyped, Equipped
<1> DEFINE w == [does[u] EXCEPT !.at = "recording"]
<1>3. does' = [does EXCEPT ![u] = w] /\ w \in Doings /\ w.at = "recording" /\ w.title = n /\ w.bytes = does[u].bytes
      /\ w.id = does[u].id
  BY <1>1, <1>t, MovesOn
<1> HIDE DEF n, w
<1>4. Equipped(w, DOMAIN info')
  BY <1>2, <1>3 DEF Equipped, Updates, Deletes
<1>5. /\ does' \in [Users -> Doings] /\ \A v \in Users : Equipped(does'[v], DOMAIN info')
      /\ does'[u] = w /\ \A v \in Users \ {u} : does'[v] = does[v]
  BY <1>1, <1>3, <1>4, <1>t, GoesTo
<1>6. /\ disk'[n] = does[u].bytes /\ written'[n] = u
      /\ \A p \in Paths \ {n} : disk'[p] = disk[p] /\ written'[p] = written[p]
  BY <1>1, <1>2, <1>r, <1>t DEF FilesTyped
<1>7. FilesTyped'
  BY <1>1, <1>2, <1>5, <1>t DEF FilesTyped
<1>8. WritersFind'
  <2>1. ASSUME NEW v \in Users, does'[v].at = "recording", written'[does'[v].title] = v
        PROVE  disk'[does'[v].title] = does'[v].bytes
    <3>1. CASE v = u
      BY <3>1, <1>3, <1>5, <1>6
    <3>2. CASE v # u
      <4>1. does'[v] = does[v] /\ does[v].title \in Titles
        BY <3>2, <2>1, <1>5, <1>7 DEF FilesTyped, Equipped
      <4>2. does[v].title # n
        BY <3>2, <2>1, <4>1, <1>6
      <4> QED BY <2>1, <4>1, <4>2, <1>6, <1>r, <1>t DEF WritersFind
    <3> QED BY <3>1, <3>2
  <2>2. \A i \in Ids : i # n /\ i \in Paths
    BY <1>2, <1>r DEF Paths
  <2> QED BY <2>1, <2>2, <1>1, <1>6, <1>t DEF WritersFind
<1>9. ASSUME NEW j \in DOMAIN info \ foreign' PROVE PassesBy(u, j)
  <2>1. j # n /\ j \in Paths /\ info[j].path # n /\ info[j].path \in Paths
    BY <1>9, <1>1, <1>2, <1>r
  <2> QED BY <2>1, <1>1, <1>3, <1>5, <1>6, <1>r DEF PassesBy, Updates, Deletes
<1> QED BY <1>1, <1>7, <1>8, <1>9, PassedBy DEF FilesInv

(* An upload records the file it wrote.                                      *)
LEMMA UploadRecordsKeeps ==
  ASSUME FilesInv, NEW u \in Users, UploadRecords(u)
  PROVE  FilesInv'
<1>t. FilesTyped /\ WritersFind /\ \A i \in DOMAIN info \ foreign : RecordTrue(i)
  BY DEF FilesInv
<1>r. /\ \A i \in DOMAIN info : i \in Paths /\ info[i].path \in Titles /\ i \in Ids
      /\ \A n \in Titles : n \in Paths /\ n \notin Ids
      /\ Len(info) \in Nat /\ DOMAIN info = 1..Len(info) /\ info \in Seq(Files)
  BY <1>t, RecordsMade DEF FilesTyped
<1>0. PICK i : i = Len(info) + 1
  OBVIOUS
<1> DEFINE n == does[u].title
           entered == [path |-> n, sum |-> does[u].bytes, status |-> "ACTIVE"]
<1>1. /\ does[u].at = "recording" /\ i \in Ids /\ info' = Append(info, entered)
      /\ listing' = listing \cup {i}
      /\ foreign' = (IF written[n] = u THEN foreign ELSE foreign \cup {i})
      /\ does' = [does EXCEPT ![u] = Idle]
      /\ UNCHANGED <<disk, written, edited, told>>
  BY <1>0 DEF UploadRecords, Ends
<1>2. n \in Titles /\ does[u].bytes \in Bytes
  BY <1>1, <1>t DEF FilesTyped, Equipped
<1>3. entered \in Files
  BY <1>2 DEF Files
<1>4. entered.path = n /\ entered.sum = does[u].bytes
  OBVIOUS
<1> HIDE DEF entered
<1>5. /\ info' \in Seq(Files) /\ DOMAIN info' = DOMAIN info \cup {i} /\ i \notin DOMAIN info
      /\ info'[i] = entered /\ \A j \in DOMAIN info : info'[j] = info[j]
  <2>1. info' \in Seq(Files) /\ Len(info') = Len(info) + 1 /\ info'[i] = entered
        /\ \A j \in 1..Len(info) : info'[j] = info[j]
    BY <1>0, <1>1, <1>3, <1>r, AppendProperties
  <2>2. DOMAIN info' = 1..Len(info')
    BY <2>1, LenProperties
  <2> QED BY <2>1, <2>2, <1>0, <1>r
<1> HIDE DEF n
<1>6. /\ does' \in [Users -> Doings] /\ \A v \in Users : Equipped(does'[v], DOMAIN info')
      /\ does'[u] = Idle /\ \A v \in Users \ {u} : does'[v] = does[v]
  BY <1>1, <1>5, <1>t, GoesTo, IdleIsEquipped
<1>7. FilesTyped'
  BY <1>1, <1>5, <1>6, <1>t DEF FilesTyped
<1>8. WritersFind'
  BY <1>1, <1>5, <1>6, <1>t DEF WritersFind, Idle
<1>9. ASSUME NEW j \in DOMAIN info \ foreign PROVE PassesBy(u, j)
  <2>1. j # i
    BY <1>5
  <2> QED BY <2>1, <1>1, <1>5, <1>6, <1>r DEF PassesBy, Updates, Deletes, Idle
<1>10. ASSUME i \notin foreign' PROVE RecordTrue(i)'
  <2>1. Updating(i)' = {} /\ AtIt(i)' = {} /\ i \notin told'
    <3>1. \A v \in Users : Equipped(does[v], DOMAIN info)
      BY <1>t DEF FilesTyped
    <3>2. \A v \in Users : ~(does'[v].id = i /\ does'[v].at \in Updates \cup Deletes)
      BY <3>1, <1>5, <1>6 DEF Equipped, Idle, Updates, Deletes
    <3>3. Updating(i)' = {} /\ AtIt(i)' = {}
      <4>1. ASSUME NEW v \in AtIt(i)' PROVE FALSE
        <5>1. v \in Users /\ does'[v].id = i /\ does'[v].at \in Updates \cup Deletes
          BY <4>1 DEF AtIt, Updating, Updates, Deletes
        <5> QED BY <5>1, <3>2
      <4> QED BY <4>1 DEF AtIt
    <3>4. told \subseteq DOMAIN info
      BY <1>t DEF FilesTyped
    <3> QED BY <3>3, <3>4, <1>1, <1>5
  <2>2. disk'[i] = NoBytes
    BY <1>1, <1>5, <1>t DEF WritersFind
  <2>3. disk'[info'[i].path] = info'[i].sum
    <3>1. written[n] = u
      BY <1>1, <1>10
    <3>2. disk[n] = does[u].bytes
      BY <3>1, <1>1, <1>t DEF WritersFind, n
    <3>3. info'[i].path = n /\ info'[i].sum = does[u].bytes
      BY <1>4, <1>5
    <3>4. disk' = disk
      BY <1>1
    <3> QED BY <3>2, <3>3, <3>4
  <2> QED BY <2>1, <2>2, <2>3, <1>1 DEF RecordTrue
<1>11. foreign \subseteq foreign'
  BY <1>1
<1>12. \A j \in DOMAIN info' \ foreign' : j \in DOMAIN info \ foreign \/ (j = i /\ i \notin foreign')
  BY <1>5, <1>11
<1>13. ASSUME NEW j \in DOMAIN info' \ foreign' PROVE RecordTrue(j)'
  <2>1. CASE j \in DOMAIN info \ foreign
    BY <2>1, <1>9, PassedBy
  <2>2. CASE j = i /\ i \notin foreign'
    BY <2>2, <1>10
  <2> QED BY <2>1, <2>2, <1>12
<1> QED BY <1>7, <1>8, <1>13 DEF FilesInv

-----------------------------------------------------------------------------
(* An update of a record nobody else updates.                                *)
LEMMA OwnRecord ==
  ASSUME FilesInv, NEW u \in Users, NEW i \in DOMAIN info \ foreign,
         \A v \in Users \ {u} : does'[v] = does[v],
         Updating(i) \subseteq {u}, i \in listing, i \in listing', told' = told,
         does'[u].at = "idle" \/ (does'[u].id = i /\ does'[u].at \in Updates),
         disk'[i] # NoBytes => (i \in edited' /\ disk'[i] = info'[i].sum) \/ does'[u].at = "noting",
         does'[u].at = "noting" => disk'[i] = does'[u].bytes,
         does'[u].at = "naming" => /\ disk'[i] = NoBytes
                                   /\ written'[does'[u].title] = u => disk'[does'[u].title] = info'[i].sum,
         i \notin edited' /\ ~BeingDropped(i) => disk'[info'[i].path] = info'[i].sum,
         does[u].at # "dropping"
  PROVE  RecordTrue(i)'
<1>1. RecordTrue(i)
  BY DEF FilesInv
<1>2. Updating(i)' \subseteq {u}
  BY DEF Updating
<1>3. does'[u].at \in Updates => u \in Updating(i)'
  BY DEF Updating, Updates
<1>4. BeingDropped(i) => BeingDropped(i)'
  BY DEF BeingDropped
<1>5. i \notin told'
  BY <1>1 DEF RecordTrue
<1> QED BY <1>2, <1>3, <1>4, <1>5 DEF RecordTrue, Updates

(* An update begins at a record that is listed.                              *)
LEMMA UpdateStartsKeeps ==
  ASSUME FilesInv, NEW u \in Users, NEW i \in listing, NEW b \in Bytes \cup {NoBytes}, NEW n \in Titles \cup {NoTitle},
         UpdateStarts(u, i, b, n)
  PROVE  FilesInv'
<1>t. FilesTyped /\ WritersFind /\ \A j \in DOMAIN info \ foreign : RecordTrue(j)
  BY DEF FilesInv
<1>r. \A j \in DOMAIN info : j \in Paths /\ info[j].path \in Titles /\ j \in Ids /\ j \in Nat
  BY <1>t, RecordsMade
<1>i. i \in DOMAIN info
  BY <1>t DEF FilesTyped
<1> DEFINE w == [Idle EXCEPT !.at = IF b = NoBytes THEN "renaming" ELSE "writing", !.title = n, !.bytes = b, !.id = i]
<1>1. /\ does[u].at = "idle" /\ does' = [does EXCEPT ![u] = w] /\ {b, n} # {NoBytes, NoTitle}
      /\ foreign' = (IF Updating(i) # {} THEN foreign \cup {i} ELSE foreign)
      /\ UNCHANGED <<disk, info, listing, written, edited, told>>
  BY DEF UpdateStarts, Begins
<1>2. w \in Doings
  BY <1>i, <1>r, IdleIsEquipped DEF Doings, Updates
<1>3. w.at = (IF b = NoBytes THEN "renaming" ELSE "writing") /\ w.title = n /\ w.bytes = b /\ w.id = i
  BY IdleIsEquipped DEF Doings
<1> HIDE DEF w
<1>4. b = NoBytes => n # NoTitle
  BY <1>1
<1>5. Equipped(w, DOMAIN info')
  BY <1>1, <1>3, <1>4, <1>i DEF Equipped, Updates, Deletes
<1>6. /\ does' \in [Users -> Doings] /\ \A v \in Users : Equipped(does'[v], DOMAIN info')
      /\ does'[u] = w /\ \A v \in Users \ {u} : does'[v] = does[v]
  BY <1>1, <1>2, <1>5, <1>t, GoesTo
<1>7. FilesTyped'
  BY <1>1, <1>6, <1>t DEF FilesTyped
<1>8. WritersFind'
  BY <1>1, <1>3, <1>6, <1>t DEF WritersFind
<1>9. ASSUME NEW j \in DOMAIN info \ foreign, j # i PROVE PassesBy(u, j)
  BY <1>9, <1>1, <1>3, <1>6, <1>r DEF PassesBy, Updates, Deletes
<1>10. ASSUME i \notin foreign' PROVE RecordTrue(i)'
  <2>1. Updating(i) = {} /\ i \notin foreign
    BY <1>10, <1>1
  <2>2. does'[u].at \in {"renaming", "writing"} /\ does'[u].id = i
    BY <1>3, <1>6
  <2>3. disk'[i] # NoBytes => i \in edited' /\ disk'[i] = info'[i].sum
    BY <2>1, <1>1, <1>i, <1>t DEF RecordTrue
  <2>4. i \notin edited' /\ ~BeingDropped(i) => disk'[info'[i].path] = info'[i].sum
    BY <2>1, <1>1, <1>i, <1>t DEF RecordTrue
  <2> QED BY <2>1, <2>2, <2>3, <2>4, <1>1, <1>6, <1>i, OwnRecord DEF Updates
<1>11. foreign \subseteq foreign'
  BY <1>1
<1> QED BY <1>1, <1>7, <1>8, <1>9, <1>10, <1>11, PassedBy DEF FilesInv

(* No other operation is at the file an update is at.                        *)
LEMMA UpdaterAlone ==
  ASSUME FilesInv, NEW u \in Users, does[u].at \in Updates
  PROVE  /\ does[u].id \in DOMAIN info
         /\ does[u].id \notin foreign =>
              /\ RecordTrue(does[u].id) /\ does[u].id \in listing
              /\ u \in Updating(does[u].id) /\ Updating(does[u].id) \subseteq {u}
<1>1. does[u].id \in DOMAIN info
  BY DEF FilesInv, FilesTyped, Equipped
<1>2. u \in Updating(does[u].id)
  BY DEF Updating, Updates
<1>3. does[u].id \notin foreign => RecordTrue(does[u].id)
  BY <1>1 DEF FilesInv
<1>4. RecordTrue(does[u].id) => does[u].id \in listing
  BY <1>2 DEF RecordTrue, AtIt
<1>5. RecordTrue(does[u].id) => Updating(does[u].id) \subseteq {u}
  BY <1>2 DEF RecordTrue
<1> QED BY <1>1, <1>2, <1>3, <1>4, <1>5

(* An update writes the new content.                                         *)
LEMMA UpdateWritesKeeps ==
  ASSUME FilesInv, NEW u \in Users, UpdateWrites(u)
  PROVE  FilesInv'
<1>t. FilesTyped /\ WritersFind /\ \A j \in DOMAIN info \ foreign : RecordTrue(j)
  BY DEF FilesInv
<1>r. /\ \A j \in DOMAIN info : j \in Paths /\ info[j].path \in Titles /\ j \in Ids
      /\ \A n \in Titles : n \in Paths /\ n \notin Ids
  BY <1>t, RecordsMade
<1>0. PICK i : i = does[u].id
  OBVIOUS
<1>1. /\ does[u].at = "writing" /\ MovesTo(u, "noting")
      /\ disk' = [disk EXCEPT ![i] = does[u].bytes] /\ written' = [written EXCEPT ![i] = u]
      /\ UNCHANGED <<info, listing, foreign, edited, told>>
  BY <1>0 DEF UpdateWrites
<1>2. does[u].bytes \in Bytes /\ i \in DOMAIN info
  BY <1>0, <1>1, <1>t DEF FilesTyped, Equipped, Updates
<1> DEFINE w == [does[u] EXCEPT !.at = "noting"]
<1>3. does' = [does EXCEPT ![u] = w] /\ w \in Doings /\ w.at = "noting" /\ w.bytes = does[u].bytes /\ w.id = i
  BY <1>0, <1>1, <1>t, MovesOn DEF Updates
<1> HIDE DEF w
<1>4. Equipped(w, DOMAIN info')
  BY <1>1, <1>2, <1>3 DEF Equipped, Updates, Deletes
<1>5. /\ does' \in [Users -> Doings] /\ \A v \in Users : Equipped(does'[v], DOMAIN info')
      /\ does'[u] = w /\ \A v \in Users \ {u} : does'[v] = does[v]
  BY <1>1, <1>3, <1>4, <1>t, GoesTo
<1>6. /\ disk'[i] = does[u].bytes
      /\ \A p \in Paths \ {i} : disk'[p] = disk[p] /\ written'[p] = written[p]
  BY <1>1, <1>2, <1>r, <1>t DEF FilesTyped
<1>7. FilesTyped'
  BY <1>1, <1>2, <1>5, <1>r, <1>t DEF FilesTyped
<1>8. WritersFind'
  <2>1. ASSUME NEW v \in Users, does'[v].at = "recording", written'[does'[v].title] = v
        PROVE  disk'[does'[v].title] = does'[v].bytes
    <3>1. v # u /\ does'[v] = does[v]
      BY <2>1, <1>3, <1>5
    <3>2. does[v].title \in Titles
      BY <3>1, <2>1, <1>7 DEF FilesTyped, Equipped
    <3>3. does[v].title \in Paths \ {i}
      BY <3>2, <1>2, <1>r
    <3> QED BY <2>1, <3>1, <3>3, <1>6, <1>t DEF WritersFind
  <2>2. \A j \in Ids \ DOMAIN info : j # i /\ j \in Paths
    BY <1>2 DEF Paths
  <2> QED BY <2>1, <2>2, <1>1, <1>6, <1>t DEF WritersFind
<1>9. ASSUME NEW j \in DOMAIN info \ foreign, j # i PROVE PassesBy(u, j)
  <2>1. j \in Paths /\ info[j].path \in Paths \ {i} /\ \A n \in Titles : n \in Paths \ {i}
    BY <1>2, <1>r
  <2> QED BY <2>1, <1>0, <1>1, <1>3, <1>5, <1>6, <1>9 DEF PassesBy, Updates, Deletes
<1>10. ASSUME i \notin foreign PROVE RecordTrue(i)'
  <2>1. i \in listing /\ Updating(i) \subseteq {u} /\ RecordTrue(i)
    BY <1>0, <1>1, <1>10, UpdaterAlone DEF Updates
  <2>2. info[i].path \in Paths \ {i}
    BY <1>2, <1>r
  <2>3. i \notin edited' /\ ~BeingDropped(i) => disk'[info'[i].path] = info'[i].sum
    BY <2>1, <2>2, <1>1, <1>6 DEF RecordTrue
  <2> QED BY <2>1, <2>3, <1>1, <1>2, <1>3, <1>5, <1>6, <1>10, OwnRecord DEF Updates
<1> QED BY <1>1, <1>7, <1>8, <1>9, <1>10, PassedBy DEF FilesInv

(* The record notes a new checksum, a new path or a new status.              *)
LEMMA RecordChanges ==
  ASSUME FilesTyped, NEW i \in DOMAIN info, NEW f \in Files, info' = [info EXCEPT ![i] = f]
  PROVE  /\ info' \in Seq(Files) /\ DOMAIN info' = DOMAIN info /\ info'[i] = f
         /\ \A j \in DOMAIN info \ {i} : info'[j] = info[j]
<1>1. /\ Len(info) \in Nat /\ DOMAIN info = 1..Len(info) /\ info \in [1..Len(info) -> Files]
  BY LenProperties DEF FilesTyped
<1>2. info' \in [1..Len(info) -> Files]
  BY <1>1
<1>3. info' \in Seq(Files)
  BY <1>1, <1>2, SeqDef
<1> QED BY <1>1, <1>2, <1>3

(* An update notes the new content in the record.                            *)
LEMMA UpdateNotesKeeps ==
  ASSUME FilesInv, NEW u \in Users, UpdateNotes(u)
  PROVE  FilesInv'
<1>t. FilesTyped /\ WritersFind /\ \A j \in DOMAIN info \ foreign : RecordTrue(j)
  BY DEF FilesInv
<1>r. \A j \in DOMAIN info : j \in Paths /\ info[j].path \in Titles /\ j \in Ids /\ info[j] \in Files
  BY <1>t, RecordsMade
<1>0. PICK i : i = does[u].id
  OBVIOUS
<1>1. /\ does[u].at = "noting" /\ info' = [info EXCEPT ![i].sum = does[u].bytes]
      /\ edited' = edited \cup {i}
      /\ \/ does[u].title = NoTitle /\ listing' = listing \cup {i} /\ does' = [does EXCEPT ![u] = Idle]
         \/ does[u].title # NoTitle /\ listing' = listing /\ MovesTo(u, "renaming")
      /\ UNCHANGED <<disk, written, foreign, told>>
  BY <1>0 DEF UpdateNotes, Keeps, Ends
<1>2. does[u].bytes \in Bytes /\ i \in DOMAIN info /\ does[u] \in Doings
  BY <1>0, <1>1, <1>t DEF FilesTyped, Equipped, Updates
<1> DEFINE f == [info[i] EXCEPT !.sum = does[u].bytes]
<1>3. f \in Files /\ f.sum = does[u].bytes /\ f.path = info[i].path /\ info' = [info EXCEPT ![i] = f]
  BY <1>1, <1>2, <1>r DEF Files
<1> HIDE DEF f
<1>4. /\ info' \in Seq(Files) /\ DOMAIN info' = DOMAIN info /\ info'[i] = f
      /\ \A j \in DOMAIN info \ {i} : info'[j] = info[j]
  BY <1>2, <1>3, <1>t, RecordChanges
<1>5. PICK w \in Doings : /\ does' = [does EXCEPT ![u] = w]
                          /\ w.at = "idle" \/ (w.at = "renaming" /\ w.id = i)
                          /\ Equipped(w, DOMAIN info')
  <2>1. CASE does' = [does EXCEPT ![u] = Idle]
    BY <2>1, IdleIsEquipped DEF Idle
  <2>2. CASE does[u].title # NoTitle /\ MovesTo(u, "renaming")
    <3> DEFINE w == [does[u] EXCEPT !.at = "renaming"]
    <3>1. does' = [does EXCEPT ![u] = w] /\ w \in Doings /\ w.at = "renaming" /\ w.title = does[u].title /\ w.id = i
      BY <2>2, <1>0, <1>t, MovesOn DEF Updates
    <3> HIDE DEF w
    <3>2. w.title \in Titles
      BY <3>1, <2>2, <1>2 DEF Doings
    <3>3. Equipped(w, DOMAIN info')
      BY <3>1, <3>2, <1>2, <1>4 DEF Equipped, Updates, Deletes
    <3> QED BY <3>1, <3>3
  <2> QED BY <2>1, <2>2, <1>1
<1>6. /\ does' \in [Users -> Doings] /\ \A v \in Users : Equipped(does'[v], DOMAIN info')
      /\ does'[u] = w /\ \A v \in Users \ {u} : does'[v] = does[v]
  BY <1>4, <1>5, <1>t, GoesTo
<1>7. FilesTyped'
  BY <1>1, <1>2, <1>4, <1>6, <1>t DEF FilesTyped
<1>8. WritersFind'
  BY <1>1, <1>4, <1>5, <1>6, <1>t DEF WritersFind
<1>9. ASSUME NEW j \in DOMAIN info \ foreign, j # i PROVE PassesBy(u, j)
  <2>1. (j \in listing' <=> j \in listing) /\ (j \in edited' <=> j \in edited) /\ info'[j] = info[j]
    BY <1>9, <1>1, <1>4
  <2>2. does[u].id # j /\ ~(does'[u].id = j /\ does'[u].at \in Updates \cup Deletes)
    BY <1>9, <1>0, <1>5, <1>6 DEF Updates, Deletes
  <2> QED BY <2>1, <2>2, <1>1, <1>6 DEF PassesBy
<1>10. ASSUME i \notin foreign PROVE RecordTrue(i)'
  <2>1. i \in listing /\ Updating(i) \subseteq {u} /\ u \in Updating(i) /\ RecordTrue(i)
    BY <1>0, <1>1, <1>10, UpdaterAlone DEF Updates
  <2>2. disk'[i] = info'[i].sum /\ i \in edited' /\ i \in listing'
    BY <2>1, <1>1, <1>3, <1>4 DEF RecordTrue
  <2> QED BY <2>1, <2>2, <1>1, <1>2, <1>5, <1>6, <1>10, OwnRecord DEF Updates
<1> QED BY <1>1, <1>4, <1>7, <1>8, <1>9, <1>10, PassedBy DEF FilesInv

(* An update renames the file.                                               *)
LEMMA UpdateRenamesKeeps ==
  ASSUME FilesInv, NEW u \in Users, UpdateRenames(u)
  PROVE  FilesInv'
<1>t. FilesTyped /\ WritersFind /\ \A j \in DOMAIN info \ foreign : RecordTrue(j)
  BY DEF FilesInv
<1>r. /\ \A j \in DOMAIN info : j \in Paths /\ info[j].path \in Titles /\ j \in Ids
      /\ \A n \in Titles : n \in Paths /\ n \notin Ids
  BY <1>t, RecordsMade
<1>0. PICK i, n : i = does[u].id /\ n = does[u].title
  OBVIOUS
<1>1. does[u].at = "renaming" /\ UNCHANGED <<info, listing, edited, told>>
  BY DEF UpdateRenames
<1>2. i \in DOMAIN info /\ n \in Titles /\ n # i /\ n \in Paths /\ i \in Paths
  BY <1>0, <1>1, <1>r, <1>t DEF FilesTyped, Equipped, Updates
<1>a. CASE does' = [does EXCEPT ![u] = Idle] /\ UNCHANGED <<disk, written, foreign>>
  <2>1. /\ does' \in [Users -> Doings] /\ \A v \in Users : Equipped(does'[v], DOMAIN info')
        /\ does'[u] = Idle /\ \A v \in Users \ {u} : does'[v] = does[v]
    BY <1>1, <1>a, <1>t, GoesTo, IdleIsEquipped
  <2>2. FilesTyped' /\ WritersFind'
    BY <2>1, <1>1, <1>a, <1>t DEF FilesTyped, WritersFind, Idle
  <2>3. ASSUME NEW j \in DOMAIN info \ foreign, j # i PROVE PassesBy(u, j)
    BY <2>1, <2>3, <1>0, <1>1, <1>a DEF PassesBy, Updates, Deletes, Idle
  <2>4. ASSUME i \notin foreign PROVE RecordTrue(i)'
    <3>1. i \in listing /\ Updating(i) \subseteq {u} /\ u \in Updating(i) /\ RecordTrue(i)
      BY <2>4, <1>0, <1>1, UpdaterAlone DEF Updates
    <3>2. disk'[i] # NoBytes => i \in edited' /\ disk'[i] = info'[i].sum
      BY <3>1, <1>1, <1>a DEF RecordTrue
    <3>3. i \notin edited' /\ ~BeingDropped(i) => disk'[info'[i].path] = info'[i].sum
      BY <3>1, <1>1, <1>a DEF RecordTrue
    <3> QED BY <3>1, <3>2, <3>3, <2>1, <2>4, <1>1, <1>2, OwnRecord DEF Idle
  <2> QED BY <2>2, <2>3, <2>4, <1>1, <1>a, PassedBy DEF FilesInv
<1>b. CASE /\ disk[i] # NoBytes /\ disk' = [disk EXCEPT ![n] = disk[i], ![i] = NoBytes]
           /\ written' = [written EXCEPT ![n] = u] /\ MovesTo(u, "naming")
           /\ foreign' = foreign \cup ({j \in DOMAIN info : info[j].path = n} \ {i})
  <2> DEFINE w == [does[u] EXCEPT !.at = "naming"]
  <2>1. does' = [does EXCEPT ![u] = w] /\ w \in Doings /\ w.at = "naming" /\ w.title = n /\ w.id = i
    BY <1>0, <1>b, <1>t, MovesOn DEF Updates
  <2> HIDE DEF w
  <2>2. Equipped(w, DOMAIN info')
    BY <2>1, <1>1, <1>2 DEF Equipped, Updates, Deletes
  <2>3. /\ does' \in [Users -> Doings] /\ \A v \in Users : Equipped(does'[v], DOMAIN info')
        /\ does'[u] = w /\ \A v \in Users \ {u} : does'[v] = does[v]
    BY <2>1, <2>2, <1>1, <1>t, GoesTo
  <2>4. /\ disk'[n] = disk[i] /\ disk'[i] = NoBytes /\ written'[n] = u
        /\ \A p \in Paths \ {n, i} : disk'[p] = disk[p]
        /\ \A p \in Paths \ {n} : written'[p] = written[p]
        /\ disk' \in [Paths -> Bytes \cup {NoBytes}]
    BY <1>b, <1>2, <1>t DEF FilesTyped
  <2>5. FilesTyped'
    BY <2>3, <2>4, <1>1, <1>b, <1>t DEF FilesTyped
  <2>6. WritersFind'
    <3>1. ASSUME NEW v \in Users, does'[v].at = "recording", written'[does'[v].title] = v
          PROVE  disk'[does'[v].title] = does'[v].bytes
      <4>1. v # u /\ does'[v] = does[v]
        BY <3>1, <2>1, <2>3
      <4>2. does[v].title \in Titles
        BY <4>1, <3>1, <2>5 DEF FilesTyped, Equipped
      <4>3. does[v].title \in Paths \ {n, i}
        BY <4>1, <4>2, <3>1, <2>4, <1>2, <1>r
      <4> QED BY <3>1, <4>1, <4>3, <2>4, <1>t DEF WritersFind
    <3>2. \A j \in Ids \ DOMAIN info : j # i /\ j # n /\ j \in Paths
      BY <1>2, <1>r DEF Paths
    <3> QED BY <3>1, <3>2, <2>4, <1>1, <1>t DEF WritersFind
  <2>7. ASSUME NEW j \in DOMAIN info \ foreign', j # i PROVE PassesBy(u, j)
    <3>1. j \in Paths \ {n, i} /\ info[j].path \in Paths \ {n, i}
      BY <2>7, <1>2, <1>b, <1>r
    <3>2. \A p \in Titles : p # n => p \in Paths \ {n, i}
      BY <1>2, <1>r
    <3>3. \A v \in Users \ {u} : \A p \in Titles : written'[p] = v => written[p] = v /\ disk'[p] = disk[p]
      BY <3>2, <2>4
    <3>4. does[u].id # j /\ ~(does'[u].id = j /\ does'[u].at \in Updates \cup Deletes)
      BY <2>1, <2>3, <2>7, <1>0
    <3> QED BY <3>1, <3>3, <3>4, <2>3, <2>4, <1>1 DEF PassesBy
  <2>8. ASSUME i \notin foreign PROVE RecordTrue(i)'
    <3>1. i \in listing /\ Updating(i) \subseteq {u} /\ u \in Updating(i) /\ RecordTrue(i)
      BY <2>8, <1>0, <1>1, UpdaterAlone DEF Updates
    <3>2. disk[i] = info[i].sum /\ i \in edited
      BY <3>1, <1>1, <1>b DEF RecordTrue
    <3>3. /\ does'[u].id = i /\ does'[u].at = "naming" /\ disk'[does'[u].title] = info'[i].sum
          /\ disk'[i] = NoBytes /\ i \in edited' /\ i \in listing'
      BY <3>1, <3>2, <2>1, <2>3, <2>4, <1>1
    <3> QED BY <3>1, <3>3, <2>3, <2>8, <1>1, <1>2, OwnRecord DEF Updates
  <2>9. ASSUME NEW j \in DOMAIN info' \ foreign' PROVE RecordTrue(j)'
    <3>1. j \in DOMAIN info \ foreign
      BY <2>9, <1>1, <1>b
    <3> QED BY <3>1, <2>7, <2>8, <2>9, PassedBy
  <2> QED BY <2>5, <2>6, <2>9 DEF FilesInv
<1> QED BY <1>a, <1>b, <1>0 DEF UpdateRenames, Ends, OthersAt

(* An update notes the new name in the record.                               *)
LEMMA UpdateNamesKeeps ==
  ASSUME FilesInv, NEW u \in Users, UpdateNames(u)
  PROVE  FilesInv'
<1>t. FilesTyped /\ WritersFind /\ \A j \in DOMAIN info \ foreign : RecordTrue(j)
  BY DEF FilesInv
<1>r. \A j \in DOMAIN info : j \in Paths /\ info[j].path \in Titles /\ j \in Ids /\ info[j] \in Files
  BY <1>t, RecordsMade
<1>0. PICK i, n : i = does[u].id /\ n = does[u].title
  OBVIOUS
<1>1. /\ does[u].at = "naming" /\ info' = [info EXCEPT ![i].path = n]
      /\ edited' = edited \ {i} /\ listing' = listing \cup {i}
      /\ foreign' = (IF written[n] = u THEN foreign ELSE foreign \cup {i})
      /\ does' = [does EXCEPT ![u] = Idle]
      /\ UNCHANGED <<disk, written, told>>
  BY <1>0 DEF UpdateNames, Keeps, Ends
<1>2. n \in Titles /\ i \in DOMAIN info
  BY <1>0, <1>1, <1>t DEF FilesTyped, Equipped, Updates
<1> DEFINE f == [info[i] EXCEPT !.path = n]
<1>3. f \in Files /\ f.sum = info[i].sum /\ f.path = n /\ info' = [info EXCEPT ![i] = f]
  BY <1>1, <1>2, <1>r DEF Files
<1> HIDE DEF f
<1>4. /\ info' \in Seq(Files) /\ DOMAIN info' = DOMAIN info /\ info'[i] = f
      /\ \A j \in DOMAIN info \ {i} : info'[j] = info[j]
  BY <1>2, <1>3, <1>t, RecordChanges
<1>6. /\ does' \in [Users -> Doings] /\ \A v \in Users : Equipped(does'[v], DOMAIN info')
      /\ does'[u] = Idle /\ \A v \in Users \ {u} : does'[v] = does[v]
  BY <1>1, <1>4, <1>t, GoesTo, IdleIsEquipped
<1>7. FilesTyped'
  BY <1>1, <1>2, <1>4, <1>6, <1>t DEF FilesTyped
<1>8. WritersFind'
  BY <1>1, <1>4, <1>6, <1>t DEF WritersFind, Idle
<1>9. ASSUME NEW j \in DOMAIN info \ foreign, j # i PROVE PassesBy(u, j)
  <2>1. (j \in listing' <=> j \in listing) /\ (j \in edited' <=> j \in edited) /\ info'[j] = info[j]
    BY <1>9, <1>1, <1>4
  <2>2. does[u].id # j /\ ~(does'[u].id = j /\ does'[u].at \in Updates \cup Deletes)
    BY <1>9, <1>0, <1>6 DEF Updates, Deletes, Idle
  <2> QED BY <2>1, <2>2, <1>1, <1>6 DEF PassesBy
<1>10. ASSUME i \notin foreign' PROVE RecordTrue(i)'
  <2>0. written[n] = u /\ i \notin foreign
    BY <1>10, <1>1
  <2>1. i \in listing /\ Updating(i) \subseteq {u} /\ u \in Updating(i) /\ RecordTrue(i)
    BY <2>0, <1>0, <1>1, UpdaterAlone DEF Updates
  <2>2. disk[n] = info[i].sum /\ disk[i] = NoBytes
    BY <2>0, <2>1, <1>0, <1>1 DEF RecordTrue
  <2>3. disk'[info'[i].path] = info'[i].sum /\ disk'[i] = NoBytes /\ i \in listing'
    BY <2>1, <2>2, <1>1, <1>3, <1>4
  <2> QED BY <2>0, <2>1, <2>3, <1>1, <1>2, <1>6, OwnRecord DEF Idle
<1>11. ASSUME NEW j \in DOMAIN info' \ foreign' PROVE RecordTrue(j)'
  <2>1. j \in DOMAIN info \ foreign
    BY <1>11, <1>1, <1>4
  <2> QED BY <2>1, <1>9, <1>10, <1>11, PassedBy
<1> QED BY <1>7, <1>8, <1>11 DEF FilesInv

(* A batch of deletions takes up its next record, or ends.                   *)
LEMMA BatchGoesOn ==
  ASSUME FilesTyped, NEW u \in Users, NEW permanent \in BOOLEAN, NEW rest \in SUBSET Nat,
         info' \in Seq(Files), listing' \subseteq DOMAIN info', DOMAIN info \subseteq DOMAIN info',
         does' = [does EXCEPT ![u] = Takes(u, permanent, rest)]
  PROVE  /\ does' \in [Users -> Doings] /\ \A v \in Users : Equipped(does'[v], DOMAIN info')
         /\ \A v \in Users \ {u} : does'[v] = does[v]
         /\ does'[u].at = "idle" \/ (does'[u].at = "checking" /\ does'[u].id \in listing')
<1> DEFINE w == Takes(u, permanent, rest)
<1>1. w \in Doings /\ (w.at = "idle" \/ (w.at = "checking" /\ w.id \in listing' /\ w.title \in Titles))
  BY TakesNext
<1>2. does' = [does EXCEPT ![u] = w]
  OBVIOUS
<1> HIDE DEF w
<1>3. Equipped(w, DOMAIN info')
  BY <1>1 DEF Equipped, Updates, Deletes
<1> QED BY <1>1, <1>2, <1>3, GoesTo

(* A deletion begins, at the first of its records.                           *)
LEMMA DeleteStartsKeeps ==
  ASSUME FilesInv, NEW u \in Users, NEW S \in SUBSET listing, NEW permanent \in BOOLEAN, DeleteStarts(u, S, permanent)
  PROVE  FilesInv'
<1>t. FilesTyped /\ WritersFind /\ \A j \in DOMAIN info \ foreign : RecordTrue(j)
  BY DEF FilesInv
<1>r. \A j \in DOMAIN info : j \in Nat
  BY <1>t, RecordsMade
<1>1. /\ does[u].at = "idle" /\ does' = [does EXCEPT ![u] = Takes(u, permanent, S)]
      /\ UNCHANGED <<disk, info, listing, written, foreign, edited, told>>
  BY DEF DeleteStarts, Begins
<1>2. /\ does' \in [Users -> Doings] /\ \A v \in Users : Equipped(does'[v], DOMAIN info')
      /\ \A v \in Users \ {u} : does'[v] = does[v]
      /\ does'[u].at = "idle" \/ (does'[u].at = "checking" /\ does'[u].id \in listing')
  <2>1. S \in SUBSET Nat /\ info' \in Seq(Files) /\ listing' \subseteq DOMAIN info' /\ DOMAIN info \subseteq DOMAIN info'
    BY <1>1, <1>r, <1>t DEF FilesTyped
  <2> QED BY <2>1, <1>1, <1>t, BatchGoesOn
<1>3. FilesTyped' /\ WritersFind'
  BY <1>1, <1>2, <1>t DEF FilesTyped, WritersFind
<1>4. \A j \in DOMAIN info \ foreign : PassesBy(u, j)
  BY <1>1, <1>2 DEF PassesBy, Updates, Deletes
<1> QED BY <1>1, <1>3, <1>4, PassedBy DEF FilesInv

(* A deletion looks for the file: what it finds, and keeps, is deleted.      *)
LEMMA DeleteChecksKeeps ==
  ASSUME FilesInv, NEW u \in Users, DeleteChecks(u)
  PROVE  FilesInv'
<1>t. FilesTyped /\ WritersFind /\ \A j \in DOMAIN info \ foreign : RecordTrue(j)
  BY DEF FilesInv
<1>r. \A j \in DOMAIN info : j \in Nat /\ info[j] \in Files
  BY <1>t, RecordsMade
<1>0. PICK i : i = does[u].id
  OBVIOUS
<1>1. /\ does[u].at = "checking" /\ UNCHANGED <<disk, written, foreign, edited, told>>
      /\ \/ info' = [info EXCEPT ![i].status = "DELETED"] /\ listing' = listing \cup {i}
         \/ UNCHANGED <<info, listing>>
      /\ MovesTo(u, "unlinking") \/ does' = [does EXCEPT ![u] = Takes(u, does[u].flag, does[u].rest)]
  BY <1>0 DEF DeleteChecks, Keeps, GoesOn
<1>2. i \in DOMAIN info /\ does[u].title \in Titles /\ does[u].flag \in BOOLEAN /\ does[u].rest \in SUBSET Nat
  BY <1>0, <1>1, <1>t DEF FilesTyped, Equipped, Deletes, Doings
<1>3. /\ info' \in Seq(Files) /\ DOMAIN info' = DOMAIN info
      /\ \A j \in DOMAIN info : info'[j].path = info[j].path /\ info'[j].sum = info[j].sum
  <2>1. CASE info' = [info EXCEPT ![i].status = "DELETED"]
    <3> DEFINE f == [info[i] EXCEPT !.status = "DELETED"]
    <3>1. f \in Files /\ f.sum = info[i].sum /\ f.path = info[i].path /\ info' = [info EXCEPT ![i] = f]
      BY <2>1, <1>2, <1>r DEF Files
    <3> HIDE DEF f
    <3>2. /\ info' \in Seq(Files) /\ DOMAIN info' = DOMAIN info /\ info'[i] = f
          /\ \A j \in DOMAIN info \ {i} : info'[j] = info[j]
      BY <3>1, <1>2, <1>t, RecordChanges
    <3> QED BY <3>1, <3>2
  <2>2. CASE info' = info
    BY <2>2, <1>t DEF FilesTyped
  <2> QED BY <2>1, <2>2, <1>1
<1>4. /\ does' \in [Users -> Doings] /\ \A v \in Users : Equipped(does'[v], DOMAIN info')
      /\ \A v \in Users \ {u} : does'[v] = does[v]
      /\ \/ does'[u].at \in {"idle", "unlinking"}
         \/ does'[u].at = "checking" /\ does'[u].id \in listing'
  <2>1. CASE MovesTo(u, "unlinking")
    <3> DEFINE w == [does[u] EXCEPT !.at = "unlinking"]
    <3>1. does' = [does EXCEPT ![u] = w] /\ w \in Doings /\ w.at = "unlinking" /\ w.title = does[u].title /\ w.id = i
      BY <2>1, <1>0, <1>t, MovesOn DEF Deletes
    <3> HIDE DEF w
    <3>2. Equipped(w, DOMAIN info')
      BY <3>1, <1>2, <1>3 DEF Equipped, Updates, Deletes
    <3>3. DOMAIN info \subseteq DOMAIN info'
      BY <1>3
    <3> QED BY <3>1, <3>2, <3>3, <1>t, GoesTo
  <2>2. CASE does' = [does EXCEPT ![u] = Takes(u, does[u].flag, does[u].rest)]
    <3>1. info' \in Seq(Files) /\ listing' \subseteq DOMAIN info' /\ DOMAIN info \subseteq DOMAIN info'
      BY <1>1, <1>2, <1>3, <1>t DEF FilesTyped
    <3> QED BY <2>2, <3>1, <1>2, <1>t, BatchGoesOn
  <2> QED BY <2>1, <2>2, <1>1
<1>5. FilesTyped'
  BY <1>1, <1>2, <1>3, <1>4, <1>t DEF FilesTyped
<1>6. WritersFind'
  BY <1>1, <1>3, <1>4, <1>t DEF WritersFind
<1>7. i \notin foreign => i \in listing
  <2>1. u \in AtIt(i)
    BY <1>0, <1>1 DEF AtIt
  <2> QED BY <2>1, <1>2, <1>t DEF RecordTrue
<1>8. ASSUME NEW j \in DOMAIN info \ foreign PROVE PassesBy(u, j)
  <2>1. j \in listing' <=> j \in listing
    BY <1>1, <1>7, <1>8
  <2> QED BY <2>1, <1>1, <1>3, <1>4 DEF PassesBy, Updates, Deletes
<1> QED BY <1>1, <1>3, <1>5, <1>6, <1>8, PassedBy DEF FilesInv

(* A deletion unlinks the file.                                              *)
LEMMA UnlinksKeeps ==
  ASSUME FilesInv, NEW u \in Users, Unlinks(u)
  PROVE  FilesInv'
<1>t. FilesTyped /\ WritersFind /\ \A j \in DOMAIN info \ foreign : RecordTrue(j)
  BY DEF FilesInv
<1>r. /\ \A j \in DOMAIN info : j \in Paths /\ info[j].path \in Titles /\ j \in Ids
      /\ \A n \in Titles : n \in Paths /\ n \notin Ids
  BY <1>t, RecordsMade
<1>0. PICK i, n : i = does[u].id /\ n = does[u].title
  OBVIOUS
<1>1. does[u].at = "unlinking" /\ UNCHANGED <<info, listing, edited, told>>
  BY DEF Unlinks
<1>2. i \in DOMAIN info /\ n \in Titles /\ n \in Paths /\ does[u].flag \in BOOLEAN /\ does[u].rest \in SUBSET Nat
  BY <1>0, <1>1, <1>r, <1>t DEF FilesTyped, Equipped, Deletes, Doings
<1>a. CASE does' = [does EXCEPT ![u] = Takes(u, does[u].flag, does[u].rest)] /\ UNCHANGED <<disk, written, foreign>>
  <2>1. /\ does' \in [Users -> Doings] /\ \A v \in Users : Equipped(does'[v], DOMAIN info')
        /\ \A v \in Users \ {u} : does'[v] = does[v]
        /\ does'[u].at = "idle" \/ (does'[u].at = "checking" /\ does'[u].id \in listing')
    <3>1. info' \in Seq(Files) /\ listing' \subseteq DOMAIN info' /\ DOMAIN info \subseteq DOMAIN info'
      BY <1>1, <1>t DEF FilesTyped
    <3> QED BY <3>1, <1>2, <1>a, <1>t, BatchGoesOn
  <2>2. FilesTyped' /\ WritersFind'
    BY <2>1, <1>1, <1>a, <1>t DEF FilesTyped, WritersFind
  <2>3. \A j \in DOMAIN info \ foreign : PassesBy(u, j)
    BY <2>1, <1>1, <1>a DEF PassesBy, Updates, Deletes
  <2> QED BY <2>2, <2>3, <1>1, <1>a, PassedBy DEF FilesInv
<1>b. CASE /\ disk' = [disk EXCEPT ![n] = NoBytes] /\ written' = [written EXCEPT ![n] = u]
           /\ foreign' = foreign \cup ({j \in DOMAIN info : info[j].path = n} \ {i})
           /\ MovesTo(u, "dropping")
  <2> DEFINE w == [does[u] EXCEPT !.at = "dropping"]
  <2>1. does' = [does EXCEPT ![u] = w] /\ w \in Doings /\ w.at = "dropping" /\ w.title = n /\ w.id = i
    BY <1>0, <1>b, <1>t, MovesOn DEF Deletes
  <2> HIDE DEF w
  <2>2. Equipped(w, DOMAIN info')
    BY <2>1, <1>1, <1>2 DEF Equipped, Updates, Deletes
  <2>3. /\ does' \in [Users -> Doings] /\ \A v \in Users : Equipped(does'[v], DOMAIN info')
        /\ does'[u] = w /\ \A v \in Users \ {u} : does'[v] = does[v]
    BY <2>1, <2>2, <1>1, <1>t, GoesTo
  <2>4. /\ written'[n] = u /\ disk' \in [Paths -> Bytes \cup {NoBytes}]
        /\ \A p \in Paths \ {n} : disk'[p] = disk[p] /\ written'[p] = written[p]
    BY <1>b, <1>2, <1>t DEF FilesTyped
  <2>5. FilesTyped'
    BY <2>3, <2>4, <1>1, <1>b, <1>t DEF FilesTyped
  <2>6. WritersFind'
    <3>1. ASSUME NEW v \in Users, does'[v].at = "recording", written'[does'[v].title] = v
          PROVE  disk'[does'[v].title] = does'[v].bytes
      <4>1. v # u /\ does'[v] = does[v]
        BY <3>1, <2>1, <2>3
      <4>2. does[v].title \in Titles
        BY <4>1, <3>1, <2>5 DEF FilesTyped, Equipped
      <4>3. does[v].title \in Paths \ {n}
        BY <4>1, <4>2, <3>1, <2>4, <1>r
      <4> QED BY <3>1, <4>1, <4>3, <2>4, <1>t DEF WritersFind
    <3>2. \A j \in Ids \ DOMAIN info : j # n /\ j \in Paths
      BY <1>2, <1>r DEF Paths
    <3> QED BY <3>1, <3>2, <2>4, <1>1, <1>t DEF WritersFind
  <2>7. \A v \in Users \ {u} : \A p \in Titles : written'[p] = v => written[p] = v /\ disk'[p] = disk[p] /\ p # n
    BY <2>4, <1>r
  <2>8. ASSUME NEW j \in DOMAIN info \ foreign', j # i PROVE PassesBy(u, j)
    <3>1. j \in Paths \ {n} /\ info[j].path \in Paths \ {n}
      BY <2>8, <1>2, <1>b, <1>r
    <3>2. does[u].id # j /\ ~(does'[u].id = j /\ does'[u].at \in Updates \cup Deletes)
      BY <2>1, <2>3, <2>8, <1>0
    <3> QED BY <2>3, <2>4, <2>7, <3>1, <3>2, <1>1 DEF PassesBy
  <2>9. ASSUME i \notin foreign PROVE RecordTrue(i)'
    <3>1. RecordTrue(i) /\ i \in Paths \ {n}
      BY <2>9, <1>2, <1>r, <1>t
    <3>2. BeingDropped(i)'
      BY <2>1, <2>3 DEF BeingDropped
    <3>3. \A v \in Users : v \in Updating(i)' <=> v \in Updating(i)
      BY <2>1, <2>3, <1>1 DEF Updating
    <3>4. Updating(i)' = Updating(i)
      BY <3>3 DEF Updating
    <3>5. \A v \in Users : v \in AtIt(i)' <=> v \in AtIt(i)
      BY <2>1, <2>3, <3>4, <1>1 DEF AtIt
    <3>6. AtIt(i)' = AtIt(i)
      BY <3>5, <3>4 DEF AtIt, Updating
    <3>7. \A v \in Updating(i) : v \in Users \ {u} /\ does'[v] = does[v] /\ does[v].at \in Updates
      BY <2>3, <1>1 DEF Updating, Updates
    <3>8. \A v \in Updating(i) : does[v].at = "naming" => does[v].title \in Titles
      BY <3>7, <1>t DEF FilesTyped, Equipped
    <3>9. \A v \in Updating(i) : does[v].at = "naming" /\ written'[does[v].title] = v
            => written[does[v].title] = v /\ disk'[does[v].title] = disk[does[v].title]
      BY <2>7, <3>7, <3>8
    <3>10. disk'[i] = disk[i]
      BY <2>4, <3>1
    <3>11. \A v \in Updating(i)' : /\ does'[v].at = "noting" => disk'[i] = does'[v].bytes
                                   /\ does'[v].at = "naming" => disk'[i] = NoBytes
                                   /\ does'[v].at = "naming" /\ written'[does'[v].title] = v
                                      => disk'[does'[v].title] = info'[i].sum
      BY <3>1, <3>4, <3>7, <3>9, <3>10, <1>1 DEF RecordTrue
    <3> QED BY <3>1, <3>2, <3>4, <3>6, <3>7, <3>10, <3>11, <1>1 DEF RecordTrue
  <2>10. ASSUME NEW j \in DOMAIN info' \ foreign' PROVE RecordTrue(j)'
    <3>1. j \in DOMAIN info \ foreign
      BY <2>10, <1>1, <1>b
    <3> QED BY <3>1, <2>8, <2>9, <2>10, PassedBy
  <2> QED BY <2>5, <2>6, <2>10 DEF FilesInv
<1> QED BY <1>a, <1>b, <1>0 DEF Unlinks, GoesOn, OthersAt

(* A deletion drops the record.                                              *)
LEMMA DropsKeeps ==
  ASSUME FilesInv, NEW u \in Users, Drops(u)
  PROVE  FilesInv'
<1>t. FilesTyped /\ WritersFind /\ \A j \in DOMAIN info \ foreign : RecordTrue(j)
  BY DEF FilesInv
<1>0. PICK i : i = does[u].id
  OBVIOUS
<1>1. /\ does[u].at = "dropping"
      /\ listing' = listing \ {i} /\ told \subseteq told' /\ told' \subseteq told \cup {i}
      /\ foreign' = (IF AtIt(i) # {} THEN foreign \cup {i} ELSE foreign)
      /\ does' = [does EXCEPT ![u] = Takes(u, does[u].flag, does[u].rest)]
      /\ UNCHANGED <<disk, info, written, edited>>
  BY <1>0 DEF Drops, LeavesTable, GoesOn
<1>2. i \in DOMAIN info /\ does[u].flag \in BOOLEAN /\ does[u].rest \in SUBSET Nat
  BY <1>0, <1>1, <1>t DEF FilesTyped, Equipped, Deletes, Doings
<1>3. /\ does' \in [Users -> Doings] /\ \A v \in Users : Equipped(does'[v], DOMAIN info')
      /\ \A v \in Users \ {u} : does'[v] = does[v]
      /\ does'[u].at = "idle" \/ (does'[u].at = "checking" /\ does'[u].id \in listing')
  <2>1. info' \in Seq(Files) /\ listing' \subseteq DOMAIN info' /\ DOMAIN info \subseteq DOMAIN info'
    BY <1>1, <1>t DEF FilesTyped
  <2> QED BY <2>1, <1>1, <1>2, <1>t, BatchGoesOn
<1>4. FilesTyped'
  BY <1>1, <1>2, <1>3, <1>t DEF FilesTyped
<1>5. WritersFind'
  BY <1>1, <1>3, <1>t DEF WritersFind
<1>6. ASSUME NEW j \in DOMAIN info \ foreign, j # i PROVE PassesBy(u, j)
  <2>1. (j \in told' <=> j \in told) /\ (j \in listing' <=> j \in listing) /\ does[u].id # j
    BY <1>6, <1>0, <1>1
  <2>2. does'[u].id = j /\ does'[u].at \in Updates \cup (Deletes \ {"unlinking"}) => does'[u].at = "checking" /\ j \in listing'
    BY <1>3 DEF Updates, Deletes
  <2> QED BY <2>1, <2>2, <1>1, <1>3 DEF PassesBy
<1>7. ASSUME i \notin foreign' PROVE RecordTrue(i)'
  <2>1. AtIt(i) = {} /\ Updating(i) = {} /\ RecordTrue(i)
    BY <1>7, <1>1, <1>2, <1>t DEF AtIt
  <2>2. i \notin listing'
    BY <1>1
  <2>3. \A v \in Users : ~(does'[v].id = i /\ does'[v].at \in {"writing", "noting", "renaming", "naming", "checking"})
    <3>1. \A v \in Users \ {u} : v \notin AtIt(i) /\ does'[v] = does[v]
      BY <2>1, <1>3
    <3> QED BY <2>2, <3>1, <1>3 DEF AtIt, Updating
  <2>4. AtIt(i)' = {} /\ Updating(i)' = {}
    BY <2>3 DEF AtIt, Updating
  <2>5. disk'[i] # NoBytes => i \in edited' /\ disk'[i] = info'[i].sum
    BY <2>1, <1>1 DEF RecordTrue
  <2> QED BY <2>2, <2>4, <2>5 DEF RecordTrue
<1>8. ASSUME NEW j \in DOMAIN info' \ foreign' PROVE RecordTrue(j)'
  <2>1. j \in DOMAIN info \ foreign
    BY <1>8, <1>1
  <2> QED BY <2>1, <1>6, <1>7, <1>8, PassedBy
<1> QED BY <1>4, <1>5, <1>8 DEF FilesInv

(* Every step of the local files keeps their invariant.                      *)
LEMMA FilesInvStep == FilesInv /\ [FilesNext]_flvars => FilesInv'
<1> SUFFICES ASSUME FilesInv, [FilesNext]_flvars PROVE FilesInv'
  OBVIOUS
<1>1. CASE UNCHANGED flvars
  <2>1. UNCHANGED <<disk, info, listing, does, written, foreign, edited, told>>
    BY <1>1 DEF flvars
  <2>2. \A j : Updating(j)' = Updating(j) /\ AtIt(j)' = AtIt(j) /\ (BeingDropped(j)' <=> BeingDropped(j))
    BY <2>1 DEF AtIt, Updating, BeingDropped
  <2>3. \A j : RecordTrue(j) => RecordTrue(j)'
    BY <2>1, <2>2 DEF RecordTrue
  <2> QED BY <2>1, <2>3 DEF FilesInv, FilesTyped, WritersFind
<1>2. CASE FilesNext
  <2>1. PICK u \in Users :
          \/ \E n \in Titles, b \in Bytes, replace \in BOOLEAN : UploadChecks(u, n, b, replace)
          \/ \E i \in listing, b \in Bytes \cup {NoBytes}, n \in Titles \cup {NoTitle} : UpdateStarts(u, i, b, n)
          \/ \E S \in SUBSET listing, permanent \in BOOLEAN : DeleteStarts(u, S, permanent)
          \/ UploadWrites(u) \/ UploadRecords(u)
          \/ UpdateWrites(u) \/ UpdateNotes(u) \/ UpdateRenames(u) \/ UpdateNames(u)
          \/ DeleteChecks(u) \/ Unlinks(u) \/ Drops(u)
    BY <1>2 DEF FilesNext
  <2>2. CASE \E n \in Titles, b \in Bytes, replace \in BOOLEAN : UploadChecks(u, n, b, replace)
    BY <2>2, UploadChecksKeeps
  <2>3. CASE \E i \in listing, b \in Bytes \cup {NoBytes}, n \in Titles \cup {NoTitle} : UpdateStarts(u, i, b, n)
    BY <2>3, UpdateStartsKeeps
  <2>4. CASE \E S \in SUBSET listing, permanent \in BOOLEAN : DeleteStarts(u, S, permanent)
    BY <2>4, DeleteStartsKeeps
  <2>5. CASE UploadWrites(u) \/ UploadRecords(u)
    BY <2>5, UploadWritesKeeps, UploadRecordsKeeps
  <2>6. CASE UpdateWrites(u) \/ UpdateNotes(u) \/ UpdateRenames(u) \/ UpdateNames(u)
    BY <2>6, UpdateWritesKeeps, UpdateNotesKeeps, UpdateRenamesKeeps, UpdateNamesKeeps
  <2>7. CASE DeleteChecks(u) \/ Unlinks(u) \/ Drops(u)
    BY <2>7, DeleteChecksKeeps, UnlinksKeeps, DropsKeeps
  <2> QED BY <2>1, <2>2, <2>3, <2>4, <2>5, <2>6, <2>7
<1> QED BY <1>1, <1>2

(* A filesystem without records satisfies it.                                *)
LEMMA FilesInvInit == FilesInit => FilesInv
<1> SUFFICES ASSUME FilesInit PROVE FilesInv
  OBVIOUS
<1>1. info \in Seq(Files) /\ DOMAIN info = {}
  BY EmptySeq DEF FilesInit
<1>2. does \in [Users -> Doings] /\ \A u \in Users : Equipped(does[u], DOMAIN info)
  BY IdleIsEquipped DEF FilesInit
<1>3. FilesTyped
  BY <1>1, <1>2 DEF FilesInit, FilesTyped
<1>4. WritersFind
  BY DEF FilesInit, WritersFind, Idle, Paths
<1> QED BY <1>1, <1>3, <1>4 DEF FilesInv

(* A record that is listed is what it says and a deletion is for good, for   *)
(* any coroutines, names, contents and batches, with the exceptions the      *)
(* property names.                                                           *)
THEOREM FilesAreTrue == FilesSpec => []ServedAsRecorded
<1>1. FilesInv => ServedAsRecorded
  <2> SUFFICES ASSUME FilesInv, NEW i \in listing, i \notin foreign
               PROVE  /\ i \notin edited /\ ~BeingDropped(i) => disk[info[i].path] = info[i].sum
                      /\ i \notin told
    BY DEF ServedAsRecorded, Served, Content
  <2>1. RecordTrue(i)
    BY DEF FilesInv, FilesTyped
  <2> QED BY <2>1 DEF RecordTrue
<1> QED BY <1>1, FilesInvInit, FilesInvStep, PTL DEF FilesSpec

-----------------------------------------------------------------------------
(* FileHistory, and the storage it is kept in, on their own.                 *)

HistorySpec == HistoryInit /\ [][HistoryNext]_fhvars

(* What the service can hold, and an operation bring.                        *)
Histories == Seq(HistoryFiles)
Holdings == Histories \cup Misfits \cup {Absent}
Payload == Histories \cup {Absent}
OpRecords ==
  [kind : Kinds, rec : Records \cup {NoOp.rec}, val : Payload,
   pc : {"idle", "waiting", "inside", "writing", "done"}, lk : Nat, seen : Payload,
   out : {Ok, Nothing, Raised, Denied}]
LateWrites == [kind : {"store", "update", "remove"}, rec : Records, val : Payload]
StorageTyped ==
  /\ stored \in [Records -> Holdings] /\ locks \in [Strategies -> [Records -> Nat]] /\ made \in Nat
  /\ op \in [Clients -> OpRecords] /\ late \subseteq LateWrites

(* An operation o of strategy s, where the locks, the store and what was     *)
(* disturbed are these: it queued on the record's lock, and what an upsert   *)
(* has read is there still, unless the pair is disturbed.                    *)
Validates(x) == x \notin Misfits \cup {Absent}
OpStands(o, s, lks, st, dist) ==
  /\ o.pc # "idle" => o.rec \in Records
  /\ o.pc # "done" => o.out = Ok
  /\ o.kind = "read" /\ o.pc = "done" /\ o.out = Ok => o.seen # Absent
  /\ o.kind \in Locking /\ o.pc \in {"waiting", "inside", "writing"} =>
       o.lk # 0 /\ (o.lk = lks[s][o.rec] \/ <<s, o.rec>> \in dist)
  /\ o.pc = "writing" =>
       /\ o.kind = "upsert"
       /\ \/ <<s, o.rec>> \in dist
          \/ o.seen = Absent /\ ~Validates(st[o.rec])
          \/ o.seen # Absent /\ st[o.rec] = o.seen

(* One of those that hold the same lock is at the record.                    *)
Engaged(o) == o.kind \in Locking /\ o.pc \in {"inside", "writing"}
SameLock(c, d) ==
  StrategyOf[c] = StrategyOf[d] /\ op[c].rec = op[d].rec /\ op[c].lk = op[d].lk
OneHolds == \A c, d \in Clients : Engaged(op[c]) /\ Engaged(op[d]) /\ SameLock(c, d) => c = d

StorageInv ==
  /\ StorageTyped /\ OneHolds
  /\ \A c \in Clients : OpStands(op[c], StrategyOf[c], locks, stored, disturbed)

-----------------------------------------------------------------------------
(* What a remote call leaves and answers: a read nothing but what is there.  *)
LEMMA CallReads ==
  ASSUME StorageTyped, NEW r \in Records, NEW v \in Payload,
         NEW kind \in {"read", "list"}, NEW res, res = Rpc(kind, r, v)
  PROVE  /\ res.after = stored /\ res.out \in {Ok, Nothing} /\ res.seen \in Payload
         /\ kind = "read" => \/ res.out = Ok /\ Validates(stored[r]) /\ res.seen = stored[r]
                             \/ res.out = Nothing /\ ~Validates(stored[r]) /\ res.seen = Absent
<1>1. Readable(r) <=> Validates(stored[r])
  BY DEF Readable, Validates
<1>2. stored[r] \in Holdings /\ Absent \in Payload
  BY DEF StorageTyped, Payload
<1>3. Validates(stored[r]) => stored[r] \in Payload
  BY <1>2 DEF Validates, Holdings, Payload
<1>4. CASE kind = "read"
  <2>1. res = ReadRecord(r)
    BY <1>4 DEF Rpc
  <2>2. CASE Validates(stored[r])
    <3>1. res = Outcome(stored, Ok, stored[r])
      BY <1>1, <2>1, <2>2 DEF ReadRecord
    <3> QED BY <1>3, <2>2, <3>1 DEF Outcome
  <2>3. CASE ~Validates(stored[r])
    <3>1. res = Outcome(stored, Nothing, Absent)
      BY <1>1, <2>1, <2>3 DEF ReadRecord
    <3> QED BY <1>2, <2>3, <3>1 DEF Outcome
  <2> QED BY <2>2, <2>3
<1>5. CASE kind = "list"
  <2>1. res = ListRecords(r)
    BY <1>5 DEF Rpc
  <2>2. PICK out \in {Ok, Nothing} : res = Outcome(stored, out, Absent)
    BY <2>1 DEF ListRecords
  <2> QED BY <1>2, <1>5, <2>2 DEF Outcome
<1> QED BY <1>4, <1>5

(* A write of a record that is there, or is not, as the method asks.         *)
LEMMA CallWrites ==
  ASSUME StorageTyped, NEW r \in Records, NEW v \in Payload,
         NEW kind \in {"store", "update"}, NEW res, res = Rpc(kind, r, v)
  PROVE  /\ res.after \in [Records -> Holdings] /\ res.seen \in Payload
         /\ \A q \in Records : q # r => res.after[q] = stored[q]
         /\ \/ res.out = Ok /\ res.after[r] = v
            \/ res.out = Raised /\ res.after = stored /\ kind = "store" /\ stored[r] # Absent
            \/ res.out = Nothing /\ res.after = stored /\ kind = "update" /\ stored[r] = Absent
<1>1. stored \in [Records -> Holdings] /\ Absent \in Payload
  BY DEF StorageTyped, Payload
<1>2. v \in Holdings
  BY DEF Payload, Holdings
<1>3. Put(r, v) \in [Records -> Holdings] /\ Put(r, v)[r] = v
      /\ \A q \in Records : q # r => Put(r, v)[q] = stored[q]
  BY <1>1, <1>2 DEF Put
<1>4. CASE kind = "store"
  <2>1. res = StoreRecord(r, v)
    BY <1>4 DEF Rpc
  <2>2. CASE stored[r] = Absent
    <3>1. res = Outcome(Put(r, v), Ok, v)
      BY <2>1, <2>2 DEF StoreRecord
    <3> QED BY <1>3, <3>1 DEF Outcome
  <2>3. CASE stored[r] # Absent
    <3>1. res = Outcome(stored, Raised, Absent)
      BY <2>1, <2>3 DEF StoreRecord
    <3> QED BY <1>1, <1>4, <2>3, <3>1 DEF Outcome
  <2> QED BY <2>2, <2>3
<1>5. CASE kind = "update"
  <2>1. res = UpdateRecord(r, v)
    BY <1>5 DEF Rpc
  <2>2. CASE stored[r] = Absent
    <3>1. res = Outcome(stored, Nothing, Absent)
      BY <2>1, <2>2 DEF UpdateRecord
    <3> QED BY <1>1, <1>5, <2>2, <3>1 DEF Outcome
  <2>3. CASE stored[r] # Absent
    <3>1. res = Outcome(Put(r, v), Ok, v)
      BY <2>1, <2>3 DEF UpdateRecord
    <3> QED BY <1>3, <3>1 DEF Outcome
  <2> QED BY <2>2, <2>3
<1> QED BY <1>4, <1>5

(* A removal, of a record or of its collection.                              *)
LEMMA CallRemoves ==
  ASSUME StorageTyped, NEW r \in Records, NEW v \in Payload,
         NEW kind \in {"remove", "wipe"}, NEW res, res = Rpc(kind, r, v)
  PROVE  /\ res.after \in [Records -> Holdings] /\ res.seen = Absent /\ res.out \in {Ok, Nothing}
         /\ kind = "wipe" => res.out = Ok
         /\ \A q \in Records : res.after[q] # stored[q] =>
              q = r \/ (kind = "wipe" /\ q \in SameCollection(r))
<1>1. stored \in [Records -> Holdings] /\ Absent \in Holdings
  BY DEF StorageTyped, Holdings
<1>2. CASE kind = "remove"
  <2>1. res = RemoveRecord(r)
    BY <1>2 DEF Rpc
  <2>2. CASE stored[r] = Absent
    <3>1. res = Outcome(stored, Nothing, Absent)
      BY <2>1, <2>2 DEF RemoveRecord
    <3> QED BY <1>1, <1>2, <3>1 DEF Outcome
  <2>3. CASE stored[r] # Absent
    <3>1. res = Outcome(Put(r, Absent), Ok, Absent)
      BY <2>1, <2>3 DEF RemoveRecord
    <3>2. Put(r, Absent) \in [Records -> Holdings]
          /\ \A q \in Records : q # r => Put(r, Absent)[q] = stored[q]
      BY <1>1 DEF Put
    <3> QED BY <1>2, <3>1, <3>2 DEF Outcome
  <2> QED BY <2>2, <2>3
<1>3. CASE kind = "wipe"
  <2>1. res = RemoveCollection(r)
    BY <1>3 DEF Rpc
  <2>2. PICK a : a = [q \in Records |-> IF q \in SameCollection(r) THEN Absent ELSE stored[q]]
    OBVIOUS
  <2>3. res = Outcome(a, Ok, Absent)
    BY <2>1, <2>2 DEF RemoveCollection
  <2>4. a \in [Records -> Holdings] /\ \A q \in Records : a[q] # stored[q] => q \in SameCollection(r)
    BY <1>1, <2>2
  <2> QED BY <1>3, <2>3, <2>4 DEF Outcome
<1> QED BY <1>2, <1>3

Remote == {"store", "read", "update", "remove", "list", "wipe"}

(* The three of them: a call changes its record only, or its collection.     *)
LEMMA CallEffect ==
  ASSUME StorageTyped, NEW r \in Records, NEW v \in Payload, NEW kind \in Remote,
         NEW res, res = Rpc(kind, r, v)
  PROVE  /\ res.after \in [Records -> Holdings] /\ res.out \in {Ok, Nothing, Raised}
         /\ res.seen \in Payload
         /\ kind = "wipe" => res.out = Ok
         /\ kind \in {"read", "list"} => res.after = stored
         /\ \A q \in Records : res.after[q] # stored[q] =>
              q = r \/ (kind = "wipe" /\ q \in SameCollection(r))
<1>0. Absent \in Payload /\ stored \in [Records -> Holdings]
  BY DEF Payload, StorageTyped
<1>1. CASE kind \in {"read", "list"}
  BY <1>0, <1>1, CallReads
<1>2. CASE kind \in {"store", "update"}
  BY <1>2, CallWrites
<1>3. CASE kind \in {"remove", "wipe"}
  BY <1>0, <1>3, CallRemoves
<1> QED BY <1>1, <1>2, <1>3 DEF Remote

(* What an operation at its record calls.                                    *)
LEMMA CallsRemote ==
  ASSUME StorageInv, NEW c \in Clients, Busy(c)
  PROVE  /\ RpcOf(c) \in Remote /\ op[c].rec \in Records /\ op[c].val \in Payload
         /\ op[c].kind # "upsert" => RpcOf(c) = op[c].kind
         /\ op[c].kind = "upsert" =>
              \/ op[c].pc = "inside" /\ RpcOf(c) = "read"
              \/ op[c].pc = "writing" /\ op[c].seen = Absent /\ RpcOf(c) = "store"
              \/ op[c].pc = "writing" /\ op[c].seen # Absent /\ RpcOf(c) = "update"
<1>1. op[c] \in OpRecords /\ op[c].pc \in {"inside", "writing"}
  BY DEF StorageInv, StorageTyped, Busy
<1>2. op[c].kind \in Kinds /\ op[c].val \in Payload
  BY <1>1 DEF OpRecords
<1>3. op[c].rec \in Records
  BY <1>1 DEF StorageInv, OpStands
<1>4. CASE op[c].kind # "upsert"
  BY <1>2, <1>3, <1>4 DEF RpcOf, Kinds, Locking, Remote
<1>5. CASE op[c].kind = "upsert"
  BY <1>1, <1>2, <1>3, <1>5 DEF RpcOf, UpsertStep, Remote
<1> QED BY <1>4, <1>5

(* The clients of a handler, and the operation each is in.                   *)
Owners == Writers \cup Runners
Places == {"idle", "loading", "locking", "flushing", "ended", "stopping", "stop_locking",
           "stop_flushing"}
HistoryTyped ==
  /\ cache \in [Handlers -> Payload] /\ dirty \in [Handlers -> Nat] /\ fpc \in [Owners -> Places]
  /\ appended \in [Handlers -> SUBSET HistoryFiles] /\ flusher \in [Handlers -> Owners \cup {Nobody}]
  /\ DOMAIN excused = Handlers
  /\ \A h \in Handlers : cache[h] = Absent => appended[h] = {} /\ dirty[h] = 0

AtFlush(c) == fpc[c] \in {"flushing", "stop_flushing"}
OwnerAt(c) ==
  LET h == HandlerOf[c] IN
  /\ fpc[c] = "loading" => op[c].pc # "idle" /\ op[c].kind = "read" /\ op[c].rec = HistoryOf[h]
  /\ AtFlush(c) => /\ op[c].pc # "idle" /\ op[c].kind \in {"update", "upsert"}
                   /\ op[c].rec = HistoryOf[h] /\ op[c].val \in Histories \ Misfits
                   /\ flusher[h] = c
  /\ fpc[c] # "loading" /\ ~AtFlush(c) => op[c].pc = "idle"

(* Who holds the flush lock is at the flush.                                 *)
FlusherAt(h) ==
  flusher[h] # Nobody => HandlerOf[flusher[h]] = h /\ AtFlush(flusher[h]) /\ dirty[h] > 0

(* s is a beginning of t. *)
Leads(s, t) == Len(s) <= Len(t) /\ \A i \in 1..Len(s) : s[i] = t[i]

(* What is held of a handler's history where nothing excuses a loss.         *)
Written(h) == stored[HistoryOf[h]]
CacheAhead(h) ==
  /\ appended[h] \subseteq ToSet(cache[h])
  /\ Validates(Written(h)) => Leads(Written(h), cache[h])
  /\ dirty[h] = 0 => Written(h) = cache[h] /\ cache[h] \notin Misfits
FlushUnderWay(h) ==
  LET o == op[flusher[h]] IN
  /\ Leads(o.val, cache[h])
  /\ Validates(Written(h)) => Leads(Written(h), o.val)
  /\ o.pc = "done" /\ o.out = Ok => Written(h) = o.val
HistoryStands(h) ==
  /\ cache[h] # Absent => CacheAhead(h)
  /\ cache[h] = Absent =>
       \A w \in Owners : HandlerOf[w] = h /\ fpc[w] = "loading" /\ op[w].pc = "done" /\ op[w].out = Ok
         => Written(h) = op[w].seen
  /\ flusher[h] # Nobody => FlushUnderWay(h)

HistoryInv ==
  /\ StorageInv /\ HistoryTyped /\ \A c \in Owners : OwnerAt(c)
  /\ \A h \in Handlers : FlusherAt(h) /\ (excused[h] = {} => HistoryStands(h))

-----------------------------------------------------------------------------
(* An operation stands while its lock and what it read do, or the pair is    *)
(* disturbed.                                                                *)
LEMMA OpKept ==
  ASSUME NEW o, NEW s, NEW lks, NEW st, NEW dist, OpStands(o, s, lks, st, dist),
         NEW lks2, NEW st2, NEW dist2, dist \subseteq dist2,
         o.pc # "idle" => \/ lks[s][o.rec] = 0 \/ lks2[s][o.rec] = lks[s][o.rec]
                          \/ <<s, o.rec>> \in dist2,
         o.pc = "writing" => st2[o.rec] = st[o.rec] \/ <<s, o.rec>> \in dist2
  PROVE  OpStands(o, s, lks2, st2, dist2)
<1>1. o.kind \in Locking /\ o.pc \in {"waiting", "inside", "writing"} =>
        o.lk # 0 /\ (o.lk = lks2[s][o.rec] \/ <<s, o.rec>> \in dist2)
  <2>1. SUFFICES ASSUME o.kind \in Locking, o.pc \in {"waiting", "inside", "writing"}
                 PROVE  o.lk # 0 /\ (o.lk = lks2[s][o.rec] \/ <<s, o.rec>> \in dist2)
    OBVIOUS
  <2>2. o.lk # 0 /\ (o.lk = lks[s][o.rec] \/ <<s, o.rec>> \in dist)
    BY <2>1 DEF OpStands
  <2>3. o.pc # "idle"
    BY <2>1
  <2> QED BY <2>2, <2>3
<1>2. o.pc = "writing" =>
        \/ <<s, o.rec>> \in dist2
        \/ o.seen = Absent /\ ~Validates(st2[o.rec])
        \/ o.seen # Absent /\ st2[o.rec] = o.seen
  BY DEF OpStands
<1> QED BY <1>1, <1>2 DEF OpStands

(* The operation of one client becomes N: of the others, those whose record  *)
(* is changed under them are disturbed, for it has their lock.               *)
LEMMA StorageSteps ==
  ASSUME StorageAssumption, StorageInv, NEW c \in Clients, NEW N \in OpRecords,
         op' = [op EXCEPT ![c] = N], stored' \in [Records -> Holdings], made' \in Nat,
         locks' \in [Strategies -> [Records -> Nat]], late' \subseteq LateWrites,
         disturbed \subseteq disturbed',
         OpStands(N, StrategyOf[c], locks', stored', disturbed'),
         \A s \in Strategies : \A r \in Records :
           \/ locks[s][r] = 0 \/ locks'[s][r] = locks[s][r] \/ <<s, r>> \in disturbed',
         \A s \in Strategies : \A r \in Records :
           \/ stored'[r] = stored[r] \/ <<s, r>> \in disturbed'
           \/ s = StrategyOf[c] /\ Engaged(op[c]) /\ op[c].rec = r,
         Engaged(N) => \/ Engaged(op[c]) /\ N.rec = op[c].rec /\ N.lk = op[c].lk
                       \/ Holders(StrategyOf[c], N.rec, N.lk) = {}
  PROVE  StorageInv'
<1>1. op \in [Clients -> OpRecords]
  BY DEF StorageInv, StorageTyped
<1>2. op' \in [Clients -> OpRecords] /\ op'[c] = N /\ \A d \in Clients : d # c => op'[d] = op[d]
  BY <1>1
<1>3. StorageTyped'
  BY <1>2 DEF StorageTyped
<1>4. \A d \in Clients : StrategyOf[d] \in Strategies
  BY StorageAssumption DEF StorageAssumption
<1>5. ASSUME NEW d \in Clients, d # c
      PROVE  OpStands(op[d], StrategyOf[d], locks', stored', disturbed')
  <2>1. OpStands(op[d], StrategyOf[d], locks, stored, disturbed)
    BY DEF StorageInv
  <2>2. op[d].pc # "idle" => op[d].rec \in Records
    BY <2>1 DEF OpStands
  <2>3. op[d].pc # "idle" =>
          \/ locks[StrategyOf[d]][op[d].rec] = 0
          \/ locks'[StrategyOf[d]][op[d].rec] = locks[StrategyOf[d]][op[d].rec]
          \/ <<StrategyOf[d], op[d].rec>> \in disturbed'
    BY <1>4, <2>2
  <2>4. ASSUME op[d].pc = "writing", <<StrategyOf[d], op[d].rec>> \notin disturbed'
        PROVE  stored'[op[d].rec] = stored[op[d].rec]
    <3>1. op[d].rec \in Records /\ Engaged(op[d]) /\ <<StrategyOf[d], op[d].rec>> \notin disturbed
      BY <2>1, <2>2, <2>4 DEF OpStands, Engaged, Locking
    <3>2. op[d].lk = locks[StrategyOf[d]][op[d].rec]
      BY <2>1, <3>1 DEF OpStands, Engaged
    <3>3. SUFFICES ASSUME StrategyOf[d] = StrategyOf[c], Engaged(op[c]), op[c].rec = op[d].rec
                   PROVE  FALSE
      BY <1>4, <2>4, <3>1
    <3>4. OpStands(op[c], StrategyOf[c], locks, stored, disturbed)
      BY DEF StorageInv
    <3>5. op[c].lk = locks[StrategyOf[c]][op[c].rec]
      BY <3>1, <3>3, <3>4 DEF OpStands, Engaged
    <3>6. SameLock(c, d)
      BY <3>2, <3>3, <3>5 DEF SameLock
    <3>7. c = d
      BY <3>1, <3>3, <3>6 DEF StorageInv, OneHolds
    <3> QED BY <1>5, <3>7
  <2> QED BY <2>1, <2>3, <2>4, OpKept
<1>6. \A d \in Clients : OpStands(op'[d], StrategyOf[d], locks', stored', disturbed')
  BY <1>2, <1>5
<1>7. ASSUME NEW d \in Clients, d # c, Engaged(op[d]), Engaged(N), StrategyOf[d] = StrategyOf[c],
             op[d].rec = N.rec, op[d].lk = N.lk
      PROVE  FALSE
  <2>1. CASE Engaged(op[c]) /\ N.rec = op[c].rec /\ N.lk = op[c].lk
    BY <1>7, <2>1 DEF StorageInv, OneHolds, SameLock
  <2>2. CASE Holders(StrategyOf[c], N.rec, N.lk) = {}
    <3>1. d \in Holders(StrategyOf[c], N.rec, N.lk)
      BY <1>7 DEF Holders, Engaged
    <3> QED BY <2>2, <3>1
  <2> QED BY <1>7, <2>1, <2>2
<1>8. OneHolds'
  <2>1. SUFFICES ASSUME NEW a \in Clients, NEW b \in Clients, Engaged(op'[a]), Engaged(op'[b]),
                        StrategyOf[a] = StrategyOf[b], op'[a].rec = op'[b].rec,
                        op'[a].lk = op'[b].lk
                 PROVE  a = b
    BY DEF OneHolds, SameLock
  <2>2. CASE a # c /\ b # c
    BY <1>2, <2>1, <2>2 DEF StorageInv, OneHolds, SameLock
  <2>3. CASE a = c /\ b # c
    BY <1>2, <1>7, <2>1, <2>3
  <2>4. CASE a # c /\ b = c
    BY <1>2, <1>7, <2>1, <2>4
  <2> QED BY <2>2, <2>3, <2>4
<1> QED BY <1>3, <1>6, <1>8 DEF StorageInv

(* What happens to the store while no operation moves disturbs every         *)
(* strategy.                                                                 *)
LEMMA StoreMoves ==
  ASSUME StorageAssumption, StorageInv, UNCHANGED <<op, locks, made>>,
         stored' \in [Records -> Holdings], late' \subseteq LateWrites,
         disturbed \subseteq disturbed',
         \A s \in Strategies : \A r \in Records :
           stored'[r] = stored[r] \/ <<s, r>> \in disturbed'
  PROVE  StorageInv'
<1>1. StorageTyped' /\ OneHolds'
  BY DEF StorageInv, StorageTyped, OneHolds, SameLock
<1>2. ASSUME NEW d \in Clients PROVE OpStands(op[d], StrategyOf[d], locks', stored', disturbed')
  <2>1. OpStands(op[d], StrategyOf[d], locks, stored, disturbed)
    BY DEF StorageInv
  <2>2. StrategyOf[d] \in Strategies
    BY StorageAssumption DEF StorageAssumption
  <2>3. op[d].pc # "idle" => op[d].rec \in Records
    BY <2>1 DEF OpStands
  <2>4. op[d].pc = "writing" => stored'[op[d].rec] = stored[op[d].rec]
                                \/ <<StrategyOf[d], op[d].rec>> \in disturbed'
    BY <2>2, <2>3
  <2> QED BY <2>1, <2>4, OpKept
<1>3. \A d \in Clients : OpStands(op'[d], StrategyOf[d], locks', stored', disturbed')
  BY <1>2
<1> QED BY <1>1, <1>3 DEF StorageInv

(* What a step of the service makes of an operation o, and what it does to   *)
(* the store: a read changes nothing, a write nothing but its record, and    *)
(* what is said to be written or read is there. An upsert is refused where a *)
(* record of another shape is, or its pair is disturbed.                     *)
OpMoves(o, N) ==
  /\ N \in OpRecords /\ N.kind = o.kind /\ N.rec = o.rec /\ N.val = o.val /\ N.lk = o.lk
  /\ o.pc \in {"waiting", "inside", "writing"} /\ N.pc # "idle"
Brings(c, N) ==
  LET o == op[c] IN
  /\ o.kind = "read" => stored' = stored
  /\ o.kind \in {"update", "upsert"} =>
       \A q \in Records : stored'[q] # stored[q] => q = o.rec /\ stored'[q] = o.val
  /\ N.pc = "done" /\ N.out = Ok =>
       /\ o.kind = "read" => N.seen = stored'[o.rec]
       /\ o.kind \in {"update", "upsert"} => stored'[o.rec] = o.val
  /\ o.kind = "upsert" /\ N.pc = "done" /\ N.out = Raised =>
       <<StrategyOf[c], o.rec>> \in disturbed' \/ stored[o.rec] \in Misfits
MovesOp(c) == \E N : op' = [op EXCEPT ![c] = N] /\ OpMoves(op[c], N) /\ Brings(c, N)

Reading(o) == o.kind = "upsert" /\ o.pc = "inside"
(* How a method goes on once its call is settled: an upsert to its write,    *)
(* any other to its end.                                                     *)
LEMMA SettleMoves ==
  ASSUME StorageAssumption, StorageInv, NEW c \in Clients, Busy(c), NEW kind \in Remote,
         NEW out \in {Ok, Nothing, Raised}, NEW seen \in Payload, Settle(c, kind, out, seen)
  PROVE  /\ locks' \in [Strategies -> [Records -> Nat]]
         /\ \A s \in Strategies : \A r \in Records :
              locks'[s][r] = locks[s][r] \/ (s = StrategyOf[c] /\ r \in Gone(c, kind, out))
         /\ \E N : /\ op' = [op EXCEPT ![c] = N] /\ OpMoves(op[c], N) /\ N.seen = seen
                   /\ \/ Reading(op[c]) /\ N.pc = "writing" /\ N.out = Ok
                      \/ /\ ~Reading(op[c]) /\ N.pc = "done"
                         /\ N.out = IF op[c].kind = "upsert" /\ out = Nothing THEN Raised ELSE out
<1>1. op[c] \in OpRecords /\ op[c].pc \in {"inside", "writing"}
  BY DEF StorageInv, StorageTyped, Busy
<1>2. locks \in [Strategies -> [Records -> Nat]] /\ StrategyOf[c] \in Strategies
  BY StorageAssumption DEF StorageInv, StorageTyped, StorageAssumption
<1>3. op[c].out = Ok
  <2>1. OpStands(op[c], StrategyOf[c], locks, stored, disturbed)
    BY DEF StorageInv
  <2> QED BY <1>1, <2>1 DEF OpStands
<1>4. CASE Reading(op[c])
  <2>1. op' = [op EXCEPT ![c].pc = "writing", ![c].seen = seen] /\ locks' = locks
    BY <1>4 DEF Settle, Reading
  <2>2. PICK N : N = [op[c] EXCEPT !.pc = "writing", !.seen = seen]
    OBVIOUS
  <2>3. op' = [op EXCEPT ![c] = N]
    BY <2>1, <2>2 DEF StorageInv, StorageTyped
  <2>4. N \in OpRecords
    BY <1>1, <2>2 DEF OpRecords
  <2>5. /\ N.kind = op[c].kind /\ N.rec = op[c].rec /\ N.val = op[c].val /\ N.lk = op[c].lk
        /\ N.pc = "writing" /\ N.seen = seen /\ N.out = op[c].out
    BY <1>1, <2>2 DEF OpRecords
  <2>6. OpMoves(op[c], N)
    BY <1>1, <2>4, <2>5 DEF OpMoves
  <2> QED BY <1>2, <1>3, <1>4, <2>1, <2>3, <2>5, <2>6
<1>5. CASE ~Reading(op[c])
  <2>1. PICK x : x = IF op[c].kind = "upsert" /\ out = Nothing THEN Raised ELSE out
    OBVIOUS
  <2>2. Done(c, x, seen) /\ DropLocks(c, kind, out)
    BY <1>5, <2>1 DEF Settle, Reading
  <2>3. op' = [op EXCEPT ![c].pc = "done", ![c].out = x, ![c].seen = seen]
    BY <2>2 DEF Done
  <2>4. PICK N : N = [op[c] EXCEPT !.pc = "done", !.out = x, !.seen = seen]
    OBVIOUS
  <2>5. op' = [op EXCEPT ![c] = N]
    BY <2>3, <2>4 DEF StorageInv, StorageTyped
  <2>6. x \in {Ok, Nothing, Raised, Denied}
    BY <2>1
  <2>7. N \in OpRecords
    BY <1>1, <2>4, <2>6 DEF OpRecords
  <2>8. /\ N.kind = op[c].kind /\ N.rec = op[c].rec /\ N.val = op[c].val /\ N.lk = op[c].lk
        /\ N.pc = "done" /\ N.seen = seen /\ N.out = x
    BY <1>1, <2>4 DEF OpRecords
  <2>9. OpMoves(op[c], N)
    BY <1>1, <2>7, <2>8 DEF OpMoves
  <2>10. PICK l : l = [r \in Records |->
                        IF r \in Gone(c, kind, out) THEN 0 ELSE locks[StrategyOf[c]][r]]
    OBVIOUS
  <2>11. locks' = [locks EXCEPT ![StrategyOf[c]] = l]
    BY <1>2, <2>2, <2>10 DEF DropLocks
  <2>12. l \in [Records -> Nat]
         /\ \A r \in Records : r \notin Gone(c, kind, out) => l[r] = locks[StrategyOf[c]][r]
    BY <1>2, <2>10
  <2>13. locks' \in [Strategies -> [Records -> Nat]] /\ locks'[StrategyOf[c]] = l
         /\ \A s \in Strategies : s # StrategyOf[c] => locks'[s] = locks[s]
    BY <1>2, <2>11, <2>12
  <2>14. \A s \in Strategies : \A r \in Records :
           locks'[s][r] = locks[s][r] \/ (s = StrategyOf[c] /\ r \in Gone(c, kind, out))
    BY <2>12, <2>13
  <2> QED BY <1>5, <2>1, <2>5, <2>8, <2>9, <2>13, <2>14
<1> QED BY <1>4, <1>5

(* The steps of the service keep the invariant, and move the operation as    *)
(* they may.                                                                 *)
LEMMA AcquireMoves ==
  ASSUME StorageAssumption, StorageInv, NEW c \in Clients, Acquire(c)
  PROVE  StorageInv' /\ MovesOp(c)
<1>1. op[c] \in OpRecords /\ op[c].pc = "waiting"
  BY DEF StorageInv, StorageTyped, Acquire
<1>2. PICK N : N = [op[c] EXCEPT !.pc = "inside"]
  OBVIOUS
<1>3. op' = [op EXCEPT ![c] = N] /\ UNCHANGED <<stored, locks, made, late, faults, disturbed>>
  BY <1>2 DEF Acquire, StorageInv, StorageTyped
<1>4. /\ N.kind = op[c].kind /\ N.rec = op[c].rec /\ N.val = op[c].val /\ N.lk = op[c].lk
      /\ N.pc = "inside" /\ N.out = op[c].out
  BY <1>1, <1>2 DEF OpRecords
<1>5. N \in OpRecords
  BY <1>1, <1>2 DEF OpRecords
<1>6. OpStands(op[c], StrategyOf[c], locks, stored, disturbed)
  BY DEF StorageInv
<1>7. OpStands(N, StrategyOf[c], locks', stored', disturbed')
  BY <1>1, <1>3, <1>4, <1>6 DEF OpStands
<1>8. Engaged(N) => Holders(StrategyOf[c], N.rec, N.lk) = {}
  BY <1>4 DEF Acquire
<1>9. stored' \in [Records -> Holdings] /\ made' \in Nat /\ late' \subseteq LateWrites
      /\ locks' \in [Strategies -> [Records -> Nat]]
  BY <1>3 DEF StorageInv, StorageTyped
<1>10. StorageInv'
  BY <1>3, <1>5, <1>7, <1>8, <1>9, StorageAssumption, StorageSteps
<1>11. OpMoves(op[c], N)
  BY <1>1, <1>4, <1>5 DEF OpMoves
<1>12. Brings(c, N)
  BY <1>3, <1>4 DEF Brings
<1> QED BY <1>3, <1>10, <1>11, <1>12 DEF MovesOp

(* A call that is refused ends its operation, and changes nothing.           *)
LEMMA RefusedMoves ==
  ASSUME StorageAssumption, StorageInv, NEW c \in Clients, Refused(c)
  PROVE  StorageInv' /\ MovesOp(c)
<1>1. op[c] \in OpRecords /\ op[c].pc \in {"inside", "writing"}
  BY DEF StorageInv, StorageTyped, Refused, Busy
<1>2. PICK N : N = [op[c] EXCEPT !.pc = "done", !.out = Denied, !.seen = Absent]
  OBVIOUS
<1>3. op' = [op EXCEPT ![c] = N] /\ UNCHANGED <<stored, locks, made, late, disturbed>>
  BY <1>2 DEF Refused, Done, StorageInv, StorageTyped
<1>4. /\ N.kind = op[c].kind /\ N.rec = op[c].rec /\ N.val = op[c].val /\ N.lk = op[c].lk
      /\ N.pc = "done" /\ N.out = Denied
  BY <1>1, <1>2 DEF OpRecords
<1>5. N \in OpRecords
  BY <1>1, <1>2 DEF OpRecords, Payload
<1>6. OpStands(op[c], StrategyOf[c], locks, stored, disturbed)
  BY DEF StorageInv
<1>7. Denied # Ok /\ Denied # Raised
  BY DEF Denied, Ok, Raised
<1>8. OpStands(N, StrategyOf[c], locks', stored', disturbed')
  BY <1>1, <1>4, <1>6, <1>7 DEF OpStands
<1>9. ~Engaged(N)
  BY <1>4 DEF Engaged
<1>10. stored' \in [Records -> Holdings] /\ made' \in Nat /\ late' \subseteq LateWrites
      /\ locks' \in [Strategies -> [Records -> Nat]]
  BY <1>3 DEF StorageInv, StorageTyped
<1>11. StorageInv'
  BY <1>3, <1>5, <1>8, <1>9, <1>10, StorageAssumption, StorageSteps
<1>12. OpMoves(op[c], N)
  BY <1>1, <1>4, <1>5 DEF OpMoves
<1>13. Brings(c, N)
  BY <1>3, <1>4, <1>7 DEF Brings
<1> QED BY <1>3, <1>11, <1>12, <1>13 DEF MovesOp

(* The effect of an operation's call: a read's none, a write's what it brings.*)
LEMMA CallOfOp ==
  ASSUME StorageInv, NEW c \in Clients, Busy(c), NEW res,
         res = Rpc(RpcOf(c), op[c].rec, op[c].val)
  PROVE  /\ op[c].kind = "read" => res.after = stored
         /\ op[c].kind \in {"update", "upsert"} =>
              \A q \in Records : res.after[q] # stored[q] => q = op[c].rec /\ res.after[q] = op[c].val
<1>1. op[c].rec \in Records /\ op[c].val \in Payload /\ StorageTyped
  BY CallsRemote DEF StorageInv
<1>2. CASE op[c].kind = "read"
  <2>1. RpcOf(c) = "read"
    BY <1>2, CallsRemote
  <2> QED BY <1>1, <1>2, <2>1, CallReads
<1>3. CASE op[c].kind \in {"update", "upsert"}
  <2>1. RpcOf(c) \in {"read", "store", "update"}
    BY <1>3, CallsRemote
  <2>2. CASE RpcOf(c) = "read"
    <3>1. res.after = stored
      BY <1>1, <2>2, CallReads
    <3> QED BY <1>3, <3>1
  <2>3. CASE RpcOf(c) \in {"store", "update"}
    <3>1. /\ \A q \in Records : q # op[c].rec => res.after[q] = stored[q]
          /\ res.after[op[c].rec] = op[c].val \/ res.after = stored
      BY <1>1, <2>3, CallWrites
    <3> QED BY <1>3, <3>1
  <2> QED BY <2>1, <2>2, <2>3
<1> QED BY <1>2, <1>3

(* A call that failed, whatever effect it had or may have: its pair is       *)
(* disturbed.                                                                *)
LEMMA FailMoves ==
  ASSUME StorageAssumption, StorageInv, NEW c \in Clients, Busy(c), Fail(c, RpcOf(c)),
         stored' \in [Records -> Holdings], late' \subseteq LateWrites,
         disturbed \cup FaultAt(c) \subseteq disturbed',
         \A s \in Strategies : \A r \in Records : stored'[r] = stored[r] \/ <<s, r>> \in disturbed',
         op[c].kind = "read" => stored' = stored,
         op[c].kind \in {"update", "upsert"} =>
           \A q \in Records : stored'[q] # stored[q] => q = op[c].rec /\ stored'[q] = op[c].val
  PROVE  StorageInv' /\ MovesOp(c)
<1>1. PICK kind \in Remote : kind = RpcOf(c)
  BY CallsRemote
<1>2. PICK out \in {Nothing, Raised} : out = OnFailure(kind)
  BY DEF OnFailure
<1>3. Settle(c, kind, out, Absent) /\ made' = made
  BY <1>1, <1>2 DEF Fail
<1>4. Absent \in Payload /\ out \in {Ok, Nothing, Raised} /\ out # Ok
  BY <1>2 DEF Payload, Ok, Nothing, Raised
<1>5. Gone(c, kind, out) = {}
  BY <1>4 DEF Gone
<1>6. /\ locks' \in [Strategies -> [Records -> Nat]]
      /\ \A s \in Strategies : \A r \in Records : locks'[s][r] = locks[s][r]
  BY <1>3, <1>4, <1>5, StorageAssumption, SettleMoves
<1>7. PICK N : /\ op' = [op EXCEPT ![c] = N] /\ OpMoves(op[c], N) /\ N.seen = Absent
               /\ \/ Reading(op[c]) /\ N.pc = "writing" /\ N.out = Ok
                  \/ /\ ~Reading(op[c]) /\ N.pc = "done"
                     /\ N.out = IF op[c].kind = "upsert" /\ out = Nothing THEN Raised ELSE out
  BY <1>3, <1>4, StorageAssumption, SettleMoves
<1>8. N \in OpRecords /\ N.kind = op[c].kind /\ N.rec = op[c].rec /\ N.lk = op[c].lk
  BY <1>7 DEF OpMoves
<1>9. <<StrategyOf[c], op[c].rec>> \in disturbed' /\ disturbed \subseteq disturbed'
  BY DEF FaultAt
<1>10. op[c].rec \in Records /\ op[c].pc \in {"inside", "writing"}
  BY CallsRemote DEF Busy
<1>11. OpStands(op[c], StrategyOf[c], locks, stored, disturbed) /\ StrategyOf[c] \in Strategies
  BY StorageAssumption DEF StorageInv, StorageAssumption
<1>12. OpStands(N, StrategyOf[c], locks', stored', disturbed')
  <2>1. CASE N.pc = "writing"
    <3>1. N.kind = "upsert" /\ N.out = Ok
      BY <1>7, <1>8, <2>1 DEF Reading
    <3>2. op[c].kind \in Locking
      BY <1>8, <3>1 DEF Locking
    <3>3. op[c].pc \in {"waiting", "inside", "writing"}
      BY <1>10
    <3>4. N.lk # 0
      BY <1>8, <1>11, <3>2, <3>3 DEF OpStands
    <3> QED BY <1>8, <1>9, <1>10, <2>1, <3>1, <3>4 DEF OpStands
  <2>2. CASE N.pc = "done"
    <3>1. N.out # Ok
      BY <1>4, <1>7, <2>2 DEF Ok, Raised
    <3> QED BY <1>8, <1>10, <2>2, <3>1 DEF OpStands
  <2> QED BY <1>7, <2>1, <2>2
<1>13. Engaged(N) => Engaged(op[c])
  BY <1>8, <1>10 DEF Engaged
<1>14. made' \in Nat
  BY <1>3 DEF StorageInv, StorageTyped
<1>15. StorageInv'
  <2>1. \A s \in Strategies : \A r \in Records :
          \/ locks[s][r] = 0 \/ locks'[s][r] = locks[s][r] \/ <<s, r>> \in disturbed'
    BY <1>6
  <2>2. \A s \in Strategies : \A r \in Records :
          \/ stored'[r] = stored[r] \/ <<s, r>> \in disturbed'
          \/ s = StrategyOf[c] /\ Engaged(op[c]) /\ op[c].rec = r
    OBVIOUS
  <2>3. Engaged(N) => \/ Engaged(op[c]) /\ N.rec = op[c].rec /\ N.lk = op[c].lk
                      \/ Holders(StrategyOf[c], N.rec, N.lk) = {}
    BY <1>8, <1>13
  <2>4. op' = [op EXCEPT ![c] = N]
    BY <1>7
  <2> QED BY <1>6, <1>8, <1>9, <1>12, <1>14, <2>1, <2>2, <2>3, <2>4, StorageAssumption, StorageSteps
<1>16. N.pc = "done" => N.out # Ok
  BY <1>4, <1>7 DEF Ok, Raised
<1>17. Brings(c, N)
  BY <1>9, <1>16 DEF Brings
<1> QED BY <1>7, <1>15, <1>17 DEF MovesOp

(* A call that failed before its effect: the record's lock orders no more.   *)
LEMMA UnsentMoves ==
  ASSUME StorageAssumption, StorageInv, NEW c \in Clients, Unsent(c)
  PROVE  StorageInv' /\ MovesOp(c)
<1>1. Busy(c) /\ Fail(c, RpcOf(c)) /\ stored' = stored /\ late' = late
      /\ disturbed' = disturbed \cup FaultAt(c)
  BY DEF Unsent
<1>2. stored' \in [Records -> Holdings] /\ late' \subseteq LateWrites
  BY <1>1 DEF StorageInv, StorageTyped
<1> QED BY <1>1, <1>2, StorageAssumption, FailMoves

(* A call given up: its effect, if it comes, is a late one.                  *)
LEMMA GivenUpMoves ==
  ASSUME StorageAssumption, StorageInv, NEW c \in Clients, GivenUp(c)
  PROVE  StorageInv' /\ MovesOp(c)
<1>1. Busy(c) /\ Fail(c, RpcOf(c)) /\ stored' = stored
      /\ disturbed' = disturbed \cup FaultAt(c) /\ RpcOf(c) \in {"store", "update", "remove"}
  BY DEF GivenUp
<1>2. PICK w : w = [kind |-> RpcOf(c), rec |-> op[c].rec, val |-> op[c].val]
  OBVIOUS
<1>3. late' = late \cup {w}
  BY <1>2 DEF GivenUp
<1>4. w \in LateWrites
  BY <1>1, <1>2, CallsRemote DEF LateWrites
<1>5. stored' \in [Records -> Holdings] /\ late' \subseteq LateWrites
  BY <1>1, <1>3, <1>4 DEF StorageInv, StorageTyped
<1> QED BY <1>1, <1>5, StorageAssumption, FailMoves

(* A call that had its effect and failed: every strategy is disturbed.       *)
LEMMA AnswerLostMoves ==
  ASSUME StorageAssumption, StorageInv, NEW c \in Clients, AnswerLost(c)
  PROVE  StorageInv' /\ MovesOp(c)
<1>1. PICK res : res = Rpc(RpcOf(c), op[c].rec, op[c].val)
  OBVIOUS
<1>2. Busy(c) /\ Fail(c, RpcOf(c)) /\ stored' = res.after /\ late' = late
      /\ disturbed' = disturbed \cup FaultAt(c) \cup (Strategies \X Touched(stored'))
  BY <1>1 DEF AnswerLost
<1>3. stored' \in [Records -> Holdings]
  <2>1. RpcOf(c) \in Remote /\ op[c].rec \in Records /\ op[c].val \in Payload /\ StorageTyped
    BY <1>2, CallsRemote DEF StorageInv
  <2> QED BY <1>1, <1>2, <2>1, CallEffect
<1>4. late' \subseteq LateWrites /\ disturbed \cup FaultAt(c) \subseteq disturbed'
  BY <1>2 DEF StorageInv, StorageTyped
<1>5. \A s \in Strategies : \A r \in Records : stored'[r] = stored[r] \/ <<s, r>> \in disturbed'
  BY <1>2 DEF Touched
<1>6. /\ op[c].kind = "read" => stored' = stored
      /\ op[c].kind \in {"update", "upsert"} =>
           \A q \in Records : stored'[q] # stored[q] => q = op[c].rec /\ stored'[q] = op[c].val
  BY <1>1, <1>2, CallOfOp
<1> QED BY <1>2, <1>3, <1>4, <1>5, <1>6, StorageAssumption, FailMoves

(* A call that answers: an upsert goes on with what it read, a removal drops *)
(* the locks of what it removed.                                             *)
LEMMA AnsweredMoves ==
  ASSUME StorageAssumption, StorageInv, NEW c \in Clients, Answered(c)
  PROVE  StorageInv' /\ MovesOp(c)
<1>1. PICK kind \in Remote : kind = RpcOf(c)
  BY CallsRemote DEF Answered
<1>2. PICK res : res = Rpc(kind, op[c].rec, op[c].val)
  OBVIOUS
<1>3. Busy(c) /\ stored' = res.after /\ Settle(c, kind, res.out, res.seen) /\ Disturb(c, kind, res)
      /\ UNCHANGED <<made, late>>
  BY <1>1, <1>2 DEF Answered
<1>4. op[c].rec \in Records /\ op[c].val \in Payload /\ StorageTyped
      /\ op[c].pc \in {"inside", "writing"}
  BY <1>3, CallsRemote DEF StorageInv, Busy
<1>5. /\ stored' \in [Records -> Holdings] /\ res.out \in {Ok, Nothing, Raised}
      /\ res.seen \in Payload
      /\ kind = "wipe" => res.out = Ok
      /\ kind \in {"read", "list"} => stored' = stored
      /\ \A q \in Records : stored'[q] # stored[q] =>
           q = op[c].rec \/ (kind = "wipe" /\ q \in SameCollection(op[c].rec))
  BY <1>2, <1>3, <1>4, CallEffect
<1>6. /\ locks' \in [Strategies -> [Records -> Nat]]
      /\ \A s \in Strategies : \A r \in Records :
           locks'[s][r] = locks[s][r] \/ (s = StrategyOf[c] /\ r \in Gone(c, kind, res.out))
  BY <1>3, <1>5, StorageAssumption, SettleMoves
<1>7. PICK N : /\ op' = [op EXCEPT ![c] = N] /\ OpMoves(op[c], N) /\ N.seen = res.seen
               /\ \/ Reading(op[c]) /\ N.pc = "writing" /\ N.out = Ok
                  \/ /\ ~Reading(op[c]) /\ N.pc = "done"
                     /\ N.out = IF op[c].kind = "upsert" /\ res.out = Nothing THEN Raised
                                ELSE res.out
  BY <1>3, <1>5, StorageAssumption, SettleMoves
<1>8. N \in OpRecords /\ N.kind = op[c].kind /\ N.rec = op[c].rec /\ N.lk = op[c].lk
  BY <1>7 DEF OpMoves
<1>9. /\ disturbed \subseteq disturbed'
      /\ \A r \in Gone(c, kind, res.out) : <<StrategyOf[c], r>> \in disturbed'
      /\ \A s \in Strategies : \A r \in Records :
           s # StrategyOf[c] /\ stored'[r] # stored[r] => <<s, r>> \in disturbed'
  BY <1>3 DEF Disturb, Touched
<1>10. \A s \in Strategies : \A r \in Records :
         \/ locks[s][r] = 0 \/ locks'[s][r] = locks[s][r] \/ <<s, r>> \in disturbed'
  BY <1>6, <1>9
<1>11. op[c].kind \in Kinds
  BY <1>4 DEF StorageTyped, OpRecords
<1>12. op[c].kind \in Locking \/ (kind = op[c].kind /\ kind \in {"list", "wipe"})
  BY <1>1, <1>3, <1>11, CallsRemote DEF Kinds, Locking
<1>13. \A s \in Strategies : \A r \in Records :
         \/ stored'[r] = stored[r] \/ <<s, r>> \in disturbed'
         \/ s = StrategyOf[c] /\ Engaged(op[c]) /\ op[c].rec = r
  <2>1. SUFFICES ASSUME NEW r \in Records, stored'[r] # stored[r],
                        <<StrategyOf[c], r>> \notin disturbed'
                 PROVE  Engaged(op[c]) /\ op[c].rec = r
    BY <1>9
  <2>2. ~(kind = "wipe" /\ r \in SameCollection(op[c].rec))
    BY <1>5, <1>9, <2>1 DEF Gone
  <2>3. op[c].rec = r
    BY <1>5, <2>1, <2>2
  <2>4. op[c].kind \in Locking
    <3>1. CASE kind = "list"
      BY <1>5, <2>1, <3>1
    <3>2. CASE kind = "wipe"
      <4>1. r \in SameCollection(op[c].rec)
        BY <2>3 DEF SameCollection
      <4> QED BY <2>2, <3>2, <4>1
    <3> QED BY <1>12, <3>1, <3>2
  <2> QED BY <1>4, <2>3, <2>4 DEF Engaged
<1>14. OpStands(op[c], StrategyOf[c], locks, stored, disturbed) /\ StrategyOf[c] \in Strategies
  BY StorageAssumption DEF StorageInv, StorageAssumption
<1>15. CASE Reading(op[c])
  <2>1. kind = "read" /\ N.pc = "writing" /\ N.out = Ok /\ op[c].kind = "upsert"
    BY <1>1, <1>3, <1>7, <1>15, CallsRemote DEF Reading
  <2>2. stored' = stored /\ \/ Validates(stored[op[c].rec]) /\ res.seen = stored[op[c].rec]
                            \/ ~Validates(stored[op[c].rec]) /\ res.seen = Absent
    BY <1>2, <1>3, <1>4, <2>1, CallReads
  <2>3. \/ N.seen = Absent /\ ~Validates(stored'[N.rec])
        \/ N.seen # Absent /\ stored'[N.rec] = N.seen
    BY <1>7, <1>8, <2>2 DEF Validates
  <2>4. N.lk # 0 /\ (N.lk = locks[StrategyOf[c]][N.rec] \/ <<StrategyOf[c], N.rec>> \in disturbed)
    BY <1>4, <1>8, <1>14, <2>1 DEF OpStands, Locking
  <2>5. N.lk # 0 /\ (N.lk = locks'[StrategyOf[c]][N.rec] \/ <<StrategyOf[c], N.rec>> \in disturbed')
    BY <1>4, <1>8, <1>9, <1>10, <1>14, <2>4
  <2>6. OpStands(N, StrategyOf[c], locks', stored', disturbed')
    BY <1>4, <1>8, <2>1, <2>3, <2>5 DEF OpStands
  <2>7. Engaged(N) => Engaged(op[c])
    BY <1>4, <1>8 DEF Engaged
  <2>8. made' \in Nat /\ late' \subseteq LateWrites
    BY <1>3, <1>4 DEF StorageTyped
  <2>9. StorageInv'
    BY <1>5, <1>6, <1>7, <1>8, <1>9, <1>10, <1>13, <2>6, <2>7, <2>8, StorageAssumption, StorageSteps
  <2>10. Brings(c, N)
    BY <2>1, <2>2 DEF Brings
  <2> QED BY <1>7, <2>9, <2>10 DEF MovesOp
<1>16. CASE ~Reading(op[c])
  <2>1. N.pc = "done" /\ N.out = IF op[c].kind = "upsert" /\ res.out = Nothing THEN Raised
                                ELSE res.out
    BY <1>7, <1>16
  <2>2. /\ op[c].kind = "read" => stored' = stored
        /\ op[c].kind \in {"update", "upsert"} =>
             \A q \in Records : stored'[q] # stored[q] => q = op[c].rec /\ stored'[q] = op[c].val
    BY <1>1, <1>2, <1>3, CallOfOp
  <2>3. N.out = Ok => res.out = Ok
    BY <2>1 DEF Ok, Raised
  <2>4. op[c].kind = "read" /\ N.out = Ok => N.seen = stored'[op[c].rec] /\ N.seen # Absent
    <3>1. SUFFICES ASSUME op[c].kind = "read", N.out = Ok
                   PROVE  N.seen = stored'[op[c].rec] /\ N.seen # Absent
      OBVIOUS
    <3>2. kind = "read" /\ res.out = Ok /\ Ok # Nothing
      BY <1>1, <1>3, <2>3, <3>1, CallsRemote DEF Ok, Nothing
    <3>3. res.seen = stored[op[c].rec] /\ res.after = stored /\ Validates(stored[op[c].rec])
      BY <1>2, <1>4, <3>2, CallReads
    <3> QED BY <1>3, <1>7, <3>3 DEF Validates
  <2>5. OpStands(N, StrategyOf[c], locks', stored', disturbed') /\ ~Engaged(N)
    BY <1>4, <1>8, <2>1, <2>4 DEF OpStands, Engaged
  <2>6. made' \in Nat /\ late' \subseteq LateWrites
    BY <1>3, <1>4 DEF StorageTyped
  <2>7. StorageInv'
    BY <1>5, <1>6, <1>7, <1>8, <1>9, <1>10, <1>13, <2>5, <2>6, StorageAssumption, StorageSteps
  <2>8. CASE op[c].kind \in {"update", "upsert"}
    <3>1. kind \in {"store", "update"}
          /\ (op[c].kind = "upsert" => /\ op[c].pc = "writing"
                                       /\ kind = "store" <=> op[c].seen = Absent)
      BY <1>1, <1>3, <1>16, <2>8, CallsRemote DEF Reading
    <3>2. \/ res.out = Ok /\ stored'[op[c].rec] = op[c].val
          \/ res.out = Raised /\ kind = "store" /\ stored[op[c].rec] # Absent
          \/ res.out = Nothing /\ kind = "update" /\ stored[op[c].rec] = Absent
      BY <1>2, <1>3, <1>4, <3>1, CallWrites
    <3>3. Ok # Raised /\ Ok # Nothing /\ Raised # Nothing
      BY DEF Ok, Raised, Nothing
    <3>4. N.out = Ok => stored'[op[c].rec] = op[c].val
      BY <2>3, <3>2, <3>3
    <3>5. ASSUME op[c].kind = "upsert", N.out = Raised
          PROVE  <<StrategyOf[c], op[c].rec>> \in disturbed' \/ stored[op[c].rec] \in Misfits
      <4>1. \/ <<StrategyOf[c], op[c].rec>> \in disturbed
            \/ op[c].seen = Absent /\ ~Validates(stored[op[c].rec])
            \/ op[c].seen # Absent /\ stored[op[c].rec] = op[c].seen
        BY <1>14, <3>1, <3>5 DEF OpStands
      <4>2. res.out # Ok
        BY <2>1, <3>3, <3>5
      <4>3. \/ kind = "store" /\ stored[op[c].rec] # Absent
            \/ kind = "update" /\ stored[op[c].rec] = Absent
        BY <3>2, <4>2
      <4> QED BY <1>9, <3>1, <3>5, <4>1, <4>3 DEF Validates
    <3> QED BY <1>7, <2>1, <2>7, <2>2, <2>4, <2>8, <3>4, <3>5 DEF Brings, MovesOp
  <2>9. CASE op[c].kind \notin {"update", "upsert"}
    <3>1. Brings(c, N)
      BY <2>2, <2>4, <2>9 DEF Brings
    <3> QED BY <1>7, <2>7, <3>1 DEF MovesOp
  <2> QED BY <2>8, <2>9
<1> QED BY <1>15, <1>16

(* Whatever becomes of a call, its operation moves, and the storage stands.  *)
LEMMA BackendMoves ==
  ASSUME StorageAssumption, StorageInv, NEW c \in Clients, Backend(c)
  PROVE  StorageInv' /\ MovesOp(c)
BY StorageAssumption, AcquireMoves, AnsweredMoves, UnsentMoves, AnswerLostMoves, GivenUpMoves,
   RefusedMoves DEF Backend

(* A late effect disturbs every strategy.                                    *)
LEMMA LateMoves ==
  ASSUME StorageAssumption, StorageInv, LateEffect PROVE StorageInv' /\ UNCHANGED op
<1>1. PICK w \in late :
        /\ late' = late \ {w} /\ stored' = Rpc(w.kind, w.rec, w.val).after
        /\ disturbed' = disturbed \cup (Strategies \X Touched(stored'))
        /\ UNCHANGED <<locks, made, op, faults>>
  BY DEF LateEffect
<1>2. w \in LateWrites /\ StorageTyped
  BY DEF StorageInv, StorageTyped
<1>3. w.kind \in Remote /\ w.rec \in Records /\ w.val \in Payload
  BY <1>2 DEF LateWrites, Remote
<1>4. PICK res : res = Rpc(w.kind, w.rec, w.val)
  OBVIOUS
<1>5. stored' \in [Records -> Holdings]
  BY <1>1, <1>2, <1>3, <1>4, CallEffect
<1>6. \A s \in Strategies : \A r \in Records : stored'[r] = stored[r] \/ <<s, r>> \in disturbed'
  BY <1>1 DEF Touched
<1>7. late' \subseteq LateWrites /\ disturbed \subseteq disturbed'
  BY <1>1, <1>2 DEF StorageTyped
<1> QED BY <1>1, <1>5, <1>6, <1>7, StorageAssumption, StoreMoves

(* A client without an operation is idle.                                    *)
LEMMA NoOpIsIdle ==
  /\ NoOp \in OpRecords /\ NoOp.pc = "idle" /\ NoOp.out = Ok /\ NoOp.lk = 0 /\ NoOp.seen = Absent
  /\ NoOp.val = Absent /\ NoOp.kind = "read"
<1>1. PICK r : r = NoOp.rec
  OBVIOUS
<1>2. NoOp = [kind |-> "read", rec |-> r, val |-> Absent, pc |-> "idle", lk |-> 0,
              seen |-> Absent, out |-> Ok]
  BY <1>1 DEF NoOp
<1> QED BY <1>1, <1>2 DEF OpRecords, Kinds, Locking, Payload

(* An operation begins: it queues on its record's lock, made if there is     *)
(* none.                                                                     *)
LEMMA CallStarts ==
  ASSUME StorageAssumption, StorageInv, NEW c \in Clients, NEW kind \in Locking,
         NEW r \in Records, NEW v \in Payload, Call(c, kind, r, v)
  PROVE  /\ StorageInv' /\ stored' = stored /\ op[c].pc = "idle"
         /\ \E N : /\ op' = [op EXCEPT ![c] = N]
                   /\ N.kind = kind /\ N.rec = r /\ N.val = v /\ N.pc = "waiting"
<1>1. locks \in [Strategies -> [Records -> Nat]] /\ made \in Nat /\ StrategyOf[c] \in Strategies
  BY StorageAssumption DEF StorageInv, StorageTyped, StorageAssumption
<1>2. UNCHANGED <<stored, late, disturbed>> /\ op[c].pc = "idle" /\ RecordLock(c, r)
  BY DEF Call
<1>3. /\ locks' \in [Strategies -> [Records -> Nat]] /\ made' \in Nat
      /\ locks'[StrategyOf[c]][r] # 0 /\ locks'[StrategyOf[c]][r] \in Nat
      /\ \A s \in Strategies : \A q \in Records : locks[s][q] = 0 \/ locks'[s][q] = locks[s][q]
  <2>1. CASE locks[StrategyOf[c]][r] # 0
    BY <1>1, <1>2, <2>1 DEF RecordLock
  <2>2. CASE locks[StrategyOf[c]][r] = 0
    <3>1. PICK n : n = made + 1
      OBVIOUS
    <3>2. n \in Nat /\ n # 0
      BY <1>1, <3>1
    <3>3. PICK l : l = [locks[StrategyOf[c]] EXCEPT ![r] = n]
      OBVIOUS
    <3>4. made' = n /\ locks' = [locks EXCEPT ![StrategyOf[c]] = l]
      BY <1>1, <1>2, <2>2, <3>1, <3>3 DEF RecordLock, NewLock
    <3>5. l \in [Records -> Nat] /\ l[r] = n
          /\ \A q \in Records : q # r => l[q] = locks[StrategyOf[c]][q]
      BY <1>1, <3>2, <3>3
    <3>6. locks' \in [Strategies -> [Records -> Nat]] /\ locks'[StrategyOf[c]] = l
          /\ \A s \in Strategies : s # StrategyOf[c] => locks'[s] = locks[s]
      BY <1>1, <3>4, <3>5
    <3>7. \A s \in Strategies : \A q \in Records : locks[s][q] = 0 \/ locks'[s][q] = locks[s][q]
      BY <2>2, <3>5, <3>6
    <3> QED BY <3>2, <3>4, <3>5, <3>6, <3>7
  <2> QED BY <2>1, <2>2
<1>4. PICK k : k = locks'[StrategyOf[c]][r]
  OBVIOUS
<1>5. PICK N : N = [NoOp EXCEPT !.kind = kind, !.rec = r, !.val = v, !.pc = "waiting", !.lk = k]
  OBVIOUS
<1>6. op' = [op EXCEPT ![c] = N]
  BY <1>4, <1>5 DEF Call
<1>7. N \in OpRecords
  BY <1>3, <1>4, <1>5, NoOpIsIdle DEF OpRecords, Kinds
<1>8. /\ N.kind = kind /\ N.rec = r /\ N.val = v /\ N.pc = "waiting" /\ N.lk = k /\ N.out = Ok
  BY <1>5, NoOpIsIdle DEF OpRecords
<1>9. OpStands(N, StrategyOf[c], locks', stored', disturbed')
  BY <1>3, <1>4, <1>8 DEF OpStands
<1>10. ~Engaged(N)
  BY <1>8 DEF Engaged
<1>11. stored' \in [Records -> Holdings] /\ late' \subseteq LateWrites /\ disturbed \subseteq disturbed'
  BY <1>2 DEF StorageInv, StorageTyped
<1>12. \A s \in Strategies : \A q \in Records : stored'[q] = stored[q]
  BY <1>2
<1>13. StorageInv'
  BY <1>3, <1>6, <1>7, <1>9, <1>10, <1>11, <1>12, StorageAssumption, StorageSteps
<1> QED BY <1>2, <1>6, <1>8, <1>13

(* An operation begins that takes no lock.                                   *)
LEMMA UnlockedStarts ==
  ASSUME StorageAssumption, StorageInv, NEW c \in Clients, NEW kind \in {"list", "wipe"},
         NEW r \in Records, CallUnlocked(c, kind, r)
  PROVE  /\ StorageInv' /\ stored' = stored /\ op[c].pc = "idle"
         /\ \E N : op' = [op EXCEPT ![c] = N]
<1>1. UNCHANGED <<stored, locks, made, late, disturbed>> /\ op[c].pc = "idle"
  BY DEF CallUnlocked
<1>2. PICK N : N = [NoOp EXCEPT !.kind = kind, !.rec = r, !.pc = "inside"]
  OBVIOUS
<1>3. op' = [op EXCEPT ![c] = N]
  BY <1>2 DEF CallUnlocked
<1>4. N \in OpRecords
  BY <1>2, NoOpIsIdle DEF OpRecords, Kinds
<1>5. N.kind = kind /\ N.rec = r /\ N.pc = "inside" /\ N.out = Ok
  BY <1>2, NoOpIsIdle DEF OpRecords
<1>6. OpStands(N, StrategyOf[c], locks', stored', disturbed') /\ ~Engaged(N)
  BY <1>5 DEF OpStands, Engaged, Locking
<1>7. stored' \in [Records -> Holdings] /\ late' \subseteq LateWrites /\ disturbed \subseteq disturbed'
      /\ locks' \in [Strategies -> [Records -> Nat]] /\ made' \in Nat
  BY <1>1 DEF StorageInv, StorageTyped
<1>8. StorageInv'
  BY <1>1, <1>3, <1>4, <1>6, <1>7, StorageAssumption, StorageSteps
<1> QED BY <1>1, <1>3, <1>8

(* A result is taken. *)
LEMMA ReturnsIdle ==
  ASSUME StorageAssumption, StorageInv, NEW c \in Clients, Return(c)
  PROVE  /\ StorageInv' /\ stored' = stored /\ op[c].pc = "done"
         /\ op' = [op EXCEPT ![c] = NoOp]
<1>1. UNCHANGED <<stored, locks, made, late, disturbed>> /\ op' = [op EXCEPT ![c] = NoOp]
      /\ op[c].pc = "done"
  BY DEF Return
<1>2. OpStands(NoOp, StrategyOf[c], locks', stored', disturbed') /\ ~Engaged(NoOp)
  BY NoOpIsIdle DEF OpStands, Engaged
<1>3. stored' \in [Records -> Holdings] /\ late' \subseteq LateWrites /\ disturbed \subseteq disturbed'
      /\ locks' \in [Strategies -> [Records -> Nat]] /\ made' \in Nat
  BY <1>1 DEF StorageInv, StorageTyped
<1>4. StorageInv'
  BY <1>1, <1>2, <1>3, NoOpIsIdle, StorageAssumption, StorageSteps
<1> QED BY <1>1, <1>4

-----------------------------------------------------------------------------
(* Beginnings of a sequence: of itself, and of what it is extended to.       *)
LEMMA LeadsItself == ASSUME NEW s \in Histories PROVE Leads(s, s)
BY DEF Leads, Histories

(* What leads to a history leads to what it is extended to.                  *)
LEMMA LeadsOn ==
  ASSUME NEW t \in Histories, NEW f \in HistoryFiles
  PROVE  /\ Append(t, f) \in Histories
         /\ ToSet(Append(t, f)) = ToSet(t) \cup {f}
         /\ \A s \in Histories : Leads(s, t) => Leads(s, Append(t, f))
<1>1. PICK n \in Nat : n = Len(t)
  BY DEF Histories
<1>2. PICK u : u = Append(t, f)
  OBVIOUS
<1>3. u \in Histories /\ Len(u) = n + 1 /\ DOMAIN u = 1..(n + 1) /\ u[n + 1] = f
      /\ \A i \in 1..n : u[i] = t[i]
  BY <1>1, <1>2 DEF Histories
<1>4. DOMAIN t = 1..n
  BY <1>1 DEF Histories
<1>5. ToSet(u) = ToSet(t) \cup {f}
  <2>1. ASSUME NEW x \in ToSet(u) PROVE x \in ToSet(t) \cup {f}
    <3>1. PICK i \in 1..(n + 1) : x = u[i]
      BY <1>3, <2>1 DEF ToSet
    <3>2. i = n + 1 \/ i \in 1..n
      BY <3>1
    <3> QED BY <1>3, <1>4, <3>1, <3>2 DEF ToSet
  <2>2. ASSUME NEW x \in ToSet(t) PROVE x \in ToSet(u)
    <3>1. PICK i \in 1..n : x = t[i]
      BY <1>4, <2>2 DEF ToSet
    <3>2. i \in 1..(n + 1) /\ u[i] = x
      BY <1>3, <3>1
    <3> QED BY <1>3, <3>2 DEF ToSet
  <2>3. n + 1 \in 1..(n + 1)
    OBVIOUS
  <2>4. f \in ToSet(u)
    BY <1>3, <2>3 DEF ToSet
  <2> QED BY <2>1, <2>2, <2>4
<1>6. ASSUME NEW s \in Histories, Leads(s, t) PROVE Leads(s, u)
  <2>1. PICK m \in Nat : m = Len(s)
    BY DEF Histories
  <2>2. m <= n /\ \A i \in 1..m : s[i] = t[i]
    BY <1>1, <1>6, <2>1 DEF Leads
  <2>3. m <= n + 1 /\ \A i \in 1..m : i \in 1..n
    BY <2>2
  <2> QED BY <1>3, <2>1, <2>2, <2>3 DEF Leads
<1> QED BY <1>2, <1>3, <1>5, <1>6

(* What validates as a history is one.                                       *)
LEMMA ValidIsHistory ==
  ASSUME HistoryAssumption
  PROVE  /\ Absent \notin Histories /\ Absent \in Payload
         /\ \A x \in Payload : x # Absent => x \in Histories
         /\ \A x \in Holdings : Validates(x) => x \in Histories
         /\ \A x \in Histories : x \notin Misfits => Validates(x)
         /\ \A w \in Writers : FileOf[w] \in HistoryFiles
         /\ \A x \in Values : x \in Payload
BY DEF HistoryAssumption, Histories, Payload, Holdings, Validates, HistoryFiles

(* A client is a handler's own or a visitor, and never both.                 *)
LEMMA OwnersAreClients ==
  ASSUME HistoryAssumption
  PROVE  /\ Owners \subseteq Clients /\ Visitors \subseteq Clients /\ Owners \cap Visitors = {}
         /\ \A c \in Clients : c \in Owners \/ c \in Visitors
         /\ \A c \in Owners : HandlerOf[c] \in Handlers
         /\ \A h \in Handlers : HistoryOf[h] \in Records
         /\ Nobody \notin Owners
BY DEF HistoryAssumption, Owners

(* A handler no client of which moves, over a history that stands still.     *)
LEMMA OtherStands ==
  ASSUME HistoryInv, NEW h \in Handlers,
         cache'[h] = cache[h], dirty'[h] = dirty[h], appended'[h] = appended[h],
         flusher'[h] = flusher[h],
         \A w \in Owners : HandlerOf[w] = h => op'[w] = op[w] /\ fpc'[w] = fpc[w],
         excused'[h] = {} => excused[h] = {} /\ stored'[HistoryOf[h]] = stored[HistoryOf[h]]
  PROVE  FlusherAt(h)' /\ (excused'[h] = {} => HistoryStands(h)')
<1>1. flusher[h] # Nobody => flusher[h] \in Owners /\ HandlerOf[flusher[h]] = h
  BY DEF HistoryInv, HistoryTyped, FlusherAt
<1>2. flusher[h] # Nobody => op'[flusher[h]] = op[flusher[h]] /\ fpc'[flusher[h]] = fpc[flusher[h]]
  BY <1>1
<1>3. FlusherAt(h)'
  BY <1>1, <1>2 DEF HistoryInv, FlusherAt, AtFlush
<1>4. ASSUME excused'[h] = {} PROVE HistoryStands(h)'
  <2>1. HistoryStands(h) /\ Written(h)' = Written(h)
    BY <1>4 DEF HistoryInv, Written
  <2>2. (cache[h] # Absent => CacheAhead(h))'
    BY <2>1 DEF HistoryStands, CacheAhead
  <2>3. (flusher[h] # Nobody => FlushUnderWay(h))'
    BY <1>2, <2>1 DEF HistoryStands, FlushUnderWay
  <2>4. ASSUME cache'[h] = Absent, NEW w \in Owners, HandlerOf[w] = h, fpc'[w] = "loading",
               op'[w].pc = "done", op'[w].out = Ok
        PROVE  Written(h)' = op'[w].seen
    <3>1. op'[w] = op[w] /\ fpc'[w] = fpc[w]
      BY <2>4
    <3> QED BY <2>1, <2>4, <3>1 DEF HistoryStands
  <2> QED BY <2>2, <2>3, <2>4 DEF HistoryStands
<1> QED BY <1>3, <1>4

(* One client of a handler moves, and the service does not.                  *)
LEMMA OwnerMoves ==
  ASSUME HistoryAssumption, HistoryInv, NEW c \in Owners, NEW h \in Handlers, h = HandlerOf[c],
         StorageInv', HistoryTyped', stored' = stored,
         \A w \in Owners : w # c => op'[w] = op[w] /\ fpc'[w] = fpc[w],
         \A g \in Handlers : g # h =>
           /\ cache'[g] = cache[g] /\ dirty'[g] = dirty[g] /\ appended'[g] = appended[g]
           /\ flusher'[g] = flusher[g] /\ excused'[g] = excused[g],
         \A w \in Owners : w # c /\ HandlerOf[w] = h /\ AtFlush(w) => flusher'[h] = w,
         OwnerAt(c)', FlusherAt(h)', excused'[h] = {} => HistoryStands(h)'
  PROVE  HistoryInv'
<1>1. ASSUME NEW w \in Owners, w # c PROVE OwnerAt(w)'
  <2>1. op'[w] = op[w] /\ fpc'[w] = fpc[w] /\ OwnerAt(w)
    BY <1>1 DEF HistoryInv
  <2>2. PICK g \in Handlers : g = HandlerOf[w]
    BY OwnersAreClients
  <2>3. AtFlush(w) => flusher'[g] = w
    BY <1>1, <2>1, <2>2 DEF OwnerAt
  <2> QED BY <2>1, <2>2, <2>3 DEF OwnerAt, AtFlush
<1>2. ASSUME NEW g \in Handlers, g # h PROVE FlusherAt(g)' /\ (excused'[g] = {} => HistoryStands(g)')
  <2>1. \A w \in Owners : HandlerOf[w] = g => op'[w] = op[w] /\ fpc'[w] = fpc[w]
    BY <1>2
  <2>2. excused'[g] = {} => excused[g] = {} /\ stored'[HistoryOf[g]] = stored[HistoryOf[g]]
    BY <1>2
  <2> QED BY <1>2, <2>1, <2>2, OtherStands
<1>3. \A w \in Owners : OwnerAt(w)'
  BY <1>1
<1>4. \A g \in Handlers : FlusherAt(g)' /\ (excused'[g] = {} => HistoryStands(g)')
  BY <1>2
<1> QED BY <1>3, <1>4 DEF HistoryInv

(* Who does not flush does not hold the flush lock.                          *)
LEMMA FlusherIsOther ==
  ASSUME HistoryInv, NEW h \in Handlers, flusher[h] # Nobody, NEW c \in Owners, ~AtFlush(c)
  PROVE  flusher[h] \in Owners /\ flusher[h] # c /\ HandlerOf[flusher[h]] = h
<1>1. flusher[h] \in Owners
  BY DEF HistoryInv, HistoryTyped
<1>2. HandlerOf[flusher[h]] = h /\ AtFlush(flusher[h])
  BY DEF HistoryInv, FlusherAt
<1> QED BY <1>1, <1>2

(* A client moves where no flush and no answered load is its own.            *)
LEMMA QuietKeeps ==
  ASSUME HistoryAssumption, HistoryInv, NEW c \in Owners, NEW h \in Handlers, h = HandlerOf[c],
         StorageInv', stored' = stored, UNCHANGED <<cache, dirty, flusher, appended, excused>>,
         NEW N, op' = [op EXCEPT ![c] = N], NEW l \in Places, fpc' = [fpc EXCEPT ![c] = l],
         ~AtFlush(c), l \notin {"flushing", "stop_flushing"},
         IF l = "loading" THEN N.pc = "waiting" /\ N.kind = "read" /\ N.rec = HistoryOf[h]
         ELSE N.pc = "idle"
  PROVE  HistoryInv'
<1>1. c \in Clients /\ HistoryTyped /\ op \in [Clients -> OpRecords]
  BY OwnersAreClients DEF HistoryInv, StorageInv, StorageTyped
<1>2. op'[c] = N /\ \A v \in Owners : v # c => op'[v] = op[v]
  BY <1>1, OwnersAreClients
<1>3. fpc' \in [Owners -> Places] /\ fpc'[c] = l /\ \A v \in Owners : v # c => fpc'[v] = fpc[v]
  BY <1>1 DEF HistoryTyped
<1>4. HistoryTyped'
  BY <1>1, <1>3 DEF HistoryTyped
<1>5. OwnerAt(c)'
  BY <1>2, <1>3 DEF OwnerAt, AtFlush
<1>6. flusher[h] # Nobody => /\ flusher[h] \in Owners /\ flusher[h] # c
                             /\ fpc'[flusher[h]] = fpc[flusher[h]]
                             /\ op'[flusher[h]] = op[flusher[h]]
  BY <1>2, <1>3, FlusherIsOther
<1>7. FlusherAt(h)'
  BY <1>6 DEF HistoryInv, FlusherAt, AtFlush
<1>8. ASSUME excused'[h] = {} PROVE HistoryStands(h)'
  <2>1. HistoryStands(h)
    BY <1>8 DEF HistoryInv
  <2>2. (cache[h] # Absent => CacheAhead(h))'
    BY <2>1 DEF HistoryStands, CacheAhead, Written
  <2>3. (flusher[h] # Nobody => FlushUnderWay(h))'
    BY <1>6, <2>1 DEF HistoryStands, FlushUnderWay, Written
  <2>4. ASSUME cache'[h] = Absent, NEW v \in Owners, HandlerOf[v] = h, fpc'[v] = "loading",
               op'[v].pc = "done", op'[v].out = Ok
        PROVE  Written(h)' = op'[v].seen
    <3>1. v # c
      BY <1>2, <1>3, <2>4
    <3> QED BY <1>2, <1>3, <2>1, <2>4, <3>1 DEF HistoryStands, Written
  <2> QED BY <2>2, <2>3, <2>4 DEF HistoryStands
<1>9. \A v \in Owners : v # c /\ HandlerOf[v] = h /\ AtFlush(v) => flusher'[h] = v
  BY DEF HistoryInv, OwnerAt
<1> QED BY <1>2, <1>3, <1>4, <1>5, <1>7, <1>8, <1>9, HistoryAssumption, OwnerMoves

(* What an append makes of the handler's side: the file is in the cache, and *)
(* the history is dirty.                                                     *)
LEMMA ExtendDoes ==
  ASSUME HistoryAssumption, HistoryInv, NEW w \in Writers, NEW h \in Handlers, h = HandlerOf[w],
         NEW t \in Histories, Extend(w, t)
  PROVE  /\ cache' \in [Handlers -> Payload] /\ cache'[h] = Append(t, FileOf[w])
         /\ cache'[h] # Absent
         /\ dirty' \in [Handlers -> Nat] /\ dirty'[h] = dirty[h] + 1 /\ dirty'[h] > 0
         /\ appended' \in [Handlers -> SUBSET HistoryFiles]
         /\ appended'[h] = appended[h] \cup {FileOf[w]}
         /\ fpc' \in [Owners -> Places] /\ fpc'[w] \in {"locking", "ended"}
         /\ \A v \in Owners : v # w => fpc'[v] = fpc[v]
         /\ \A g \in Handlers : g # h =>
              cache'[g] = cache[g] /\ dirty'[g] = dirty[g] /\ appended'[g] = appended[g]
<1>1. HistoryTyped /\ w \in Owners
  BY DEF HistoryInv, Owners
<1>2. PICK f \in HistoryFiles : f = FileOf[w]
  BY ValidIsHistory
<1>3. PICK u : u = Append(t, f)
  OBVIOUS
<1>4. u \in Histories /\ u # Absent /\ u \in Payload
  BY <1>2, <1>3, LeadsOn, ValidIsHistory DEF Payload
<1>5. cache' = [cache EXCEPT ![h] = u]
  BY <1>2, <1>3 DEF Extend
<1>6. cache' \in [Handlers -> Payload] /\ cache'[h] = u
      /\ \A g \in Handlers : g # h => cache'[g] = cache[g]
  BY <1>1, <1>4, <1>5 DEF HistoryTyped
<1>7. PICK n : n = dirty[h] + 1
  OBVIOUS
<1>8. n \in Nat /\ n > 0 /\ dirty' = [dirty EXCEPT ![h] = n]
  BY <1>1, <1>7 DEF Extend, HistoryTyped
<1>9. dirty' \in [Handlers -> Nat] /\ dirty'[h] = n
      /\ \A g \in Handlers : g # h => dirty'[g] = dirty[g]
  BY <1>1, <1>8 DEF HistoryTyped
<1>10. PICK a : a = appended[h] \cup {f}
  OBVIOUS
<1>11. a \in SUBSET HistoryFiles /\ appended' = [appended EXCEPT ![h] = a]
  BY <1>1, <1>2, <1>10 DEF Extend, HistoryTyped
<1>12. appended' \in [Handlers -> SUBSET HistoryFiles] /\ appended'[h] = a
       /\ \A g \in Handlers : g # h => appended'[g] = appended[g]
  BY <1>1, <1>11 DEF HistoryTyped
<1>13. PICK l \in {"locking", "ended"} : fpc' = [fpc EXCEPT ![w] = l]
  BY DEF Extend, Goto
<1>14. fpc' \in [Owners -> Places] /\ fpc'[w] = l /\ \A v \in Owners : v # w => fpc'[v] = fpc[v]
  BY <1>1, <1>13 DEF HistoryTyped, Places
<1> QED BY <1>2, <1>3, <1>4, <1>6, <1>7, <1>8, <1>9, <1>10, <1>12, <1>14

(* An append to the cached history: it leads on to what is in the cache now. *)
LEMMA AppendCachedKeeps ==
  ASSUME StorageAssumption, HistoryAssumption, HistoryInv, NEW w \in Writers, AppendCached(w)
  PROVE  HistoryInv'
<1>1. w \in Owners /\ HistoryTyped /\ StorageInv /\ fpc[w] = "idle"
  BY DEF HistoryInv, Owners, AppendCached
<1>2. PICK h \in Handlers : h = HandlerOf[w]
  BY <1>1, OwnersAreClients
<1>3. PICK t : t = cache[h]
  OBVIOUS
<1>4. t \in Histories /\ Extend(w, t)
  BY <1>1, <1>2, <1>3, ValidIsHistory DEF AppendCached, HistoryTyped
<1>5. UNCHANGED <<stored, locks, made, op, late, disturbed, flusher, excused>>
  BY DEF AppendCached, svars
<1>6. /\ cache' \in [Handlers -> Payload] /\ cache'[h] = Append(t, FileOf[w])
      /\ cache'[h] # Absent
      /\ dirty' \in [Handlers -> Nat] /\ dirty'[h] = dirty[h] + 1 /\ dirty'[h] > 0
      /\ appended' \in [Handlers -> SUBSET HistoryFiles]
      /\ appended'[h] = appended[h] \cup {FileOf[w]}
      /\ fpc' \in [Owners -> Places] /\ fpc'[w] \in {"locking", "ended"}
      /\ \A v \in Owners : v # w => fpc'[v] = fpc[v]
      /\ \A g \in Handlers : g # h =>
           cache'[g] = cache[g] /\ dirty'[g] = dirty[g] /\ appended'[g] = appended[g]
  BY <1>2, <1>4, ExtendDoes
<1>7. StorageInv'
  BY <1>1, <1>5 DEF StorageInv, StorageTyped, OneHolds, SameLock
<1>8. HistoryTyped'
  <2>1. \A g \in Handlers : cache'[g] = Absent => appended'[g] = {} /\ dirty'[g] = 0
    BY <1>1, <1>6 DEF HistoryTyped
  <2> QED BY <1>1, <1>5, <1>6, <2>1 DEF HistoryTyped
<1>9. OwnerAt(w) /\ op'[w] = op[w]
  BY <1>1, <1>5 DEF HistoryInv
<1>10. op[w].pc = "idle"
  BY <1>1, <1>9 DEF OwnerAt, AtFlush
<1>11. OwnerAt(w)'
  BY <1>6, <1>9, <1>10 DEF OwnerAt, AtFlush
<1>12. flusher[h] # Nobody => fpc'[flusher[h]] = fpc[flusher[h]]
  <2>1. ~AtFlush(w)
    BY <1>1 DEF AtFlush
  <2> QED BY <1>1, <1>6, <2>1, FlusherIsOther
<1>13. FlusherAt(h)'
  BY <1>5, <1>6, <1>12 DEF HistoryInv, FlusherAt, AtFlush
<1>14. ASSUME excused'[h] = {} PROVE HistoryStands(h)'
  <2>1. HistoryStands(h) /\ CacheAhead(h)
    BY <1>4, <1>3, <1>5, <1>14, ValidIsHistory DEF HistoryInv, HistoryStands
  <2>2. Written(h) \in Holdings
    BY <1>1, <1>2, OwnersAreClients DEF StorageInv, StorageTyped, Written
  <2>3. FileOf[w] \in HistoryFiles
    BY ValidIsHistory
  <2>4. CacheAhead(h)'
    <3>1. appended'[h] \subseteq ToSet(cache'[h])
      BY <1>3, <1>4, <1>6, <2>1, <2>3, LeadsOn DEF CacheAhead
    <3>2. Validates(Written(h)) => Leads(Written(h), cache'[h])
      BY <1>3, <1>4, <1>6, <2>1, <2>2, <2>3, LeadsOn, ValidIsHistory DEF CacheAhead
    <3>3. dirty'[h] # 0
      BY <1>1, <1>6 DEF HistoryTyped
    <3>4. Written(h)' = Written(h)
      BY <1>5 DEF Written
    <3> QED BY <3>1, <3>2, <3>3, <3>4 DEF CacheAhead
  <2>5. ASSUME flusher[h] # Nobody PROVE FlushUnderWay(h)'
    <3>1. FlushUnderWay(h) /\ flusher' = flusher /\ op' = op /\ stored' = stored
      BY <1>5, <2>1, <2>5 DEF HistoryStands
    <3>2. op[flusher[h]].val \in Histories
      BY <1>1, <2>5 DEF HistoryInv, HistoryTyped, FlusherAt, OwnerAt
    <3>3. Leads(op[flusher[h]].val, cache'[h])
      BY <1>3, <1>4, <1>6, <2>3, <3>1, <3>2, LeadsOn DEF FlushUnderWay
    <3> QED BY <3>1, <3>3 DEF FlushUnderWay, Written
  <2> QED BY <1>5, <1>6, <2>4, <2>5 DEF HistoryStands
<1>15. \A v \in Owners : v # w /\ HandlerOf[v] = h /\ AtFlush(v) => flusher'[h] = v
  BY <1>5 DEF HistoryInv, OwnerAt
<1> QED BY <1>1, <1>2, <1>5, <1>6, <1>7, <1>8, <1>11, <1>13, <1>14, <1>15, HistoryAssumption,
           OwnerMoves

(* A load begins: nothing is known of it yet.                                *)
LEMMA LoadHistoryKeeps ==
  ASSUME StorageAssumption, HistoryAssumption, HistoryInv, NEW w \in Writers, LoadHistory(w)
  PROVE  HistoryInv'
<1>1. w \in Owners /\ HistoryTyped /\ StorageInv /\ fpc[w] = "idle" /\ w \in Clients
  BY OwnersAreClients DEF HistoryInv, Owners, LoadHistory
<1>2. PICK h \in Handlers : h = HandlerOf[w]
  BY <1>1, OwnersAreClients
<1>3. HistoryOf[h] \in Records /\ Absent \in Payload /\ "read" \in Locking
  BY OwnersAreClients, ValidIsHistory DEF Locking
<1>4. Call(w, "read", HistoryOf[h], Absent)
  BY <1>2 DEF LoadHistory, Read
<1>5. StorageInv' /\ stored' = stored /\ op[w].pc = "idle"
  BY <1>1, <1>3, <1>4, StorageAssumption, CallStarts
<1>6. PICK N : /\ op' = [op EXCEPT ![w] = N]
               /\ N.kind = "read" /\ N.rec = HistoryOf[h] /\ N.val = Absent /\ N.pc = "waiting"
  BY <1>1, <1>3, <1>4, StorageAssumption, CallStarts
<1>7. PICK l \in Places : l = "loading"
  BY DEF Places
<1>8. UNCHANGED <<cache, dirty, flusher, appended, excused>> /\ fpc' = [fpc EXCEPT ![w] = l]
  BY <1>7 DEF LoadHistory, Goto
<1>9. ~AtFlush(w) /\ l \notin {"flushing", "stop_flushing"}
  BY <1>1, <1>7 DEF AtFlush
<1>10. IF l = "loading" THEN N.pc = "waiting" /\ N.kind = "read" /\ N.rec = HistoryOf[h]
       ELSE N.pc = "idle"
  BY <1>6, <1>7
<1> QED BY <1>9, <1>10, <1>1, <1>2, <1>5, <1>6, <1>7, <1>8, HistoryAssumption, QuietKeeps

(* A refused load leaves the handler as it was.                              *)
LEMMA LoadRefusedKeeps ==
  ASSUME StorageAssumption, HistoryAssumption, HistoryInv, NEW w \in Writers, LoadRefused(w)
  PROVE  HistoryInv'
<1>1. w \in Owners /\ StorageInv /\ fpc[w] = "loading" /\ w \in Clients /\ Return(w)
  BY OwnersAreClients DEF HistoryInv, Owners, LoadRefused
<1>2. PICK h \in Handlers : h = HandlerOf[w]
  BY <1>1, OwnersAreClients
<1>3. StorageInv' /\ stored' = stored /\ op' = [op EXCEPT ![w] = NoOp]
  BY <1>1, StorageAssumption, ReturnsIdle
<1>4. PICK l \in Places : l = "ended"
  BY DEF Places
<1>5. UNCHANGED <<cache, dirty, flusher, appended, excused>> /\ fpc' = [fpc EXCEPT ![w] = l]
  BY <1>4 DEF LoadRefused, Goto
<1>6. ~AtFlush(w) /\ l \notin {"flushing", "stop_flushing"}
  BY <1>1, <1>4 DEF AtFlush
<1>7. IF l = "loading" THEN NoOp.pc = "waiting" /\ NoOp.kind = "read" /\ NoOp.rec = HistoryOf[h]
      ELSE NoOp.pc = "idle"
  BY <1>4, NoOpIsIdle
<1> QED BY <1>6, <1>7, <1>1, <1>2, <1>3, <1>4, <1>5, HistoryAssumption, QuietKeeps

(* A flush begins, or finds nothing to do.                                   *)
LEMMA FlushKeeps ==
  ASSUME HistoryAssumption, HistoryInv, NEW c \in Owners, Flush(c) \/ NothingToFlush(c)
  PROVE  HistoryInv'
<1>1. fpc[c] \in {"idle", "stopping", "locking", "stop_locking"}
  BY DEF Flush, NothingToFlush, Locked
<1>2. UNCHANGED <<svars, cache, dirty, flusher, appended, excused>>
  BY DEF Flush, NothingToFlush
<1>3. PICK l \in {"ended", "stopping", "stop_locking", "locking"} : fpc' = [fpc EXCEPT ![c] = l]
  <2>1. CASE Flush(c)
    BY <2>1 DEF Flush, Goto
  <2>2. CASE NothingToFlush(c)
    BY <2>2 DEF NothingToFlush, Goto, AfterFlush
  <2> QED BY <2>1, <2>2
<1>4. PICK h \in Handlers : h = HandlerOf[c]
  BY OwnersAreClients
<1>5. UNCHANGED <<stored, locks, made, op, late, disturbed>>
  BY <1>2 DEF svars
<1>6. StorageInv'
  BY <1>5 DEF HistoryInv, StorageInv, StorageTyped, OneHolds, SameLock
<1>7. ~AtFlush(c) /\ op[c].pc = "idle"
  BY <1>1 DEF HistoryInv, OwnerAt, AtFlush
<1>8. op' = [op EXCEPT ![c] = op[c]]
  BY <1>5, OwnersAreClients DEF HistoryInv, StorageInv, StorageTyped
<1>9. l \in Places /\ l \notin {"loading", "flushing", "stop_flushing"}
  BY DEF Places
<1> QED BY <1>2, <1>3, <1>4, <1>5, <1>6, <1>7, <1>8, <1>9, HistoryAssumption, QuietKeeps

(* A load ends: unless another was first, or there was a history it did not  *)
(* see, the cache goes on from what is stored.                               *)
LEMMA LoadedKeeps ==
  ASSUME StorageAssumption, HistoryAssumption, HistoryInv, NEW w \in Writers, Loaded(w)
  PROVE  HistoryInv'
<1>1. w \in Owners /\ HistoryTyped /\ StorageInv /\ w \in Clients /\ Return(w)
      /\ fpc[w] = "loading" /\ op[w].out \in {Ok, Nothing}
  BY OwnersAreClients DEF HistoryInv, Owners, Loaded
<1>2. PICK h \in Handlers : h = HandlerOf[w]
  BY <1>1, OwnersAreClients
<1>3. StorageInv' /\ stored' = stored /\ op[w].pc = "done" /\ op' = [op EXCEPT ![w] = NoOp]
  BY <1>1, StorageAssumption, ReturnsIdle
<1>4. op'[w] = NoOp /\ \A v \in Owners : v # w => op'[v] = op[v]
  BY <1>1, <1>3, OwnersAreClients DEF StorageInv, StorageTyped
<1>5. op[w].kind = "read" /\ op[w].rec = HistoryOf[h] /\ op[w] \in OpRecords
  BY <1>1, <1>2 DEF HistoryInv, OwnerAt, StorageInv, StorageTyped
<1>6. OpStands(op[w], StrategyOf[w], locks, stored, disturbed)
  BY <1>1 DEF StorageInv
<1>7. op[w].out = Ok => op[w].seen \in Histories
  BY <1>3, <1>5, <1>6, ValidIsHistory DEF OpStands, OpRecords
<1>8. PICK t : t = Found(w)
  OBVIOUS
<1>9. <<>> \in Histories
  BY DEF Histories
<1>10. t \in Histories
  BY <1>7, <1>8, <1>9 DEF Found
<1>11. Extend(w, t)
  BY <1>8 DEF Loaded
<1>12. /\ cache' \in [Handlers -> Payload] /\ cache'[h] = Append(t, FileOf[w])
       /\ cache'[h] # Absent
       /\ dirty' \in [Handlers -> Nat] /\ dirty'[h] = dirty[h] + 1 /\ dirty'[h] > 0
       /\ appended' \in [Handlers -> SUBSET HistoryFiles]
       /\ appended'[h] = appended[h] \cup {FileOf[w]}
       /\ fpc' \in [Owners -> Places] /\ fpc'[w] \in {"locking", "ended"}
       /\ \A v \in Owners : v # w => fpc'[v] = fpc[v]
       /\ \A g \in Handlers : g # h =>
            cache'[g] = cache[g] /\ dirty'[g] = dirty[g] /\ appended'[g] = appended[g]
  BY <1>2, <1>10, <1>11, ExtendDoes
<1>13. PICK e : e = excused[h] \cup (IF cache[h] # Absent THEN {"raced"} ELSE {})
                   \cup (IF op[w].out = Nothing /\ stored[HistoryOf[h]] # Absent THEN {"blind"} ELSE {})
  OBVIOUS
<1>14. excused' = [excused EXCEPT ![h] = e] /\ flusher' = flusher
  BY <1>2, <1>13 DEF Loaded
<1>15. DOMAIN excused' = Handlers /\ excused'[h] = e
       /\ \A g \in Handlers : g # h => excused'[g] = excused[g]
  BY <1>1, <1>14 DEF HistoryTyped
<1>16. HistoryTyped'
  <2>1. \A g \in Handlers : cache'[g] = Absent => appended'[g] = {} /\ dirty'[g] = 0
    BY <1>1, <1>12 DEF HistoryTyped
  <2> QED BY <1>1, <1>12, <1>14, <1>15, <2>1 DEF HistoryTyped
<1>17. OwnerAt(w)'
  BY <1>4, <1>12, NoOpIsIdle DEF OwnerAt, AtFlush
<1>18. flusher[h] # Nobody => /\ flusher[h] \in Owners /\ flusher[h] # w /\ HandlerOf[flusher[h]] = h
                              /\ fpc'[flusher[h]] = fpc[flusher[h]]
  <2>1. ~AtFlush(w)
    BY <1>1 DEF AtFlush
  <2> QED BY <1>1, <1>12, <2>1, FlusherIsOther
<1>19. FlusherAt(h)'
  BY <1>12, <1>14, <1>18 DEF HistoryInv, FlusherAt, AtFlush
<1>20. ASSUME excused'[h] = {} PROVE HistoryStands(h)'
  <2>1. excused[h] = {} /\ cache[h] = Absent
        /\ ~(op[w].out = Nothing /\ stored[HistoryOf[h]] # Absent)
    BY <1>13, <1>15, <1>20
  <2>2. HistoryStands(h) /\ appended[h] = {} /\ dirty[h] = 0
    BY <1>1, <2>1 DEF HistoryInv, HistoryTyped
  <2>3. flusher[h] = Nobody
    BY <2>2 DEF HistoryInv, FlusherAt
  <2>4. Validates(Written(h)) => Written(h) = t
    <3>1. CASE op[w].out = Ok
      <4>1. Written(h) = op[w].seen
        BY <1>1, <1>2, <1>3, <2>1, <2>2, <3>1 DEF HistoryStands
      <4> QED BY <1>8, <3>1, <4>1 DEF Found
    <3>2. CASE op[w].out = Nothing
      <4>1. Written(h) = Absent
        BY <2>1, <3>2 DEF Written
      <4> QED BY <4>1 DEF Validates
    <3> QED BY <1>1, <3>1, <3>2
  <2>5. CacheAhead(h)'
    <3>1. FileOf[w] \in HistoryFiles
      BY ValidIsHistory
    <3>2. appended'[h] \subseteq ToSet(cache'[h])
      BY <1>10, <1>12, <2>2, <3>1, LeadsOn
    <3>3. Validates(Written(h)) => Leads(Written(h), cache'[h])
      BY <1>10, <1>12, <2>4, <3>1, LeadsItself, LeadsOn
    <3>4. dirty'[h] # 0
      BY <1>12
    <3>5. Written(h)' = Written(h)
      BY <1>3 DEF Written
    <3> QED BY <3>2, <3>3, <3>4, <3>5 DEF CacheAhead
  <2> QED BY <1>12, <1>14, <2>3, <2>5 DEF HistoryStands
<1>21. \A v \in Owners : v # w /\ HandlerOf[v] = h /\ AtFlush(v) => flusher'[h] = v
  BY <1>14 DEF HistoryInv, OwnerAt
<1>22. \A v \in Owners : v # w => op'[v] = op[v] /\ fpc'[v] = fpc[v]
  BY <1>4, <1>12
<1>23. \A g \in Handlers : g # h =>
         /\ cache'[g] = cache[g] /\ dirty'[g] = dirty[g] /\ appended'[g] = appended[g]
         /\ flusher'[g] = flusher[g] /\ excused'[g] = excused[g]
  BY <1>12, <1>14, <1>15
<1> QED BY <1>1, <1>2, <1>3, <1>16, <1>17, <1>19, <1>20, <1>21, <1>22, <1>23, HistoryAssumption,
           OwnerMoves

(* A write begins with what is in the cache, which goes on from what is      *)
(* stored.                                                                   *)
LEMMA WriteHistoryKeeps ==
  ASSUME StorageAssumption, HistoryAssumption, HistoryInv, NEW c \in Owners, WriteHistory(c)
  PROVE  HistoryInv'
<1>1. HistoryTyped /\ StorageInv /\ c \in Clients /\ fpc[c] \in {"locking", "stop_locking"}
  BY OwnersAreClients DEF HistoryInv, WriteHistory, Locked
<1>2. PICK h \in Handlers : h = HandlerOf[c]
  BY <1>1, OwnersAreClients
<1>3. flusher[h] = Nobody /\ dirty[h] > 0
  BY <1>2 DEF WriteHistory, Locked
<1>4. PICK v : v = cache[h]
  OBVIOUS
<1>5. v \in Histories /\ v \in Payload /\ v # Absent
  BY <1>1, <1>3, <1>4, ValidIsHistory DEF HistoryTyped
<1>6. HistoryOf[h] \in Records
  BY OwnersAreClients
<1>7. PICK kind \in {"update", "upsert"} : v \notin Misfits /\ Call(c, kind, HistoryOf[h], v)
  BY <1>2, <1>4 DEF WriteHistory, Update, Upsert
<1>8. kind \in Locking
  BY DEF Locking
<1>9. StorageInv' /\ stored' = stored
  BY <1>1, <1>5, <1>6, <1>7, <1>8, StorageAssumption, CallStarts
<1>10. PICK N : /\ op' = [op EXCEPT ![c] = N]
                /\ N.kind = kind /\ N.rec = HistoryOf[h] /\ N.val = v /\ N.pc = "waiting"
  BY <1>1, <1>5, <1>6, <1>7, <1>8, StorageAssumption, CallStarts
<1>11. op'[c] = N /\ \A x \in Owners : x # c => op'[x] = op[x]
  BY <1>1, <1>10, OwnersAreClients DEF StorageInv, StorageTyped
<1>12. UNCHANGED <<cache, dirty, appended, excused>> /\ flusher' = [flusher EXCEPT ![h] = c]
  BY <1>2 DEF WriteHistory
<1>13. PICK l \in {"flushing", "stop_flushing"} : fpc' = [fpc EXCEPT ![c] = l]
  BY DEF WriteHistory, Goto
<1>14. fpc' \in [Owners -> Places] /\ fpc'[c] = l /\ \A x \in Owners : x # c => fpc'[x] = fpc[x]
  BY <1>1, <1>13 DEF HistoryTyped, Places
<1>15. flusher' \in [Handlers -> Owners \cup {Nobody}] /\ flusher'[h] = c
       /\ \A g \in Handlers : g # h => flusher'[g] = flusher[g]
  BY <1>1, <1>12 DEF HistoryTyped
<1>16. HistoryTyped'
  BY <1>1, <1>12, <1>14, <1>15 DEF HistoryTyped
<1>17. OwnerAt(c)'
  BY <1>2, <1>5, <1>7, <1>10, <1>11, <1>14, <1>15 DEF OwnerAt, AtFlush
<1>18. FlusherAt(h)'
  BY <1>2, <1>3, <1>12, <1>14, <1>15 DEF FlusherAt, AtFlush
<1>19. ASSUME excused'[h] = {} PROVE HistoryStands(h)'
  <2>1. CacheAhead(h)
    BY <1>4, <1>5, <1>12, <1>19 DEF HistoryInv, HistoryStands
  <2>2. CacheAhead(h)' /\ cache'[h] # Absent
    BY <1>4, <1>5, <1>9, <1>12, <2>1 DEF CacheAhead, Written
  <2>3. Leads(v, v)
    BY <1>5, LeadsItself
  <2>4. FlushUnderWay(h)'
    BY <1>4, <1>9, <1>10, <1>11, <1>12, <1>15, <2>1, <2>3 DEF FlushUnderWay, CacheAhead, Written
  <2> QED BY <2>2, <2>4 DEF HistoryStands
<1>20. \A x \in Owners : x # c /\ HandlerOf[x] = h /\ AtFlush(x) => flusher'[h] = x
  BY <1>3, OwnersAreClients DEF HistoryInv, OwnerAt
<1>21. \A x \in Owners : x # c => op'[x] = op[x] /\ fpc'[x] = fpc[x]
  BY <1>11, <1>14
<1>22. \A g \in Handlers : g # h =>
         /\ cache'[g] = cache[g] /\ dirty'[g] = dirty[g] /\ appended'[g] = appended[g]
         /\ flusher'[g] = flusher[g] /\ excused'[g] = excused[g]
  BY <1>12, <1>15
<1> QED BY <1>2, <1>9, <1>16, <1>17, <1>18, <1>19, <1>20, <1>21, <1>22, HistoryAssumption,
           OwnerMoves

(* A flush ends, and lets go of the lock: with what it wrote stored, or with *)
(* the history dirty still.                                                  *)
LEMMA FlushEndsKeeps ==
  ASSUME StorageAssumption, HistoryAssumption, HistoryInv, NEW c \in Owners,
         Flushed(c) \/ FlushFails(c)
  PROVE  HistoryInv'
<1>1. HistoryTyped /\ StorageInv /\ c \in Clients /\ AtFlush(c) /\ Return(c)
  BY OwnersAreClients DEF HistoryInv, Flushed, FlushFails, AtFlush
<1>2. PICK h \in Handlers : h = HandlerOf[c]
  BY <1>1, OwnersAreClients
<1>3. StorageInv' /\ stored' = stored /\ op[c].pc = "done" /\ op' = [op EXCEPT ![c] = NoOp]
  BY <1>1, StorageAssumption, ReturnsIdle
<1>4. op'[c] = NoOp /\ \A x \in Owners : x # c => op'[x] = op[x]
  BY <1>1, <1>3, OwnersAreClients DEF StorageInv, StorageTyped
<1>5. flusher[h] = c /\ op[c].val \in Histories /\ op[c].val \notin Misfits
  BY <1>1, <1>2 DEF HistoryInv, OwnerAt
<1>6. UNCHANGED <<cache, appended>> /\ flusher' = [flusher EXCEPT ![h] = Nobody]
  BY <1>2 DEF Flushed, FlushFails
<1>7. PICK l \in {"ended", "stopping"} : fpc' = [fpc EXCEPT ![c] = l]
  BY DEF Flushed, FlushFails, Goto, AfterFlush
<1>8. fpc' \in [Owners -> Places] /\ fpc'[c] = l /\ \A x \in Owners : x # c => fpc'[x] = fpc[x]
  BY <1>1, <1>7 DEF HistoryTyped, Places
<1>9. flusher' \in [Handlers -> Owners \cup {Nobody}] /\ flusher'[h] = Nobody
      /\ \A g \in Handlers : g # h => flusher'[g] = flusher[g]
  BY <1>1, <1>6 DEF HistoryTyped
<1>10. OwnerAt(c)'
  BY <1>4, <1>8, NoOpIsIdle DEF OwnerAt, AtFlush
<1>11. FlusherAt(h)'
  BY <1>9 DEF FlusherAt
<1>12. \A x \in Owners : x # c /\ HandlerOf[x] = h /\ AtFlush(x) => flusher'[h] = x
  BY <1>5 DEF HistoryInv, OwnerAt
<1>13. \A x \in Owners : x # c => op'[x] = op[x] /\ fpc'[x] = fpc[x]
  BY <1>4, <1>8
<1>14. CASE Flushed(c)
  <2>1. PICK e : e = excused[h] \cup (IF cache[h] # op[c].val THEN {"overlap"} ELSE {})
                     \cup (IF op[c].out = Nothing THEN {"unwritten"} ELSE {})
    OBVIOUS
  <2>2. excused' = [excused EXCEPT ![h] = e] /\ dirty' = [dirty EXCEPT ![h] = 0]
        /\ op[c].out \in {Ok, Nothing}
    BY <1>2, <1>14, <2>1 DEF Flushed
  <2>3. DOMAIN excused' = Handlers /\ excused'[h] = e
        /\ \A g \in Handlers : g # h => excused'[g] = excused[g]
    BY <1>1, <2>2 DEF HistoryTyped
  <2>4. dirty' \in [Handlers -> Nat] /\ dirty'[h] = 0
        /\ \A g \in Handlers : g # h => dirty'[g] = dirty[g]
    BY <1>1, <2>2 DEF HistoryTyped
  <2>5. HistoryTyped'
    <3>1. \A g \in Handlers : cache'[g] = Absent => appended'[g] = {} /\ dirty'[g] = 0
      BY <1>1, <1>6, <2>4 DEF HistoryTyped
    <3> QED BY <1>1, <1>6, <1>8, <1>9, <2>3, <2>4, <3>1 DEF HistoryTyped
  <2>6. ASSUME excused'[h] = {} PROVE HistoryStands(h)'
    <3>1. excused[h] = {} /\ cache[h] = op[c].val /\ op[c].out = Ok
      BY <2>1, <2>2, <2>3, <2>6
    <3>2. cache[h] # Absent /\ HistoryStands(h)
      BY <1>5, <3>1, ValidIsHistory DEF HistoryInv
    <3>3. CacheAhead(h) /\ FlushUnderWay(h)
      BY <1>5, <3>2, OwnersAreClients DEF HistoryStands
    <3>4. Written(h) = op[c].val
      BY <1>3, <1>5, <3>1, <3>3 DEF FlushUnderWay
    <3>5. CacheAhead(h)'
      BY <1>3, <1>5, <1>6, <2>4, <3>1, <3>3, <3>4 DEF CacheAhead, Written
    <3> QED BY <1>6, <1>9, <3>2, <3>5 DEF HistoryStands
  <2>7. \A g \in Handlers : g # h =>
          /\ cache'[g] = cache[g] /\ dirty'[g] = dirty[g] /\ appended'[g] = appended[g]
          /\ flusher'[g] = flusher[g] /\ excused'[g] = excused[g]
    BY <1>6, <1>9, <2>3, <2>4
  <2> QED BY <1>2, <1>3, <1>10, <1>11, <1>12, <1>13, <2>5, <2>6, <2>7, HistoryAssumption, OwnerMoves
<1>15. CASE FlushFails(c)
  <2>1. UNCHANGED <<excused, dirty>>
    BY <1>15 DEF FlushFails, StayDirty
  <2>2. HistoryTyped'
    BY <1>1, <1>6, <1>8, <1>9, <2>1 DEF HistoryTyped
  <2>3. ASSUME excused'[h] = {} PROVE HistoryStands(h)'
    <3>1. HistoryStands(h)
      BY <2>1, <2>3 DEF HistoryInv
    <3>2. dirty[h] > 0 /\ dirty[h] \in Nat
      BY <1>1, <1>5, OwnersAreClients DEF HistoryInv, FlusherAt, HistoryTyped
    <3>3. cache[h] # Absent
      BY <1>1, <3>2 DEF HistoryTyped
    <3>4. CacheAhead(h)'
      BY <1>3, <1>6, <2>1, <3>1, <3>3 DEF HistoryStands, CacheAhead, Written
    <3> QED BY <1>6, <1>9, <3>3, <3>4 DEF HistoryStands
  <2>4. \A g \in Handlers : g # h =>
          /\ cache'[g] = cache[g] /\ dirty'[g] = dirty[g] /\ appended'[g] = appended[g]
          /\ flusher'[g] = flusher[g] /\ excused'[g] = excused[g]
    BY <1>6, <1>9, <2>1
  <2> QED BY <1>2, <1>3, <1>10, <1>11, <1>12, <1>13, <2>2, <2>3, <2>4, HistoryAssumption, OwnerMoves
<1> QED BY <1>14, <1>15

(* What changes a handler's record without being the handler's own excuses   *)
(* it, and nothing else does.                                                *)
LEMMA ForeignDoes ==
  ASSUME HistoryInv, NEW own, Foreign(own)
  PROVE  /\ DOMAIN excused' = Handlers
         /\ \A h \in Handlers : excused'[h] = {} =>
              excused[h] = {} /\ (h \in own \/ stored'[HistoryOf[h]] = stored[HistoryOf[h]])
<1>1. DOMAIN excused' = Handlers
  BY DEF Foreign
<1>2. ASSUME NEW h \in Handlers, excused'[h] = {}
      PROVE  excused[h] = {} /\ (h \in own \/ stored'[HistoryOf[h]] = stored[HistoryOf[h]])
  <2>1. excused'[h] = IF stored'[HistoryOf[h]] # stored[HistoryOf[h]] /\ h \notin own
                      THEN excused[h] \cup {"foreign"} ELSE excused[h]
    BY DEF Foreign
  <2> QED BY <1>2, <2>1
<1> QED BY <1>1, <1>2

(* Steps in which no client of a handler moves.                              *)
LEMMA OthersMove ==
  ASSUME HistoryAssumption, HistoryInv, StorageInv',
         UNCHANGED <<cache, dirty, flusher, fpc, appended>>,
         \A w \in Owners : op'[w] = op[w], DOMAIN excused' = Handlers,
         \A h \in Handlers : excused'[h] = {} =>
           excused[h] = {} /\ stored'[HistoryOf[h]] = stored[HistoryOf[h]]
  PROVE  HistoryInv'
<1>1. HistoryTyped'
  BY DEF HistoryInv, HistoryTyped
<1>2. ASSUME NEW w \in Owners PROVE OwnerAt(w)'
  <2>1. OwnerAt(w) /\ op'[w] = op[w]
    BY DEF HistoryInv
  <2> QED BY <2>1 DEF OwnerAt, AtFlush
<1>3. ASSUME NEW h \in Handlers PROVE FlusherAt(h)' /\ (excused'[h] = {} => HistoryStands(h)')
  BY OtherStands
<1> QED BY <1>1, <1>2, <1>3 DEF HistoryInv

(* The service's step of a handler's own operation: a read's answer is what  *)
(* is stored, a write's is what it stored.                                   *)
LEMMA OwnBackendKeeps ==
  ASSUME StorageAssumption, HistoryAssumption, HistoryInv, NEW c \in Owners, Backend(c),
         Foreign({HandlerOf[c]}), UNCHANGED <<cache, persisted, dirty, flusher, fpc, appended>>
  PROVE  HistoryInv'
<1>1. HistoryTyped /\ StorageInv /\ c \in Clients
  BY OwnersAreClients DEF HistoryInv
<1>2. PICK h \in Handlers : h = HandlerOf[c]
  BY OwnersAreClients
<1>3. StorageInv' /\ MovesOp(c)
  BY <1>1, StorageAssumption, BackendMoves
<1>4. PICK N : op' = [op EXCEPT ![c] = N] /\ OpMoves(op[c], N) /\ Brings(c, N)
  BY <1>3 DEF MovesOp
<1>5. op'[c] = N /\ \A v \in Owners : v # c => op'[v] = op[v]
  BY <1>1, <1>4, OwnersAreClients DEF StorageInv, StorageTyped
<1>6. /\ N.kind = op[c].kind /\ N.rec = op[c].rec /\ N.val = op[c].val /\ N.pc # "idle"
      /\ op[c].pc \notin {"idle", "done"}
  BY <1>4 DEF OpMoves
<1>7. OwnerAt(c) /\ (fpc[c] = "loading" \/ AtFlush(c))
  BY <1>6 DEF HistoryInv, OwnerAt
<1>8. OwnerAt(c)'
  BY <1>2, <1>5, <1>6, <1>7 DEF OwnerAt, AtFlush
<1>9. op[c].rec = HistoryOf[h] /\ HistoryOf[h] \in Records
  BY <1>2, <1>7, OwnersAreClients DEF OwnerAt
<1>10. /\ DOMAIN excused' = Handlers
       /\ \A g \in Handlers : excused'[g] = {} =>
            excused[g] = {} /\ (g = h \/ stored'[HistoryOf[g]] = stored[HistoryOf[g]])
  BY <1>2, ForeignDoes
<1>11. HistoryTyped'
  BY <1>1, <1>10 DEF HistoryTyped
<1>12. ASSUME NEW w \in Owners PROVE OwnerAt(w)'
  <2>1. CASE w = c
    BY <1>8, <2>1
  <2>2. CASE w # c
    <3>1. OwnerAt(w) /\ op'[w] = op[w]
      BY <1>5, <2>2 DEF HistoryInv
    <3> QED BY <3>1 DEF OwnerAt, AtFlush
  <2> QED BY <2>1, <2>2
<1>13. ASSUME NEW g \in Handlers, g # h PROVE FlusherAt(g)' /\ (excused'[g] = {} => HistoryStands(g)')
  <2>1. \A w \in Owners : HandlerOf[w] = g => op'[w] = op[w] /\ fpc'[w] = fpc[w]
    BY <1>2, <1>5, <1>13
  <2>2. excused'[g] = {} => excused[g] = {} /\ stored'[HistoryOf[g]] = stored[HistoryOf[g]]
    BY <1>10, <1>13
  <2> QED BY <2>1, <2>2, OtherStands
<1>14. FlusherAt(h)'
  <2>1. FlusherAt(h)
    BY DEF HistoryInv
  <2> QED BY <2>1 DEF FlusherAt, AtFlush
<1>15. ASSUME excused'[h] = {} PROVE HistoryStands(h)'
  <2>1. HistoryStands(h)
    BY <1>10, <1>15 DEF HistoryInv
  <2>2. CASE fpc[c] = "loading"
    <3>1. op[c].kind = "read" /\ stored' = stored
      BY <1>4, <1>7, <2>2 DEF OwnerAt, Brings
    <3>2. flusher[h] # Nobody => flusher[h] \in Owners /\ flusher[h] # c
      <4>1. ~AtFlush(c)
        BY <2>2 DEF AtFlush
      <4> QED BY <4>1, FlusherIsOther
    <3>3. (cache[h] # Absent => CacheAhead(h))'
      BY <2>1, <3>1 DEF HistoryStands, CacheAhead, Written
    <3>4. (flusher[h] # Nobody => FlushUnderWay(h))'
      BY <1>5, <2>1, <3>1, <3>2 DEF HistoryStands, FlushUnderWay, Written
    <3>5. ASSUME cache'[h] = Absent, NEW v \in Owners, HandlerOf[v] = h, fpc'[v] = "loading",
                 op'[v].pc = "done", op'[v].out = Ok
          PROVE  Written(h)' = op'[v].seen
      <4>1. CASE v = c
        <5>1. N.seen = stored'[op[c].rec]
          BY <1>4, <1>5, <3>1, <3>5, <4>1 DEF Brings
        <5> QED BY <1>5, <1>9, <4>1, <5>1 DEF Written
      <4>2. CASE v # c
        BY <1>5, <2>1, <3>1, <3>5, <4>2 DEF HistoryStands, Written
      <4> QED BY <4>1, <4>2
    <3> QED BY <3>3, <3>4, <3>5 DEF HistoryStands
  <2>3. CASE AtFlush(c)
    <3>1. flusher[h] = c /\ op[c].val \in Histories /\ op[c].val \notin Misfits
          /\ op[c].kind \in {"update", "upsert"}
      BY <1>2, <1>7, <2>3 DEF OwnerAt
    <3>2. flusher[h] # Nobody /\ dirty[h] \in Nat /\ dirty[h] > 0 /\ cache[h] # Absent
      BY <1>1, <3>1, OwnersAreClients DEF HistoryInv, FlusherAt, HistoryTyped
    <3>3. CacheAhead(h) /\ FlushUnderWay(h)
      BY <2>1, <3>2 DEF HistoryStands
    <3>4. Written(h)' = Written(h) \/ Written(h)' = op[c].val
      BY <1>4, <1>9, <3>1 DEF Brings, Written
    <3>5. Leads(op[c].val, cache[h])
      BY <3>1, <3>3 DEF FlushUnderWay
    <3>6. Leads(op[c].val, op[c].val)
      BY <3>1, LeadsItself
    <3>7. CacheAhead(h)'
      BY <3>2, <3>3, <3>4, <3>5 DEF CacheAhead
    <3>8. Validates(Written(h)') => Leads(Written(h)', op[c].val)
      BY <3>1, <3>3, <3>4, <3>6 DEF FlushUnderWay
    <3>9. N.pc = "done" /\ N.out = Ok => Written(h)' = op[c].val
      BY <1>4, <1>9, <3>1 DEF Brings, Written
    <3>10. FlushUnderWay(h)'
      BY <1>5, <1>6, <3>1, <3>5, <3>8, <3>9 DEF FlushUnderWay
    <3> QED BY <3>1, <3>2, <3>7, <3>10 DEF HistoryStands
  <2> QED BY <1>7, <2>2, <2>3
<1>16. ASSUME NEW g \in Handlers PROVE FlusherAt(g)' /\ (excused'[g] = {} => HistoryStands(g)')
  BY <1>13, <1>14, <1>15
<1> QED BY <1>3, <1>11, <1>12, <1>16 DEF HistoryInv

(* A step of the service: for a handler's client, for a visitor, or late.    *)
LEMMA StorageKeeps ==
  ASSUME StorageAssumption, HistoryAssumption, HistoryInv, Storage PROVE HistoryInv'
<1>1. UNCHANGED <<cache, persisted, dirty, flusher, fpc, appended>> /\ StorageInv
  BY DEF Storage, HistoryInv
<1>2. ASSUME NEW c \in Clients, Backend(c), Foreign(Owned(c)) PROVE HistoryInv'
  <2>1. CASE c \in Owners
    <3>1. Owned(c) = {HandlerOf[c]}
      BY <2>1, OwnersAreClients DEF Owned
    <3> QED BY <1>1, <1>2, <2>1, <3>1, StorageAssumption, HistoryAssumption, OwnBackendKeeps
  <2>2. CASE c \in Visitors
    <3>1. Owned(c) = {}
      BY <2>2 DEF Owned
    <3>2. StorageInv' /\ MovesOp(c)
      BY <1>1, <1>2, StorageAssumption, BackendMoves
    <3>3. PICK N : op' = [op EXCEPT ![c] = N]
      BY <3>2 DEF MovesOp
    <3>4. \A w \in Owners : op'[w] = op[w]
      BY <1>1, <2>2, <3>3, OwnersAreClients DEF StorageInv, StorageTyped
    <3>5. /\ DOMAIN excused' = Handlers
          /\ \A h \in Handlers : excused'[h] = {} =>
               excused[h] = {} /\ stored'[HistoryOf[h]] = stored[HistoryOf[h]]
      BY <1>2, <3>1, ForeignDoes
    <3> QED BY <1>1, <3>2, <3>4, <3>5, HistoryAssumption, OthersMove
  <2> QED BY <2>1, <2>2, OwnersAreClients
<1>3. ASSUME LateEffect, Foreign({}) PROVE HistoryInv'
  <2>1. StorageInv' /\ op' = op
    BY <1>1, <1>3, StorageAssumption, LateMoves
  <2>2. /\ DOMAIN excused' = Handlers
        /\ \A h \in Handlers : excused'[h] = {} =>
             excused[h] = {} /\ stored'[HistoryOf[h]] = stored[HistoryOf[h]]
    BY <1>3, ForeignDoes
  <2> QED BY <1>1, <2>1, <2>2, HistoryAssumption, OthersMove
<1> QED BY <1>2, <1>3 DEF Storage

(* A visitor's operation begins, or its result is taken.                     *)
LEMMA VisitorKeeps ==
  ASSUME StorageAssumption, HistoryAssumption, HistoryInv, NEW v \in Visitors,
         Visit(v) \/ Leave(v)
  PROVE  HistoryInv'
<1>1. UNCHANGED <<cache, dirty, flusher, fpc, appended, excused>>
  BY DEF Visit, Leave, hvars
<1>2. v \in Clients /\ v \notin Owners /\ StorageInv /\ HistoryTyped
  BY OwnersAreClients DEF HistoryInv
<1>3. StorageInv' /\ stored' = stored /\ \E N : op' = [op EXCEPT ![v] = N]
  <2>1. CASE Visit(v)
    <3>1. PICK r \in Records :
            \/ Read(v, r) \/ Delete(v, r) \/ List(v, r) \/ Wipe(v, r)
            \/ \E x \in Values : Store(v, r, x) \/ Update(v, r, x) \/ Upsert(v, r, x)
      BY <2>1 DEF Visit
    <3>2. Absent \in Payload /\ \A x \in Values : x \in Payload
      BY ValidIsHistory
    <3>3. ASSUME NEW kind \in Locking, NEW x \in Payload, Call(v, kind, r, x)
          PROVE  StorageInv' /\ stored' = stored /\ \E N : op' = [op EXCEPT ![v] = N]
      <4>1. v \in Clients /\ StorageInv
        BY <1>2
      <4>2. /\ StorageInv' /\ stored' = stored
            /\ \E N : /\ op' = [op EXCEPT ![v] = N]
                      /\ N.kind = kind /\ N.rec = r /\ N.val = x /\ N.pc = "waiting"
        BY <3>3, <4>1, StorageAssumption, CallStarts
      <4> QED BY <4>2
    <3>4. ASSUME NEW kind \in {"list", "wipe"}, CallUnlocked(v, kind, r)
          PROVE  StorageInv' /\ stored' = stored /\ \E N : op' = [op EXCEPT ![v] = N]
      BY <1>2, <3>4, StorageAssumption, UnlockedStarts
    <3>5. {"read", "remove", "store", "update", "upsert"} \subseteq Locking
      BY DEF Locking
    <3>6. CASE Read(v, r) \/ Delete(v, r)
      BY <3>2, <3>3, <3>5, <3>6 DEF Read, Delete
    <3>7. CASE List(v, r) \/ Wipe(v, r)
      BY <3>4, <3>7 DEF List, Wipe
    <3>8. CASE \E x \in Values : Store(v, r, x) \/ Update(v, r, x) \/ Upsert(v, r, x)
      BY <3>2, <3>3, <3>5, <3>8 DEF Store, Update, Upsert
    <3> QED BY <3>1, <3>6, <3>7, <3>8
  <2>2. CASE Leave(v)
    BY <1>2, <2>2, StorageAssumption, ReturnsIdle DEF Leave
  <2> QED BY <2>1, <2>2
<1>4. \A w \in Owners : op'[w] = op[w]
  BY <1>2, <1>3, OwnersAreClients DEF StorageInv, StorageTyped
<1>5. DOMAIN excused' = Handlers
  BY <1>1, <1>2 DEF HistoryTyped
<1> QED BY <1>1, <1>3, <1>4, <1>5, HistoryAssumption, OthersMove

(* Every step of the histories keeps their invariant.                        *)
LEMMA HistoryGoesOn ==
  ASSUME StorageAssumption, HistoryAssumption, HistoryInv, [HistoryNext]_fhvars PROVE HistoryInv'
<1>1. CASE UNCHANGED fhvars
  <2>1. UNCHANGED <<stored, locks, made, op, late, disturbed>>
        /\ UNCHANGED <<cache, dirty, flusher, fpc, appended, excused>>
    BY <1>1 DEF fhvars, svars, hvars
  <2>2. StorageInv'
    BY <2>1 DEF HistoryInv, StorageInv, StorageTyped, OneHolds, SameLock
  <2>3. DOMAIN excused' = Handlers
    BY <2>1 DEF HistoryInv, HistoryTyped
  <2> QED BY <2>1, <2>2, <2>3, HistoryAssumption, OthersMove
<1>2. CASE \E w \in Writers : AppendCached(w) \/ LoadHistory(w) \/ Loaded(w) \/ LoadRefused(w)
  BY <1>2, StorageAssumption, HistoryAssumption, AppendCachedKeeps, LoadHistoryKeeps, LoadedKeeps,
     LoadRefusedKeeps
<1>3. CASE \E c \in Owners :
             Flush(c) \/ NothingToFlush(c) \/ WriteHistory(c) \/ Flushed(c) \/ FlushFails(c)
  BY <1>3, StorageAssumption, HistoryAssumption, FlushKeeps, WriteHistoryKeeps, FlushEndsKeeps
<1>4. CASE \E v \in Visitors : Visit(v) \/ Leave(v)
  BY <1>4, StorageAssumption, HistoryAssumption, VisitorKeeps
<1>5. CASE Storage
  BY <1>5, StorageAssumption, HistoryAssumption, StorageKeeps
<1> QED BY <1>1, <1>2, <1>3, <1>4, <1>5 DEF HistoryNext, Owners

(* Handlers that have loaded nothing satisfy it.                             *)
LEMMA HistoryBegins ==
  ASSUME StorageAssumption, HistoryAssumption, HistoryInit PROVE HistoryInv
<1>1. StorageInit
  BY DEF HistoryInit
<1>2. Values \subseteq Histories
  BY DEF HistoryAssumption, Histories
<1>3. StorageTyped
  BY <1>1, <1>2, NoOpIsIdle DEF StorageInit, StorageTyped, Holdings
<1>4. \A c \in Clients : op[c] = NoOp
  BY <1>1 DEF StorageInit
<1>5. ~Engaged(NoOp) /\ \A s : OpStands(NoOp, s, locks, stored, disturbed)
  BY NoOpIsIdle DEF Engaged, OpStands
<1>6. StorageInv
  BY <1>3, <1>4, <1>5 DEF StorageInv, OneHolds
<1>7. Absent \in Payload
  BY ValidIsHistory
<1>8. HistoryTyped
  BY <1>7 DEF HistoryInit, HistoryTyped, Owners, Places
<1>9. ASSUME NEW c \in Owners PROVE OwnerAt(c)
  <2>1. fpc[c] = "idle" /\ op[c].pc = "idle"
    BY <1>4, NoOpIsIdle, OwnersAreClients DEF HistoryInit, Owners
  <2> QED BY <2>1 DEF OwnerAt, AtFlush
<1>10. ASSUME NEW h \in Handlers PROVE FlusherAt(h) /\ HistoryStands(h)
  <2>1. flusher[h] = Nobody /\ cache[h] = Absent
    BY DEF HistoryInit
  <2>2. \A w \in Owners : fpc[w] # "loading"
    BY DEF HistoryInit, Owners
  <2> QED BY <2>1, <2>2 DEF FlusherAt, HistoryStands
<1> QED BY <1>6, <1>8, <1>9, <1>10 DEF HistoryInv

(* So it holds of every behaviour of the histories.                          *)
LEMMA HistoryInvAlways == HistorySpec => []HistoryInv
<1>1. HistoryInit => HistoryInv
  BY StorageAssumption, HistoryAssumption, HistoryBegins
<1>2. HistoryInv /\ [HistoryNext]_fhvars => HistoryInv'
  BY StorageAssumption, HistoryAssumption, HistoryGoesOn
<1> QED BY <1>1, <1>2, PTL DEF HistorySpec

(* What a handler appended is stored when its history is clean, for the      *)
(* cache leads on from what is stored and is it when nothing is dirty; and   *)
(* two operations of a strategy are not at a record at once, for those whose *)
(* locks order them hold the same lock.                                      *)
THEOREM AppendsKept == HistorySpec => []AppendsAreKept
<1>1. ASSUME HistoryInv PROVE OneAtATime
  <2>1. SUFFICES ASSUME NEW c \in Clients, NEW d \in Clients, Engaged(op[c]), Engaged(op[d]),
                        StrategyOf[c] = StrategyOf[d], op[c].rec = op[d].rec,
                        <<StrategyOf[c], op[c].rec>> \notin disturbed
                 PROVE  c = d
    BY DEF OneAtATime, Engaged
  <2>2. OpStands(op[c], StrategyOf[c], locks, stored, disturbed)
        /\ OpStands(op[d], StrategyOf[d], locks, stored, disturbed)
    BY <1>1 DEF HistoryInv, StorageInv
  <2>3. op[c].lk = locks[StrategyOf[c]][op[c].rec]
    BY <2>1, <2>2 DEF OpStands, Engaged
  <2>4. op[d].lk = locks[StrategyOf[c]][op[c].rec]
    BY <2>1, <2>2 DEF OpStands, Engaged
  <2> QED BY <1>1, <2>1, <2>3, <2>4 DEF HistoryInv, StorageInv, OneHolds, SameLock
<1>2. ASSUME HistoryInv PROVE FilesKept
  <2>1. SUFFICES ASSUME NEW h \in Handlers, excused[h] = {}, dirty[h] = 0, appended[h] # {}
                 PROVE  Readable(HistoryOf[h]) /\ appended[h] \subseteq ToSet(stored[HistoryOf[h]])
    BY DEF FilesKept
  <2>2. cache[h] # Absent /\ HistoryStands(h)
    BY <1>2, <2>1 DEF HistoryInv, HistoryTyped
  <2>3. CacheAhead(h)
    BY <2>2 DEF HistoryStands
  <2>4. stored[HistoryOf[h]] = cache[h] /\ cache[h] \notin Misfits
        /\ appended[h] \subseteq ToSet(cache[h])
    BY <2>1, <2>3 DEF CacheAhead, Written
  <2> QED BY <2>2, <2>4 DEF Readable
<1>3. HistoryInv => AppendsAreKept
  BY <1>1, <1>2 DEF AppendsAreKept
<1> QED BY <1>3, HistoryInvAlways, PTL

(* A beginning of a history is its prefix.                                   *)
LEMMA LeadIsPrefix ==
  ASSUME NEW s \in Histories, NEW t \in Histories, Leads(s, t) PROVE IsPrefix(s, t)
<1>1. PICK m \in Nat : m = Len(s)
  BY DEF Histories
<1>2. PICK n \in Nat : n = Len(t)
  BY DEF Histories
<1>3. m <= n /\ \A i \in 1..m : s[i] = t[i]
  BY <1>1, <1>2 DEF Leads
<1>4. \A i \in 1..m : s[i] \in HistoryFiles
  BY <1>1 DEF Histories
<1>5. \A i \in 1..m : t[i] \in HistoryFiles
  BY <1>3, <1>4
<1>6. PICK a : a = SubSeq(s, 1, m)
  OBVIOUS
<1>7. PICK b : b = SubSeq(t, 1, m)
  OBVIOUS
<1>8. a \in Seq(HistoryFiles) /\ Len(a) = (IF 1 <= m THEN m - 1 + 1 ELSE 0)
      /\ \A i \in 1..m - 1 + 1 : a[i] = s[1 + i - 1]
  BY <1>4, <1>6, SubSeqProperties
<1>9. b \in Seq(HistoryFiles) /\ Len(b) = (IF 1 <= m THEN m - 1 + 1 ELSE 0)
      /\ \A i \in 1..m - 1 + 1 : b[i] = t[1 + i - 1]
  BY <1>5, <1>7, SubSeqProperties
<1>10. Len(a) = m /\ Len(b) = m
  BY <1>8, <1>9
<1>11. \A i \in 1..m : a[i] = s[i] /\ b[i] = t[i]
  <2>1. \A i \in 1..m : i \in 1..m - 1 + 1 /\ 1 + i - 1 = i
    OBVIOUS
  <2> QED BY <1>8, <1>9, <2>1
<1>12. \A i \in 1..m : a[i] = b[i]
  BY <1>3, <1>11
<1>13. a = b
  BY <1>8, <1>9, <1>10, <1>12, SeqEqual
<1> QED BY <1>1, <1>2, <1>3, <1>6, <1>7, <1>13 DEF IsPrefix

Rests(c) ==
  /\ op[c].pc \in {"idle", "done"} /\ stored' = stored
  /\ \E N : op' = [op EXCEPT ![c] = N]

(* Outside the service, a client is where an operation begins or has ended,  *)
(* and the service holds what it held.                                       *)
LEMMA OthersRest ==
  ASSUME HistoryAssumption, [HistoryNext]_fhvars
  PROVE  Storage \/ UNCHANGED <<op, stored>> \/ \E c \in Clients : Rests(c)
<1>1. \A c, kind, r, x : Call(c, kind, r, x) => Rests(c)
  BY DEF Call, Rests
<1>2. \A c, kind, r : CallUnlocked(c, kind, r) => Rests(c)
  BY DEF CallUnlocked, Rests
<1>3. \A c : Return(c) => Rests(c)
  BY DEF Return, Rests
<1>4. CASE UNCHANGED fhvars
  BY <1>4 DEF fhvars, svars
<1>5. ASSUME NEW w \in Writers, AppendCached(w) \/ LoadHistory(w) \/ Loaded(w) \/ LoadRefused(w)
      PROVE  UNCHANGED <<op, stored>> \/ Rests(w)
  <2>1. CASE AppendCached(w)
    BY <2>1 DEF AppendCached, svars
  <2>2. CASE LoadHistory(w)
    BY <1>1, <2>2 DEF LoadHistory, Read
  <2>3. CASE Loaded(w) \/ LoadRefused(w)
    BY <1>3, <2>3 DEF Loaded, LoadRefused
  <2> QED BY <1>5, <2>1, <2>2, <2>3
<1>6. ASSUME NEW c \in Owners,
             Flush(c) \/ NothingToFlush(c) \/ WriteHistory(c) \/ Flushed(c) \/ FlushFails(c)
      PROVE  UNCHANGED <<op, stored>> \/ Rests(c)
  <2>1. CASE Flush(c) \/ NothingToFlush(c)
    BY <2>1 DEF Flush, NothingToFlush, svars
  <2>2. CASE WriteHistory(c)
    BY <1>1, <2>2 DEF WriteHistory, Update, Upsert
  <2>3. CASE Flushed(c) \/ FlushFails(c)
    BY <1>3, <2>3 DEF Flushed, FlushFails
  <2> QED BY <1>6, <2>1, <2>2, <2>3
<1>7. ASSUME NEW v \in Visitors, Visit(v) \/ Leave(v) PROVE Rests(v)
  <2>1. CASE Leave(v)
    BY <1>3, <2>1 DEF Leave
  <2>2. CASE Visit(v)
    <3>1. PICK r \in Records :
            \/ Read(v, r) \/ Delete(v, r) \/ List(v, r) \/ Wipe(v, r)
            \/ \E x \in Values : Store(v, r, x) \/ Update(v, r, x) \/ Upsert(v, r, x)
      BY <2>2 DEF Visit
    <3>2. Read(v, r) \/ Delete(v, r) => Rests(v)
      BY <1>1 DEF Read, Delete
    <3>3. List(v, r) \/ Wipe(v, r) => Rests(v)
      BY <1>2 DEF List, Wipe
    <3>4. \A x \in Values : Store(v, r, x) \/ Update(v, r, x) \/ Upsert(v, r, x) => Rests(v)
      BY <1>1 DEF Store, Update, Upsert
    <3> QED BY <3>1, <3>2, <3>3, <3>4
  <2> QED BY <1>7, <2>1, <2>2
<1> QED BY <1>4, <1>5, <1>6, <1>7, OwnersAreClients DEF HistoryNext, Owners

(* An upsert that is refused is, by a step of the service: the read before   *)
(* it was of what is there still, or its pair is disturbed.                  *)
LEMMA UpsertRefused ==
  ASSUME StorageAssumption, HistoryAssumption, HistoryInv, [HistoryNext]_fhvars,
         NEW c \in Clients, op[c].kind = "upsert", Busy(c), op'[c].out = Raised
  PROVE  <<StrategyOf[c], op[c].rec>> \in disturbed' \/ stored[op[c].rec] \in Misfits
<1>1. StorageInv /\ op \in [Clients -> OpRecords]
  BY DEF HistoryInv, StorageInv, StorageTyped
<1>2. op'[c] # op[c]
  <2>1. OpStands(op[c], StrategyOf[c], locks, stored, disturbed)
    BY <1>1 DEF StorageInv
  <2>2. op[c].pc # "done"
    BY DEF Busy
  <2> QED BY <2>1, <2>2 DEF OpStands, Ok, Raised
<1>3. ASSUME NEW d \in Clients, Rests(d) PROVE FALSE
  <2>1. d # c
    BY <1>3 DEF Rests, Busy
  <2>2. op'[c] = op[c]
    BY <1>1, <1>3, <2>1 DEF Rests
  <2> QED BY <1>2, <2>2
<1>4. Storage
  BY <1>2, <1>3, HistoryAssumption, OthersRest
<1>5. ~LateEffect
  BY <1>1, <1>2, StorageAssumption, LateMoves
<1>6. PICK d \in Clients : Backend(d)
  BY <1>4, <1>5 DEF Storage
<1>7. StorageInv' /\ MovesOp(d)
  BY <1>1, <1>6, StorageAssumption, BackendMoves
<1>8. PICK N : op' = [op EXCEPT ![d] = N] /\ OpMoves(op[d], N) /\ Brings(d, N)
  BY <1>7 DEF MovesOp
<1>9. d = c
  BY <1>1, <1>2, <1>8
<1>10. op'[c] = N
  BY <1>1, <1>8, <1>9
<1>11. N.pc = "done" /\ N.out = Raised
  <2>1. OpStands(op'[c], StrategyOf[c], locks', stored', disturbed')
    BY <1>7 DEF StorageInv
  <2> QED BY <1>10, <2>1 DEF OpStands, Ok, Raised
<1> QED BY <1>8, <1>9, <1>11 DEF Brings

(* What changes a history nothing excuses is its own flush, and that writes  *)
(* on from what is stored.                                                   *)
LEMMA HistoryOnlyGrows ==
  ASSUME StorageAssumption, HistoryAssumption, HistoryInv, [HistoryNext]_fhvars,
         NEW h \in Handlers, excused'[h] = {}, Readable(HistoryOf[h])
  PROVE  /\ stored'[HistoryOf[h]] # Absent
         /\ IsPrefix(stored[HistoryOf[h]], stored'[HistoryOf[h]])
<1>1. StorageInv /\ HistoryOf[h] \in Records /\ stored \in [Records -> Holdings]
  BY OwnersAreClients DEF HistoryInv, StorageInv, StorageTyped
<1>2. Validates(Written(h)) /\ Written(h) \in Holdings
  BY <1>1 DEF Readable, Validates, Written
<1>3. Written(h) \in Histories /\ Written(h) # Absent
  BY <1>2, ValidIsHistory DEF Validates
<1>4. CASE stored'[HistoryOf[h]] = stored[HistoryOf[h]]
  <2>1. IsPrefix(Written(h), Written(h))
    BY <1>3, LeadsItself, LeadIsPrefix
  <2> QED BY <1>3, <1>4, <2>1 DEF Written
<1>5. CASE stored'[HistoryOf[h]] # stored[HistoryOf[h]]
  <2>1. stored' # stored
    BY <1>5
  <2>2. Storage
    BY <2>1, HistoryAssumption, OthersRest DEF Rests
  <2>3. ASSUME LateEffect, Foreign({}) PROVE FALSE
    BY <1>5, <2>3, ForeignDoes
  <2>4. PICK c \in Clients : Backend(c) /\ Foreign(Owned(c))
    BY <2>2, <2>3 DEF Storage
  <2>5. excused[h] = {} /\ h \in Owned(c)
    BY <1>5, <2>4, ForeignDoes
  <2>6. c \in Owners /\ h = HandlerOf[c]
    BY <2>4, <2>5, OwnersAreClients DEF Owned
  <2>7. MovesOp(c)
    BY <1>1, <2>4, StorageAssumption, BackendMoves
  <2>8. PICK N : OpMoves(op[c], N) /\ Brings(c, N)
    BY <2>7 DEF MovesOp
  <2>9. op[c].pc # "idle" /\ OwnerAt(c)
    BY <2>6, <2>8 DEF OpMoves, HistoryInv
  <2>10. op[c].kind # "read"
    BY <2>1, <2>8 DEF Brings
  <2>11. AtFlush(c)
    BY <2>9, <2>10 DEF OwnerAt
  <2>12. /\ op[c].kind \in {"update", "upsert"} /\ op[c].rec = HistoryOf[h]
         /\ op[c].val \in Histories /\ flusher[h] = c
    BY <2>6, <2>9, <2>11 DEF OwnerAt
  <2>13. stored'[HistoryOf[h]] = op[c].val
    BY <1>1, <1>5, <2>8, <2>12 DEF Brings
  <2>14. FlushUnderWay(h)
    BY <2>5, <2>6, <2>12, OwnersAreClients DEF HistoryInv, HistoryStands
  <2>15. Leads(Written(h), op[c].val)
    BY <1>2, <2>12, <2>14 DEF FlushUnderWay
  <2>16. IsPrefix(Written(h), op[c].val) /\ op[c].val # Absent
    BY <1>3, <2>12, <2>15, LeadIsPrefix, ValidIsHistory
  <2> QED BY <2>13, <2>16 DEF Written
<1> QED BY <1>4, <1>5

(* No upsert is refused and no write shortens a history, but where the locks *)
(* could not order what happened or an excuse befell the handler.            *)
THEOREM WritesAdd == HistorySpec => WritesOnlyAdd
<1> DEFINE TakenUpsert ==
      \A c \in Clients :
        op[c].kind = "upsert" /\ op[c].pc \in {"inside", "writing"} /\ op'[c].out = Raised
          => <<StrategyOf[c], op[c].rec>> \in disturbed' \/ stored[op[c].rec] \in Misfits
<1> DEFINE Prefixed ==
      \A h \in Handlers :
        /\ excused'[h] = {}
        /\ Readable(HistoryOf[h])
        => stored'[HistoryOf[h]] # Absent /\ IsPrefix(stored[HistoryOf[h]], stored'[HistoryOf[h]])
<1>1. HistoryInv /\ [HistoryNext]_fhvars => TakenUpsert
  BY StorageAssumption, HistoryAssumption, UpsertRefused DEF Busy
<1>2. HistoryInv /\ [HistoryNext]_fhvars => Prefixed
  BY StorageAssumption, HistoryAssumption, HistoryOnlyGrows
<1>3. UpsertServed <=> [][TakenUpsert]_fhvars
  BY DEF UpsertServed
<1>4. HistoryGrows <=> [][Prefixed]_fhvars
  BY DEF HistoryGrows
<1> HIDE DEF TakenUpsert, Prefixed
<1> QED BY <1>1, <1>2, <1>3, <1>4, HistoryInvAlways, PTL DEF HistorySpec, WritesOnlyAdd

-----------------------------------------------------------------------------
(* The sides of the run are the components as they are on their own.         *)
LEMMA SidesAreComponents ==
  Spec => PoolSpec /\ QuerySpec /\ HistorySpec /\ StoreSpec /\ FilesSpec /\ CostSpec
<1> DEFINE vs == <<side, pvars, qvars, fhvars, stvars, flvars, covars>>
<1>1. Init => PoolInit /\ QueryInit /\ HistoryInit /\ StoreInit /\ FilesInit /\ CostInit
  BY DEF Init
<1>2. [Next]_vs => [PoolNext]_pvars
  BY DEF Next
<1>3. [Next]_vs => [QueryNext]_qvars
  BY DEF Next
<1>4. [Next]_vs => [StoreNext]_stvars
  BY DEF Next
<1>5. [Next]_vs => [FilesNext]_flvars
  BY DEF Next
<1>6. [Next]_vs => [CostNext]_covars
  BY DEF Next
<1>7. [Next]_vs => [HistoryNext]_fhvars
  BY DEF Next
<1> QED BY <1>1, <1>2, <1>3, <1>4, <1>5, <1>6, <1>7, PTL
        DEF Spec, PoolSpec, QuerySpec, HistorySpec, StoreSpec, FilesSpec, CostSpec

(* What is kept for a caller is what the caller was told, of records, files  *)
(* and costs at once, in the run that composes them and for any constants.   *)
THEOREM KeptForCallers == Spec => []KeptAsTold
<1>1. OutlivesItsRun /\ ServedAsRecorded /\ ChargedAsAdded => KeptAsTold
  BY DEF KeptAsTold
<1> QED BY <1>1, SidesAreComponents, RecordsOutlive, FilesAreTrue, ChargesAreAdded, PTL

(* Of the run's histories: what was appended is kept, and writes only add.   *)
THEOREM HistoriesOfRun == Spec => []AppendsAreKept /\ WritesOnlyAdd
BY SidesAreComponents, AppendsKept, WritesAdd, PTL
=============================================================================
