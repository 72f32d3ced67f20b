--------------------------- MODULE M2MCalls_proofs ---------------------------
(***************************************************************************)
(* The bookkeeping of module-to-module calls, for any number of calls,     *)
(* slots, outputs, dial-backs and any queue bound and failure threshold.   *)
(***************************************************************************)
EXTENDS M2MCalls, FiniteSetTheorems, SequenceTheorems, TLAPS

----------------------------------------------------------------------------
(* Types                                                                   *)

Stages == {"idle", "acquiring", "ended"} \cup HoldsSlot
Kept == Frames \cup {Sentinel}

TypeInv ==
  /\ pc \in [Calls -> Stages]
  /\ outcome \in [Calls -> Outcomes]
  /\ slots \in Nat
  /\ entries \subseteq Calls
  /\ queue \in [Calls -> Seq(Kept)]
  /\ \A c \in Calls : Len(queue[c]) <= QueueMax
  /\ breaker \in Breakers
  /\ accepted \subseteq Calls
  /\ sent \in [Calls -> Seq(Frames)]
  /\ dials \in [Calls -> 0..MaxDials]
  /\ open \in [Calls -> SUBSET (1..MaxDials)]
  /\ yielded \in [Calls -> Seq(Frames)]
  /\ faults \in [Calls -> SUBSET {"dropped", "broken", "reaped"}]
  /\ recorded \in [Calls -> Nat]

(* A breaker's methods return a breaker, tripped exactly at fail_max. *)
Tripped(b) == (b.state = "closed") <=> (b.fails < FailMax)

\* Each method of the breaker gives a breaker that is closed exactly below its limit.
LEMMA BreakerMethods ==
  /\ FreshBreaker \in Breakers /\ Tripped(FreshBreaker)
  /\ \A b \in Breakers : Tripped(b) =>
       /\ StateRead(b) \in Breakers /\ Tripped(StateRead(b))
       /\ RecordSuccess(b) \in Breakers /\ Tripped(RecordSuccess(b))
       /\ RecordFailure(b) \in Breakers /\ Tripped(RecordFailure(b))
       /\ b.state = "open" => CoolDown(b) \in Breakers /\ Tripped(CoolDown(b))
<1> USE FailMaxAssumption DEF Breakers, Tripped
<1>1. FreshBreaker \in Breakers /\ Tripped(FreshBreaker)
  BY DEF FreshBreaker
<1> SUFFICES ASSUME NEW b \in Breakers, Tripped(b)
             PROVE  /\ StateRead(b) \in Breakers /\ Tripped(StateRead(b))
                    /\ RecordSuccess(b) \in Breakers /\ Tripped(RecordSuccess(b))
                    /\ RecordFailure(b) \in Breakers /\ Tripped(RecordFailure(b))
                    /\ b.state = "open" => CoolDown(b) \in Breakers /\ Tripped(CoolDown(b))
  BY <1>1
<1>2. StateRead(b) \in Breakers /\ Tripped(StateRead(b))
  BY DEF StateRead
<1>3. RecordSuccess(b) \in Breakers /\ Tripped(RecordSuccess(b))
  BY <1>1 DEF RecordSuccess
<1>4. RecordFailure(b) \in Breakers /\ Tripped(RecordFailure(b))
  BY DEF RecordFailure
<1>5. b.state = "open" => CoolDown(b) \in Breakers /\ Tripped(CoolDown(b))
  BY DEF CoolDown
<1> QED
  BY <1>2, <1>3, <1>4, <1>5

(* put_nowait never lets a queue grow past its bound. *)
LEMMA EnqueueType ==
  ASSUME NEW q \in Seq(Kept), Len(q) <= QueueMax, NEW item \in Kept
  PROVE  Enqueue(q, item) \in Seq(Kept) /\ Len(Enqueue(q, item)) <= QueueMax
BY M2MAssumption DEF Enqueue

\* A queue never grows past its bound, full or not.
LEMMA DeliverType ==
  ASSUME NEW q \in Seq(Kept), Len(q) <= QueueMax, NEW f \in Frames
  PROVE  Deliver(q, f) \in Seq(Kept) /\ Len(Deliver(q, f)) <= QueueMax
<1>1. f \in Kept /\ Sentinel \in Kept
  BY DEF Kept
<1>2. Enqueue(q, f) \in Seq(Kept) /\ Len(Enqueue(q, f)) <= QueueMax
  BY <1>1, EnqueueType
<1>3. Enqueue(Enqueue(q, f), Sentinel) \in Seq(Kept)
        /\ Len(Enqueue(Enqueue(q, f), Sentinel)) <= QueueMax
  BY <1>1, <1>2, EnqueueType
<1> QED
  BY <1>2, <1>3 DEF Deliver

\* The target sends frames.
LEMMA NextFramesType ==
  ASSUME NEW s \in Seq(Frames) PROVE NextFrames(s) \subseteq Frames
BY M2MAssumption DEF NextFrames, Frames

\* However a call ends, its slot, its entry and its queue keep their types.
LEMMA EndType ==
  ASSUME TypeInv, NEW c \in Calls, NEW how \in Outcomes, End(c, how)
  PROVE  /\ pc' \in [Calls -> Stages] /\ outcome' \in [Calls -> Outcomes]
         /\ slots' \in Nat /\ entries' \subseteq Calls
         /\ queue' \in [Calls -> Seq(Kept)] /\ \A d \in Calls : Len(queue'[d]) <= QueueMax
         /\ accepted' \subseteq Calls /\ sent' \in [Calls -> Seq(Frames)]
         /\ dials' \in [Calls -> 0..MaxDials] /\ open' \in [Calls -> SUBSET (1..MaxDials)]
         /\ yielded' \in [Calls -> Seq(Frames)]
         /\ faults' \in [Calls -> SUBSET {"dropped", "broken", "reaped"}]
<1>1. <<>> \in Seq(Kept) /\ Len(<<>>) <= QueueMax
  BY M2MAssumption
<1>2. queue' \in [Calls -> Seq(Kept)] /\ \A d \in Calls : Len(queue'[d]) <= QueueMax
  BY <1>1 DEF End, TypeInv
<1> QED
  BY <1>2, M2MAssumption DEF End, TypeInv, Goto, ReleaseSlot, Unregister, Stages

\* At the start every variable has its type.
LEMMA TypeInit == Init => TypeInv /\ Tripped(breaker)
<1> SUFFICES ASSUME Init PROVE TypeInv /\ Tripped(breaker)
  OBVIOUS
<1>1. <<>> \in Seq(Kept) /\ <<>> \in Seq(Frames) /\ Len(<<>>) <= QueueMax
  BY M2MAssumption
<1> QED
  BY <1>1, M2MAssumption, BreakerMethods DEF Init, TypeInv, Stages, Outcomes

\* The ways in which a call ends, with what they leave in the breaker.
Ending(c) == \E how \in Outcomes \ {"none"} :
  \/ EndUnrecorded(c, how) /\ how \notin {"rejected", "returned", "timeout"}
       /\ breaker' \in {breaker, StateRead(breaker)}
  \/ EndRecording(c, how) /\ how \in {"rejected", "returned", "timeout"}
       /\ breaker' \in {RecordSuccess(breaker), RecordFailure(breaker)}

(* Every step of a call that is not one of the others ends it. *)
LEMMA StepKinds ==
  ASSUME NEW c \in Calls, CallStep(c)
  PROVE  \/ Ending(c) /\ pc[c] \in Stages \ {"ended"}
         \/ CallModule(c) /\ pc' = [pc EXCEPT ![c] = "acquiring"]
              /\ UNCHANGED <<outcome, slots, entries, queue, wire, yielded, faults, recorded>>
         \/ AcquireSlot(c) \/ Associate(c) \/ StartAccepted(c) \/ Yield(c) \/ Continue(c) \/ Cancel(c)
<1> USE DEF Ending, Stages, HoldsSlot, Outcomes
<1>1. CASE CallModule(c)
  BY <1>1 DEF CallModule, Goto
<1>2. CASE NotStarted(c)
  BY <1>2 DEF NotStarted
<1>3. CASE StartFails(c)
  BY <1>3 DEF StartFails
<1>4. CASE Return(c)
  BY <1>4 DEF Return
<1>5. CASE OutputTimeout(c)
  BY <1>5 DEF OutputTimeout
<1>6. CASE Abandon(c)
  BY <1>6 DEF Abandon
<1>7. CASE CallbackRaises(c)
  BY <1>7 DEF CallbackRaises
<1>8. CASE CancelEarly(c)
  BY <1>8 DEF CancelEarly
<1>9. CASE SignalSent(c)
  BY <1>9 DEF SignalSent
<1>10. CASE StartDenied(c)
  BY <1>10 DEF StartDenied
<1> QED
  BY <1>1, <1>2, <1>3, <1>4, <1>5, <1>6, <1>7, <1>8, <1>9, <1>10 DEF CallStep

\* Every step keeps the types and the meaning of an open breaker.
LEMMA TypeStep == TypeInv /\ Tripped(breaker) /\ [Next]_vars => TypeInv' /\ Tripped(breaker')
<1> SUFFICES ASSUME TypeInv, Tripped(breaker), [Next]_vars PROVE TypeInv' /\ Tripped(breaker')
  OBVIOUS
<1> USE DEF TypeInv
<1>1. CASE UNCHANGED vars
  BY <1>1 DEF vars
<1>2. CASE Cool
  BY <1>2, BreakerMethods DEF Cool, wire
<1>3. ASSUME NEW c \in Calls, CallStep(c) PROVE TypeInv' /\ Tripped(breaker')
  <2>1. CASE Ending(c)
    <3>1. PICK how \in Outcomes \ {"none"} :
            \/ EndUnrecorded(c, how) /\ breaker' \in {breaker, StateRead(breaker)}
            \/ EndRecording(c, how) /\ breaker' \in {RecordSuccess(breaker), RecordFailure(breaker)}
      BY <2>1 DEF Ending
    <3>2. breaker' \in Breakers /\ Tripped(breaker')
      BY <3>1, BreakerMethods
    <3>3. End(c, how) /\ recorded' \in [Calls -> Nat]
      <4>1. CASE EndUnrecorded(c, how)
        BY <4>1 DEF EndUnrecorded
      <4>2. CASE EndRecording(c, how)
        <5>1. recorded[c] + 1 \in Nat
          OBVIOUS
        <5> QED
          BY <4>2, <5>1 DEF EndRecording
      <4> QED
        BY <3>1, <4>1, <4>2
    <3>4. how \in Outcomes
      BY <3>1
    <3>5. TypeInv'
      BY <3>2, <3>3, <3>4, EndType
    <3> QED
      BY <3>2, <3>5
  <2>2. CASE CallModule(c) /\ pc' = [pc EXCEPT ![c] = "acquiring"]
              /\ UNCHANGED <<outcome, slots, entries, queue, wire, yielded, faults, recorded>>
    <3>1. breaker' = StateRead(breaker)
      BY <2>2 DEF CallModule
    <3>2. breaker' \in Breakers /\ Tripped(breaker')
      BY <3>1, BreakerMethods
    <3> QED
      BY <2>2, <3>2 DEF wire, Stages
  <2>3. CASE AcquireSlot(c)
    BY <2>3 DEF AcquireSlot, Goto, wire, Stages, HoldsSlot
  <2>4. CASE Associate(c)
    BY <2>4 DEF Associate, Goto, wire, Stages, HoldsSlot
  <2>5. CASE StartAccepted(c)
    BY <2>5 DEF StartAccepted, Goto, wire, Stages, HoldsSlot
  <2>6. CASE Yield(c)
    <3>1. queue[c] \in Seq(Kept) /\ queue[c] # <<>> /\ Head(queue[c]) # Sentinel
      BY <2>6 DEF Yield
    <3>2. Head(queue[c]) \in Frames
      BY <3>1 DEF Kept
    <3>3. Tail(queue[c]) \in Seq(Kept) /\ Len(Tail(queue[c])) <= QueueMax
      BY <3>1, M2MAssumption
    <3>4. Append(yielded[c], Head(queue[c])) \in Seq(Frames)
      BY <3>2
    <3>5. queue' \in [Calls -> Seq(Kept)] /\ \A d \in Calls : Len(queue'[d]) <= QueueMax
      BY <2>6, <3>3 DEF Yield
    <3>6. yielded' \in [Calls -> Seq(Frames)]
      BY <2>6, <3>4 DEF Yield
    <3> QED
      BY <2>6, <3>5, <3>6 DEF Yield, Goto, wire, Stages, HoldsSlot
  <2>7. CASE Continue(c)
    BY <2>7 DEF Continue, Goto, wire, Stages, HoldsSlot
  <2>8. CASE Cancel(c)
    BY <2>8 DEF Cancel, Goto, wire, Stages, HoldsSlot
  <2> QED
    BY <1>3, <2>1, <2>2, <2>3, <2>4, <2>5, <2>6, <2>7, <2>8, StepKinds
<1>4. ASSUME NEW c \in Calls, WireStep(c) PROVE TypeInv' /\ Tripped(breaker')
  <2>0. /\ Enqueue(queue[c], Sentinel) \in Seq(Kept)
        /\ Len(Enqueue(queue[c], Sentinel)) <= QueueMax
    BY EnqueueType DEF Kept
  <2>1. CASE RemoteAccepts(c)
    BY <2>1 DEF RemoteAccepts
  <2>2. CASE DialBack(c)
    <3>1. dials[c] + 1 \in 1..MaxDials
      BY <2>2, M2MAssumption DEF DialBack
    <3> QED
      BY <2>2, <3>1 DEF DialBack
  <2>3. CASE Receive(c)
    <3>1. PICK f \in NextFrames(sent[c]) :
            /\ sent' = [sent EXCEPT ![c] = Append(@, f)]
            /\ queue' = [queue EXCEPT ![c] = Deliver(@, f)]
            /\ open' = [open EXCEPT ![c] = IF Ends(f) THEN @ \ {dials[c]} ELSE @]
            /\ faults' = [faults EXCEPT ![c] = IF Len(queue[c]) < QueueMax THEN @ ELSE @ \cup {"dropped"}]
            /\ UNCHANGED <<pc, outcome, slots, entries, breaker, accepted, dials, yielded, recorded>>
      BY <2>3 DEF Receive
    <3>2. f \in Frames
      BY NextFramesType
    <3>3. Deliver(queue[c], f) \in Seq(Kept) /\ Len(Deliver(queue[c], f)) <= QueueMax
      BY <3>2, DeliverType
    <3>4. queue' \in [Calls -> Seq(Kept)] /\ \A d \in Calls : Len(queue'[d]) <= QueueMax
      <4>1. queue' = [queue EXCEPT ![c] = Deliver(queue[c], f)]
        BY <3>1
      <4>2. queue \in [Calls -> Seq(Kept)] /\ \A d \in Calls : Len(queue[d]) <= QueueMax
        OBVIOUS
      <4> HIDE DEF TypeOK
      <4> QED
        BY <4>1, <4>2, <3>3
    <3>5. Append(sent[c], f) \in Seq(Frames)
      <4>1. sent[c] \in Seq(Frames)
        OBVIOUS
      <4> HIDE DEF TypeOK
      <4> QED
        BY <4>1, <3>2
    <3>6. sent' \in [Calls -> Seq(Frames)]
      <4>1. sent \in [Calls -> Seq(Frames)] /\ sent' = [sent EXCEPT ![c] = Append(sent[c], f)]
        BY <3>1
      <4> HIDE DEF TypeOK
      <4> QED
        BY <4>1, <3>5
    <3>7. open' \in [Calls -> SUBSET (1..MaxDials)]
      BY <3>1
    <3>8. faults' \in [Calls -> SUBSET {"dropped", "broken", "reaped"}]
      BY <3>1
    <3> QED
      BY <3>1, <3>4, <3>6, <3>7, <3>8
  <2>4. CASE Break(c)
    <3>1. queue' \in [Calls -> Seq(Kept)] /\ \A d \in Calls : Len(queue'[d]) <= QueueMax
      <4>1. queue' = [queue EXCEPT ![c] = Enqueue(queue[c], Sentinel)] \/ queue' = queue
        BY <2>4 DEF Break
      <4>2. queue \in [Calls -> Seq(Kept)] /\ \A d \in Calls : Len(queue[d]) <= QueueMax
        OBVIOUS
      <4> HIDE DEF TypeOK
      <4> QED
        BY <2>0, <4>1, <4>2
    <3>2. open' \in [Calls -> SUBSET (1..MaxDials)]
      BY <2>4 DEF Break
    <3>3. faults' \in [Calls -> SUBSET {"dropped", "broken", "reaped"}]
      BY <2>4 DEF Break
    <3> QED
      BY <2>4, <3>1, <3>2, <3>3 DEF Break
  <2>5. CASE Sweep(c)
    <3>1. queue' \in [Calls -> Seq(Kept)] /\ \A d \in Calls : Len(queue'[d]) <= QueueMax
      BY <2>0, <2>5 DEF Sweep
    <3>2. breaker' \in Breakers /\ Tripped(breaker')
      BY <2>5, BreakerMethods DEF Sweep
    <3> QED
      BY <2>5, <3>1, <3>2 DEF Sweep, wire
  <2> QED
    BY <1>4, <2>1, <2>2, <2>3, <2>4, <2>5 DEF WireStep
<1> QED
  BY <1>1, <1>2, <1>3, <1>4 DEF Next

----------------------------------------------------------------------------
(* Entries and recorded outcomes                                           *)

(* What makes NoStaleEntry and RecordedOnce inductive: an outcome is known *)
(* exactly of a call that has ended, and a call is reaped only while it    *)
(* has an entry, which it then loses for good.                             *)
OutcomeAtEnd == \A c \in Calls : outcome[c] = "none" <=> pc[c] # "ended"

ReapedOnce ==
  \A c \in Calls : "reaped" \in faults[c] =>
    c \notin entries /\ pc[c] \notin {"idle", "acquiring", "associating"}

LedgerInv == OutcomeAtEnd /\ ReapedOnce /\ NoStaleEntry /\ RecordedOnce

\* At the start nothing is recorded and no call is registered.
LEMMA LedgerInit == Init => LedgerInv
BY DEF Init, LedgerInv, OutcomeAtEnd, ReapedOnce, NoStaleEntry, RecordedOnce

(* Once a call knows how it ended, each call's books still balance. *)
LEMMA LedgerEnding ==
  ASSUME TypeInv, LedgerInv, NEW c \in Calls, Ending(c), pc[c] # "ended"
  PROVE  LedgerInv'
<1> USE DEF TypeInv, LedgerInv
<1>1. PICK how \in Outcomes \ {"none"} :
        \/ EndUnrecorded(c, how) /\ how \notin {"rejected", "returned", "timeout"}
        \/ EndRecording(c, how) /\ how \in {"rejected", "returned", "timeout"}
  BY DEF Ending
<1>2. /\ pc' = [pc EXCEPT ![c] = "ended"]
      /\ outcome' = [outcome EXCEPT ![c] = how]
      /\ entries' = entries \ {c}
      /\ UNCHANGED faults
  BY <1>1 DEF EndUnrecorded, EndRecording, End, Goto, Unregister
<1>3. OutcomeAtEnd'
  BY <1>2 DEF OutcomeAtEnd
<1>4. ReapedOnce' /\ NoStaleEntry'
  BY <1>2 DEF ReapedOnce, NoStaleEntry
<1>5. outcome[c] = "none"
  BY DEF OutcomeAtEnd
<1>6. RecordedOnce'
  <2>1. CASE UNCHANGED recorded /\ how \notin {"rejected", "returned", "timeout"}
    BY <1>2, <1>5, <2>1 DEF RecordedOnce
  <2>2. CASE recorded' = [recorded EXCEPT ![c] = @ + 1] /\ how \in {"rejected", "returned", "timeout"}
    BY <1>2, <1>5, <2>2 DEF RecordedOnce
  <2> QED
    BY <1>1, <2>1, <2>2 DEF EndUnrecorded, EndRecording
<1> QED
  BY <1>3, <1>4, <1>6

\* Every step keeps each call's books balanced.
LEMMA LedgerStep == TypeInv /\ LedgerInv /\ [Next]_vars => LedgerInv'
<1> SUFFICES ASSUME TypeInv, LedgerInv, [Next]_vars PROVE LedgerInv'
  OBVIOUS
<1> USE DEF TypeInv, LedgerInv, OutcomeAtEnd, ReapedOnce, NoStaleEntry, RecordedOnce
<1>1. CASE UNCHANGED vars
  BY <1>1 DEF vars
<1>2. CASE Cool
  BY <1>2 DEF Cool, wire
<1>3. ASSUME NEW c \in Calls, CallStep(c) PROVE LedgerInv'
  <2>1. CASE Ending(c) /\ pc[c] \in Stages \ {"ended"}
    <3> USE DEF LedgerInv
    <3>1. pc[c] # "ended"
      BY <2>1
    <3> QED
      BY <2>1, <3>1, LedgerEnding
  <2>2. CASE CallModule(c) /\ pc' = [pc EXCEPT ![c] = "acquiring"]
              /\ UNCHANGED <<outcome, slots, entries, queue, wire, yielded, faults, recorded>>
    <3>1. pc[c] = "idle"
      BY <2>2 DEF CallModule
    <3> QED
      BY <2>2, <3>1 DEF Registered
  <2>3. CASE AcquireSlot(c)
    BY <2>3 DEF AcquireSlot, Goto, Registered
  <2>4. CASE Associate(c)
    BY <2>4 DEF Associate, Goto, Registered
  <2>5. CASE StartAccepted(c)
    BY <2>5 DEF StartAccepted, Goto, Registered
  <2>6. CASE Yield(c)
    BY <2>6 DEF Yield, Goto, Registered
  <2>7. CASE Continue(c)
    BY <2>7 DEF Continue, Goto, Registered
  <2>8. CASE Cancel(c)
    BY <2>8 DEF Cancel, Goto, Registered
  <2> QED
    BY <1>3, <2>1, <2>2, <2>3, <2>4, <2>5, <2>6, <2>7, <2>8, StepKinds
<1>4. ASSUME NEW c \in Calls, WireStep(c) PROVE LedgerInv'
  <2>1. CASE RemoteAccepts(c)
    BY <2>1 DEF RemoteAccepts
  <2>2. CASE DialBack(c)
    BY <2>2 DEF DialBack
  <2>3. CASE Receive(c)
    BY <2>3 DEF Receive
  <2>4. CASE Break(c)
    BY <2>4 DEF Break
  <2>5. CASE Sweep(c)
    <3>1. "reaped" \notin faults[c] /\ pc[c] \in Registered
      BY <2>5 DEF Sweep
    <3>2. pc[c] \notin {"idle", "acquiring", "associating"}
      BY <3>1 DEF Registered
    <3>3. OutcomeAtEnd' /\ ReapedOnce' /\ NoStaleEntry'
      BY <2>5, <3>1, <3>2 DEF Sweep
    <3>4. RecordedOnce'
      BY <2>5, <3>1 DEF Sweep
    <3> QED
      BY <3>3, <3>4
  <2> QED
    BY <1>4, <2>1, <2>2, <2>3, <2>4, <2>5 DEF WireStep
<1> QED
  BY <1>1, <1>2, <1>3, <1>4 DEF Next

----------------------------------------------------------------------------
(* Slots                                                                   *)

Holding == {c \in Calls : pc[c] \in HoldsSlot}

\* The calls that hold a slot are finitely many, and one more or less is one more or less.
LEMMA HoldingFinite ==
  /\ IsFiniteSet(Holding) /\ Cardinality(Holding) \in Nat
  /\ \A c \in Calls : /\ Cardinality(Holding \cup {c}) =
                            (IF c \in Holding THEN Cardinality(Holding) ELSE Cardinality(Holding) + 1)
                       /\ Cardinality(Holding \ {c}) =
                            (IF c \in Holding THEN Cardinality(Holding) - 1 ELSE Cardinality(Holding))
<1>1. IsFiniteSet(Holding)
  BY M2MAssumption, FS_Subset DEF Holding
<1> QED
  BY <1>1, FS_CardinalityType, FS_AddElement, FS_RemoveElement

\* At the start no call holds a slot.
LEMMA SlotsInit == Init => SlotsConserved
<1> SUFFICES ASSUME Init PROVE SlotsConserved
  OBVIOUS
<1>1. {c \in Calls : pc[c] \in HoldsSlot} = {}
  BY DEF Init, HoldsSlot
<1>2. Cardinality({c \in Calls : pc[c] \in HoldsSlot}) = 0
  BY <1>1, FS_EmptySet
<1>3. slots = MaxConcurrent
  BY DEF Init
<1> QED
  BY <1>2, <1>3, M2MAssumption DEF SlotsConserved

(* A step takes a slot for a call, gives a call's back, or neither. *)
LEMMA SlotMoves ==
  ASSUME TypeInv, [Next]_vars
  PROVE  \/ UNCHANGED slots /\ Holding' = Holding
         \/ \E c \in Calls : /\ c \notin Holding /\ Holding' = Holding \cup {c}
                             /\ slots' = slots - 1
         \/ \E c \in Calls : /\ c \in Holding /\ Holding' = Holding \ {c}
                             /\ slots' = slots + 1
<1> USE DEF TypeInv, Holding
<1>1. CASE UNCHANGED vars
  BY <1>1 DEF vars
<1>2. CASE Cool
  BY <1>2 DEF Cool
<1>3. ASSUME NEW c \in Calls, CallStep(c)
      PROVE  \/ UNCHANGED slots /\ Holding' = Holding
             \/ c \notin Holding /\ Holding' = Holding \cup {c} /\ slots' = slots - 1
             \/ c \in Holding /\ Holding' = Holding \ {c} /\ slots' = slots + 1
  <2>1. CASE Ending(c)
    <3>1. /\ pc' = [pc EXCEPT ![c] = "ended"]
          /\ slots' = IF pc[c] \in HoldsSlot THEN slots + 1 ELSE slots
      BY <2>1 DEF Ending, EndUnrecorded, EndRecording, End, Goto, ReleaseSlot
    <3> QED
      BY <3>1 DEF HoldsSlot
  <2>2. CASE CallModule(c) /\ pc' = [pc EXCEPT ![c] = "acquiring"] /\ UNCHANGED slots
    BY <2>2 DEF CallModule, HoldsSlot
  <2>3. CASE AcquireSlot(c)
    BY <2>3 DEF AcquireSlot, Goto, HoldsSlot
  <2>4. CASE Associate(c)
    BY <2>4 DEF Associate, Goto, HoldsSlot
  <2>5. CASE StartAccepted(c)
    BY <2>5 DEF StartAccepted, Goto, HoldsSlot
  <2>6. CASE Yield(c)
    BY <2>6 DEF Yield, Goto, HoldsSlot
  <2>7. CASE Continue(c)
    BY <2>7 DEF Continue, Goto, HoldsSlot
  <2>8. CASE Cancel(c)
    BY <2>8 DEF Cancel, Goto, HoldsSlot
  <2> QED
    BY <1>3, <2>1, <2>2, <2>3, <2>4, <2>5, <2>6, <2>7, <2>8, StepKinds
<1>4. ASSUME NEW c \in Calls, WireStep(c) PROVE UNCHANGED slots /\ Holding' = Holding
  BY <1>4 DEF WireStep, RemoteAccepts, DialBack, Receive, Break, Sweep
<1> QED
  BY <1>1, <1>2, <1>3, <1>4 DEF Next

\* A step that takes or gives back a slot counts it.
LEMMA SlotsStep == TypeInv /\ SlotsConserved /\ [Next]_vars => SlotsConserved'
<1> SUFFICES ASSUME TypeInv, SlotsConserved, [Next]_vars PROVE SlotsConserved'
  OBVIOUS
<1>1. slots + Cardinality(Holding) = MaxConcurrent
  BY DEF SlotsConserved, Holding
<1>2. slots' + Cardinality(Holding') = MaxConcurrent
  <2>1. slots \in Nat /\ Cardinality(Holding) \in Nat /\ MaxConcurrent \in Nat
    BY HoldingFinite, M2MAssumption DEF TypeInv
  <2>2. CASE UNCHANGED slots /\ Holding' = Holding
    BY <1>1, <2>2
  <2>3. ASSUME NEW c \in Calls, c \notin Holding, Holding' = Holding \cup {c}, slots' = slots - 1
        PROVE  slots' + Cardinality(Holding') = MaxConcurrent
    <3>1. Cardinality(Holding \cup {c}) = Cardinality(Holding) + 1
      BY <2>3, HoldingFinite
    <3> QED
      BY <1>1, <2>1, <2>3, <3>1
  <2>4. ASSUME NEW c \in Calls, c \in Holding, Holding' = Holding \ {c}, slots' = slots + 1
        PROVE  slots' + Cardinality(Holding') = MaxConcurrent
    <3>1. Cardinality(Holding \ {c}) = Cardinality(Holding) - 1
      BY <2>4, HoldingFinite
    <3> QED
      BY <1>1, <2>1, <2>4, <3>1
  <2> QED
    BY <2>2, <2>3, <2>4, SlotMoves
<1> QED
  BY <1>2 DEF SlotsConserved, Holding

----------------------------------------------------------------------------
(* Frames                                                                  *)

(* What the caller has been given followed by what waits for it is what    *)
(* the target sent, with the sentinel after the end if there was room.     *)
Flow(y, q, s) == y \o q = s \/ (EndsStream(s) /\ y \o q = Append(s, Sentinel))

StreamInv ==
  /\ \A c \in Calls : pc[c] = "ended" => open[c] = {}
  /\ \A c \in Calls : EndsStream(sent[c]) => dials[c] \notin open[c]
  /\ \A c \in Calls : pc[c] # "ended" /\ faults[c] = {} => Flow(yielded[c], queue[c], sent[c])
  /\ ReturnedIsComplete

\* Appending at the end of the second of two sequences,
LEMMA AppendRight ==
  ASSUME NEW S, NEW y \in Seq(S), NEW q \in Seq(S), NEW e \in S
  PROVE  y \o Append(q, e) = Append(y \o q, e)
<1>1. <<e>> \in Seq(S)
  OBVIOUS
<1>2. Append(q, e) = q \o <<e>>
  OBVIOUS
<1>3. y \o q \in Seq(S)
  BY ConcatProperties
<1>4. Append(y \o q, e) = (y \o q) \o <<e>>
  BY <1>3
<1> QED
  BY <1>1, <1>2, <1>4, ConcatAssociative

\* and moving its head to the end of the first, keep what both make together.
LEMMA MoveHead ==
  ASSUME NEW S, NEW y \in Seq(S), NEW q \in Seq(S), q # <<>>
  PROVE  Append(y, Head(q)) \o Tail(q) = y \o q
<1>1. Head(q) \in S /\ Tail(q) \in Seq(S) /\ <<Head(q)>> \in Seq(S)
  BY HeadTailProperties
<1>2. Append(y, Head(q)) = y \o <<Head(q)>>
  BY <1>1
<1>3. q = <<Head(q)>> \o Tail(q)
  BY <1>1
<1> QED
  BY <1>1, <1>2, <1>3, ConcatAssociative

(* When the sentinel is next, the caller has been given everything. *)
LEMMA SentinelNext ==
  ASSUME NEW y \in Seq(Frames), NEW q \in Seq(Kept), NEW s \in Seq(Frames),
         Flow(y, q, s), q # <<>>, Head(q) = Sentinel
  PROVE  y = s /\ EndsStream(s)
<1>1. Sentinel \notin Frames
  BY DEF Sentinel, Frames, Output, Fatal, StreamEnd
<1>2. y \in Seq(Kept) /\ s \in Seq(Kept)
  BY SeqMonotonic DEF Kept
<1> DEFINE i == Len(y) + 1
<1>3. Len(y) \in Nat /\ Len(q) \in Nat \ {0} /\ Len(s) \in Nat
  BY <1>2, EmptySeq, LenProperties
<1>4. Len(y \o q) = Len(y) + Len(q) /\ (y \o q)[i] = Sentinel
  <2>1. i \in 1..(Len(y) + Len(q)) /\ ~(i <= Len(y)) /\ i - Len(y) = 1
    BY <1>3
  <2>2. q[1] = Sentinel
    BY <1>3
  <2> QED
    BY <1>2, <2>1, <2>2, ConcatProperties
<1>5. CASE y \o q = s
  <2>1. i \in 1..Len(s)
    BY <1>3, <1>4, <1>5
  <2>2. s[i] \in Frames
    BY <2>1, ElementOfSeq
  <2> QED
    BY <1>1, <1>4, <1>5, <2>2
<1>6. CASE EndsStream(s) /\ y \o q = Append(s, Sentinel)
  <2>1. /\ Len(Append(s, Sentinel)) = Len(s) + 1
        /\ \A j \in 1..Len(s) : Append(s, Sentinel)[j] = s[j]
    BY <1>2
  <2>2. i \notin 1..Len(s)
    <3>1. \A j \in 1..Len(s) : s[j] \in Frames
      BY ElementOfSeq
    <3> QED
      BY <1>1, <1>4, <1>6, <2>1, <3>1
  <2>3. Len(y) = Len(s)
    BY <1>3, <1>4, <1>6, <2>1, <2>2
  <2>4. ASSUME NEW j \in 1..Len(y) PROVE y[j] = s[j]
    <3>1. j \in 1..(Len(y) + Len(q)) /\ j <= Len(y)
      BY <1>3
    <3>2. (y \o q)[j] = y[j]
      BY <1>2, <3>1, ConcatProperties
    <3> QED
      BY <1>6, <2>1, <2>3, <3>2
  <2>5. y = s
    BY <2>3, <2>4, SeqEqual
  <2> QED
    BY <1>6, <2>5
<1> QED
  BY <1>5, <1>6 DEF Flow

\* At the start nothing was sent and nothing yielded.
LEMMA StreamInit == Init => StreamInv
<1> SUFFICES ASSUME Init PROVE StreamInv
  OBVIOUS
<1>1. <<>> \o <<>> = <<>>
  OBVIOUS
<1> QED
  BY <1>1 DEF Init, StreamInv, Flow, EndsStream, ReturnedIsComplete

(* A frame that fits is added to what waits; the sentinel follows the last. *)
LEMMA DeliverFlow ==
  ASSUME NEW y \in Seq(Kept), NEW q \in Seq(Kept), NEW s \in Seq(Frames), NEW f \in Frames,
         y \o q = s, Len(q) < QueueMax
  PROVE  Flow(y, Deliver(q, f), Append(s, f)) /\ (EndsStream(Append(s, f)) => Ends(f))
<1>1. f \in Kept /\ Sentinel \in Kept
  BY DEF Kept
<1>2. Enqueue(q, f) = Append(q, f) /\ Append(q, f) \in Seq(Kept)
  BY <1>1 DEF Enqueue
<1>3. y \o Append(q, f) = Append(s, f)
  BY <1>1, AppendRight
<1>4. Append(s, f) # <<>> /\ Append(s, f)[Len(Append(s, f))] = f
  <2>1. Len(s) \in Nat
    BY LenProperties
  <2>2. Len(Append(s, f)) = Len(s) + 1
    BY <2>1
  <2>3. Append(s, f)[Len(s) + 1] = f
    BY <2>1
  <2>4. Append(s, f) # <<>>
    BY <2>1, <2>2
  <2> QED
    BY <2>2, <2>3, <2>4
<1>5. y \o Append(Append(q, f), Sentinel) = Append(Append(s, f), Sentinel)
  BY <1>1, <1>2, <1>3, AppendRight
<1>6. Deliver(q, f) \in {Append(q, f), Append(Append(q, f), Sentinel)}
        /\ (Deliver(q, f) # Append(q, f) => Ends(f))
  BY <1>2 DEF Deliver, Enqueue
<1> QED
  BY <1>3, <1>4, <1>5, <1>6 DEF Flow, EndsStream, Ends

\* Every step keeps what was yielded and queued equal to what was sent, in order.
LEMMA StreamStep == TypeInv /\ LedgerInv /\ StreamInv /\ [Next]_vars => StreamInv'
<1> SUFFICES ASSUME TypeInv, LedgerInv, StreamInv, [Next]_vars PROVE StreamInv'
  OBVIOUS
<1> USE DEF StreamInv
<1>0. \A c \in Calls : outcome[c] = "returned" => pc[c] = "ended"
  BY DEF LedgerInv, OutcomeAtEnd
<1>1. CASE UNCHANGED vars
  BY <1>1 DEF vars, ReturnedIsComplete
<1>2. CASE Cool
  BY <1>2 DEF Cool, wire, ReturnedIsComplete
<1>3. ASSUME NEW c \in Calls, CallStep(c) PROVE StreamInv'
  <2> USE DEF TypeInv
  <2>1. CASE Ending(c) /\ pc[c] \in Stages \ {"ended"}
    <3>1. PICK how \in Outcomes \ {"none"} : End(c, how)
      BY <2>1 DEF Ending, EndUnrecorded, EndRecording
    <3>2. how = "returned" => Return(c)
      BY <1>3, <2>1, <3>1 DEF CallStep, CallModule, AcquireSlot, NotStarted, Associate,
         StartAccepted, StartFails, StartDenied, Yield, Continue, OutputTimeout, Abandon,
         CallbackRaises, CancelEarly, Cancel, SignalSent, EndUnrecorded, EndRecording, End, Goto
    <3>3. ASSUME how = "returned", faults[c] = {} PROVE yielded[c] = sent[c] /\ EndsStream(sent[c])
      <4>1. pc[c] # "ended" /\ queue[c] # <<>> /\ Head(queue[c]) = Sentinel
        BY <3>2, <3>3 DEF Return
      <4>2. Flow(yielded[c], queue[c], sent[c])
        BY <3>3, <4>1
      <4> QED
        BY <4>1, <4>2, SentinelNext
    <3>4. /\ pc' = [pc EXCEPT ![c] = "ended"] /\ outcome' = [outcome EXCEPT ![c] = how]
          /\ queue' = [queue EXCEPT ![c] = <<>>] /\ open' = [open EXCEPT ![c] = {}]
          /\ dials' = [dials EXCEPT ![c] = 0] /\ UNCHANGED <<sent, yielded, faults>>
      BY <3>1 DEF End, Goto
    <3>5. ReturnedIsComplete'
      BY <3>3, <3>4 DEF ReturnedIsComplete
    <3> QED
      BY <3>4, <3>5
  <2>2. CASE CallModule(c) /\ pc' = [pc EXCEPT ![c] = "acquiring"]
              /\ UNCHANGED <<outcome, slots, entries, queue, wire, yielded, faults, recorded>>
    BY <2>2 DEF CallModule, wire, ReturnedIsComplete
  <2>3. CASE AcquireSlot(c)
    BY <2>3 DEF AcquireSlot, Goto, wire, ReturnedIsComplete
  <2>4. CASE Associate(c)
    BY <2>4 DEF Associate, Goto, wire, ReturnedIsComplete
  <2>5. CASE StartAccepted(c)
    BY <2>5 DEF StartAccepted, Goto, wire, ReturnedIsComplete
  <2>6. CASE Yield(c)
    <3>1. yielded[c] \in Seq(Kept) /\ queue[c] \in Seq(Kept)
      BY SeqMonotonic DEF Kept
    <3>2. Append(yielded[c], Head(queue[c])) \o Tail(queue[c]) = yielded[c] \o queue[c]
      <4>1. queue[c] # <<>>
        BY <2>6 DEF Yield
      <4> QED
        BY <3>1, <4>1, MoveHead, Zenon
    <3>3. /\ pc[c] = "reading" /\ pc' = [pc EXCEPT ![c] = "yielding"]
          /\ queue' = [queue EXCEPT ![c] = Tail(queue[c])]
          /\ yielded' = [yielded EXCEPT ![c] = Append(yielded[c], Head(queue[c]))]
          /\ UNCHANGED <<outcome, sent, dials, open, faults>>
      BY <2>6 DEF Yield, Goto, wire
    <3>4. outcome[c] # "returned"
      BY <1>0, <3>3
    <3>5. ReturnedIsComplete'
      BY <3>3, <3>4 DEF ReturnedIsComplete
    <3>6. faults[c] = {} => Flow(yielded'[c], queue'[c], sent'[c])
      BY <3>2, <3>3 DEF Flow
    <3> QED
      BY <3>3, <3>5, <3>6
  <2>7. CASE Continue(c)
    BY <2>7 DEF Continue, Goto, wire, ReturnedIsComplete
  <2>8. CASE Cancel(c)
    BY <2>8 DEF Cancel, Goto, wire, ReturnedIsComplete
  <2> QED
    BY <1>3, <2>1, <2>2, <2>3, <2>4, <2>5, <2>6, <2>7, <2>8, StepKinds
<1>4. ASSUME NEW c \in Calls, WireStep(c) PROVE StreamInv'
  <2> USE DEF TypeInv
  <2>1. CASE RemoteAccepts(c)
    BY <2>1 DEF RemoteAccepts, ReturnedIsComplete
  <2>2. CASE DialBack(c)
    <3>1. pc[c] # "ended"
      BY <2>2 DEF DialBack, LedgerInv, NoStaleEntry, Registered
    <3>2. ~EndsStream(sent[c])
      BY <2>2 DEF DialBack, EndsStream
    <3> QED
      BY <2>2, <3>1, <3>2 DEF DialBack, ReturnedIsComplete
  <2>3. CASE Receive(c)
    <3>1. PICK f \in NextFrames(sent[c]) :
            /\ dials[c] \in open[c]
            /\ sent' = [sent EXCEPT ![c] = Append(@, f)]
            /\ queue' = [queue EXCEPT ![c] = Deliver(@, f)]
            /\ open' = [open EXCEPT ![c] = IF Ends(f) THEN @ \ {dials[c]} ELSE @]
            /\ faults' = [faults EXCEPT ![c] = IF Len(queue[c]) < QueueMax THEN @ ELSE @ \cup {"dropped"}]
            /\ UNCHANGED <<pc, outcome, slots, entries, breaker, accepted, dials, yielded, recorded>>
      BY <2>3 DEF Receive
    <3>2. f \in Frames
      BY NextFramesType
    <3>3. pc[c] # "ended" /\ outcome[c] # "returned" /\ ~EndsStream(sent[c])
      BY <1>0, <3>1
    <3>4. faults'[c] = {} => faults[c] = {} /\ Len(queue[c]) < QueueMax
      BY <3>1
    <3>5. yielded[c] \in Seq(Kept) /\ queue[c] \in Seq(Kept)
      BY SeqMonotonic DEF Kept
    <3>6. faults'[c] = {} => Flow(yielded'[c], queue'[c], sent'[c])
      <4> SUFFICES ASSUME faults'[c] = {} PROVE Flow(yielded'[c], queue'[c], sent'[c])
        OBVIOUS
      <4>1. yielded[c] \o queue[c] = sent[c]
        BY <3>3, <3>4 DEF Flow
      <4>2. Flow(yielded[c], Deliver(queue[c], f), Append(sent[c], f))
        BY <3>2, <3>4, <3>5, <4>1, DeliverFlow
      <4> QED
        BY <3>1, <4>2
    <3>7. EndsStream(Append(sent[c], f)) => Ends(f)
      BY <3>2 DEF EndsStream, Ends
    <3>8. EndsStream(sent'[c]) => dials'[c] \notin open'[c]
      BY <3>1, <3>7
    <3>9. ReturnedIsComplete'
      BY <3>1, <3>3 DEF ReturnedIsComplete
    <3> QED
      BY <3>1, <3>3, <3>6, <3>8, <3>9
  <2>4. CASE Break(c)
    <3>1. pc[c] # "ended" /\ outcome[c] # "returned"
      BY <1>0, <2>4 DEF Break
    <3>2. /\ faults'[c] # {} /\ open'[c] \subseteq open[c]
          /\ \A d \in Calls \ {c} : faults'[d] = faults[d] /\ open'[d] = open[d] /\ queue'[d] = queue[d]
          /\ UNCHANGED <<pc, outcome, sent, dials, yielded>>
      BY <2>4 DEF Break
    <3>3. ReturnedIsComplete'
      BY <3>1, <3>2 DEF ReturnedIsComplete
    <3> QED
      BY <3>1, <3>2, <3>3
  <2>5. CASE Sweep(c)
    <3>1. pc[c] # "ended" /\ outcome[c] # "returned"
      BY <1>0, <2>5 DEF Sweep, LedgerInv, NoStaleEntry, Registered
    <3>2. /\ faults'[c] # {}
          /\ \A d \in Calls \ {c} : faults'[d] = faults[d] /\ queue'[d] = queue[d]
          /\ UNCHANGED <<pc, outcome, sent, dials, open, yielded>>
      BY <2>5 DEF Sweep, wire
    <3>3. ReturnedIsComplete'
      BY <3>1, <3>2 DEF ReturnedIsComplete
    <3> QED
      BY <3>1, <3>2, <3>3
  <2> QED
    BY <1>4, <2>1, <2>2, <2>3, <2>4, <2>5 DEF WireStep
<1> QED
  BY <1>1, <1>2, <1>3, <1>4 DEF Next

----------------------------------------------------------------------------
(* The theorems                                                            *)

Inv == TypeInv /\ Tripped(breaker) /\ LedgerInv /\ SlotsConserved /\ StreamInv

\* The invariant holds in every reachable state.
LEMMA Invariant == Spec => []Inv
<1>1. Init => Inv
  BY TypeInit, LedgerInit, SlotsInit, StreamInit DEF Inv
<1>2. Inv /\ [Next]_vars => Inv'
  BY TypeStep, LedgerStep, SlotsStep, StreamStep DEF Inv
<1> QED
  BY <1>1, <1>2, PTL DEF Spec

(* Every variable of M2MCalls keeps its type, within the configured bounds. *)
THEOREM TypeCorrect == Spec => []TypeOK
<1>1. Inv => TypeOK
  <2> SUFFICES ASSUME Inv PROVE TypeOK
    OBVIOUS
  <2> USE DEF Inv, TypeInv, TypeOK
  <2>1. slots \in 0..MaxConcurrent
    BY HoldingFinite, M2MAssumption DEF SlotsConserved, Holding
  <2>2. recorded \in [Calls -> 0..2]
    <3>1. ASSUME NEW c \in Calls PROVE recorded[c] \in 0..2
      <4> DEFINE own == IF outcome[c] \in {"rejected", "returned", "timeout"} THEN 1 ELSE 0
                 swept == IF "reaped" \in faults[c] THEN 1 ELSE 0
      <4>1. recorded[c] = own + swept
        BY DEF LedgerInv, RecordedOnce
      <4>2. own \in {0, 1} /\ swept \in {0, 1}
        OBVIOUS
      <4> HIDE DEF own, swept
      <4> QED
        BY <4>1, <4>2
    <3> QED
      BY <3>1
  <2> QED
    BY <2>1, <2>2 DEF Stages, Kept
<1> QED
  BY <1>1, Invariant, PTL

(* call_module returns exactly the slots it takes, however it ends. *)
THEOREM SlotsNeverLost == Spec => []SlotsConserved
<1>1. Inv => SlotsConserved
  BY DEF Inv
<1> QED
  BY <1>1, Invariant, PTL

(* The registry holds no entry of a call that is over. *)
THEOREM EntriesLive == Spec => []NoStaleEntry
<1>1. Inv => NoStaleEntry
  BY DEF Inv, LedgerInv
<1> QED
  BY <1>1, Invariant, PTL

(* The breaker of a target trips exactly at fail_max, for every fail_max. *)
THEOREM BreakerExact == Spec => []TrippedExactly
<1>1. Inv => TrippedExactly
  BY DEF Inv, Tripped, TrippedExactly
<1> QED
  BY <1>1, Invariant, PTL

(* A call is counted in the breaker once if its end tells of the target's   *)
(* health (StartStream failed or was rejected, the stream ended or timed    *)
(* out) and not at all if it was denied, left or never sent; the sweeper    *)
(* counts the calls it reaps, once each.                                   *)
THEOREM OutcomesRecordedOnce == Spec => []RecordedOnce
<1>1. Inv => RecordedOnce
  BY DEF Inv, LedgerInv
<1> QED
  BY <1>1, Invariant, PTL

(* A call that no fault befell, and that returns, gave its caller all that *)
(* the target sent, to the end, for every bound of the queue.              *)
THEOREM UndisturbedCallsComplete == Spec => []ReturnedIsComplete
<1>1. Inv => ReturnedIsComplete
  BY DEF Inv, StreamInv
<1> QED
  BY <1>1, Invariant, PTL

(* However calls end, denied ones included: all slots are with the calls in *)
(* flight or free, no entry outlives its call, the breaker trips exactly at *)
(* fail_max, and it was told of each call what RecordedOnce says.          *)
THEOREM EveryCallAccounted == Spec => []CallsAccounted
<1>1. SlotsConserved /\ NoStaleEntry /\ TrippedExactly /\ RecordedOnce => CallsAccounted
  BY DEF CallsAccounted
<1> QED
  BY <1>1, SlotsNeverLost, EntriesLive, BreakerExact, OutcomesRecordedOnce, PTL
=============================================================================
