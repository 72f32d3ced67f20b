------------------------------ MODULE M2MCalls ------------------------------
(* Module-to-module calls: GrpcCommunication.call_module, the registry of    *)
(* calls in flight (M2MCallRegistry), the dial-back that feeds a call and    *)
(* the sweeper that reaps it.  One target, so one breaker.                   *)
(*                                                                           *)
(* A call asks the target's breaker, takes one of the slots, has a sub-task  *)
(* minted, registers an entry with a bounded queue, sends StartStream and    *)
(* yields what arrives in the queue until a None sentinel.  The target dials *)
(* back: a handler of the caller's own gateway answers stream.init with the  *)
(* query and puts every frame into the queue, dropping what does not fit,    *)
(* and the sentinel when its connection is over, however it ended.           *)
EXTENDS Breaker, Sequences, FiniteSets

CONSTANTS
  Calls,          \* invocations of call_module
  MaxConcurrent,  \* call_max_concurrent
  QueueMax,       \* call_queue_maxsize
  Silent,         \* bound: the calls whose target never dials back
  MaxOut,         \* bound: outputs of a remote task
  MaxDials        \* bound: dial-backs to one call

ASSUME M2MAssumption ==
  /\ IsFiniteSet(Calls)
  /\ Silent \subseteq Calls
  /\ MaxConcurrent \in Nat \ {0}
  /\ QueueMax \in Nat \ {0}
  /\ MaxOut \in Nat
  /\ MaxDials \in Nat

VARIABLES
  pc,        \* where call_module stands
  outcome,   \* how it ended
  slots,     \* permits of M2MCallRegistry._semaphore
  entries,   \* M2MCallRegistry._entries
  queue,     \* output_queue of the entry
  breaker,   \* the target's breaker
  accepted,  \* the calls whose target accepted StartStream
  sent,      \* history: frames that reached the caller's gateway
  dials,     \* dial-backs so far
  open,      \* the dial-backs whose handler still reads
  yielded,   \* what the caller was given
  faults,    \* history: what befell the call
  recorded   \* history: outcomes recorded in the breaker on behalf of the call

vars == <<pc, outcome, slots, entries, queue, breaker, accepted, sent, dials, open,
          yielded, faults, recorded>>
wire == <<accepted, sent, dials, open>>

Output(n) == [kind |-> "output", n |-> n]
Fatal     == [kind |-> "fatal",  n |-> 0]    \* stream.error with fatal=true
StreamEnd == [kind |-> "end",    n |-> 0]    \* stream.end
Sentinel  == [kind |-> "none",   n |-> 0]    \* None

Frames == {Output(n) : n \in 1..MaxOut} \cup {Fatal, StreamEnd}

HoldsSlot == {"associating", "starting", "reading", "yielding", "cancelling"}
Registered == {"starting", "reading", "yielding", "cancelling"}

Init ==
  /\ pc = [c \in Calls |-> "idle"]
  /\ outcome = [c \in Calls |-> "none"]
  /\ slots = MaxConcurrent
  /\ entries = {}
  /\ queue = [c \in Calls |-> <<>>]
  /\ breaker = FreshBreaker
  /\ accepted = {}
  /\ sent = [c \in Calls |-> <<>>]
  /\ dials = [c \in Calls |-> 0]
  /\ open = [c \in Calls |-> {}]
  /\ yielded = [c \in Calls |-> <<>>]
  /\ faults = [c \in Calls |-> {}]
  /\ recorded = [c \in Calls |-> 0]

(***************************************************************************)
(* call_module                                                             *)
(***************************************************************************)
Goto(c, l) == pc' = [pc EXCEPT ![c] = l]

\* put_nowait with QueueFull caught: what does not fit is dropped.
Enqueue(q, item) == IF Len(q) < QueueMax THEN Append(q, item) ELSE q

\* slot_acquired and registered guard the two steps of the outer finally.
ReleaseSlotIfRegistered(c) == slots' = IF pc[c] \in Registered THEN slots + 1 ELSE slots
ReleaseSlot(c) == slots' = IF pc[c] \in HoldsSlot THEN slots + 1 ELSE slots

Unregister(c) == entries' = entries \ {c}

\* The outer finally: unregister and release the slot, if the call got them.
\* Frames that still arrive land in a queue that nobody reads any more, and
\* later dials find no entry: the target's side of an ended call is forgotten.
End(c, how) ==
  /\ Goto(c, "ended")
  /\ outcome' = [outcome EXCEPT ![c] = how]
  /\ ReleaseSlot(c)
  /\ Unregister(c)
  /\ queue' = [queue EXCEPT ![c] = <<>>]
  /\ accepted' = accepted \ {c}
  /\ dials' = [dials EXCEPT ![c] = 0]
  /\ open' = [open EXCEPT ![c] = {}]
  /\ UNCHANGED <<sent, yielded, faults>>

EndUnrecorded(c, how) == End(c, how) /\ UNCHANGED recorded
EndRecording(c, how) == End(c, how) /\ recorded' = [recorded EXCEPT ![c] = @ + 1]

\* The breaker is read once, before the slot is waited for.
CallModule(c) ==
  /\ pc[c] = "idle"
  /\ breaker' = StateRead(breaker)
  /\ \/ breaker'.state = "open" /\ EndUnrecorded(c, "unavailable")
     \/ /\ breaker'.state # "open"
        /\ Goto(c, "acquiring")
        /\ UNCHANGED <<outcome, slots, entries, queue, wire, yielded, faults, recorded>>

AcquireSlot(c) ==
  /\ pc[c] = "acquiring"
  /\ slots > 0
  /\ slots' = slots - 1
  /\ Goto(c, "associating")
  /\ UNCHANGED <<outcome, entries, queue, breaker, wire, yielded, faults, recorded>>

\* acquire_slot times out, or the backend mints no sub-task.  Nothing is
\* recorded; the log line reads breaker.state.
NotStarted(c) ==
  /\ pc[c] \in {"acquiring", "associating"}
  /\ EndUnrecorded(c, IF pc[c] = "acquiring" THEN "at_capacity" ELSE "failed")
  /\ breaker' = StateRead(breaker)

\* The backend minted the sub-task: register the entry, send StartStream.
Associate(c) ==
  /\ pc[c] = "associating"
  /\ entries' = entries \cup {c}
  /\ Goto(c, "starting")
  /\ UNCHANGED <<outcome, slots, queue, breaker, wire, yielded, faults, recorded>>

StartAccepted(c) ==
  /\ pc[c] = "starting"
  /\ c \in accepted
  /\ Goto(c, "reading")
  /\ UNCHANGED <<outcome, slots, entries, queue, breaker, wire, yielded, faults, recorded>>

\* The target rejected the task, or the RPC failed with an AioRpcError, before
\* or after the target had accepted it: the target's health is in doubt.
StartFails(c) ==
  /\ pc[c] = "starting"
  /\ EndRecording(c, "rejected")
  /\ breaker' = RecordFailure(breaker)

\* PERMISSION_DENIED reaches the call as a PermissionDeniedError, which is no
\* AioRpcError: nothing is recorded.  Nor is it when no address can be advertised.
StartDenied(c) ==
  /\ pc[c] = "starting"
  /\ EndUnrecorded(c, "failed")
  /\ breaker' = StateRead(breaker)

\* output_queue.get() returns a frame, which is yielded to the caller.
Yield(c) ==
  /\ pc[c] = "reading"
  /\ queue[c] # <<>>
  /\ Head(queue[c]) # Sentinel
  /\ queue' = [queue EXCEPT ![c] = Tail(@)]
  /\ yielded' = [yielded EXCEPT ![c] = Append(@, Head(queue[c]))]
  /\ Goto(c, "yielding")
  /\ UNCHANGED <<outcome, slots, entries, breaker, wire, faults, recorded>>

\* The caller asks for the next item.
Continue(c) ==
  /\ pc[c] = "yielding"
  /\ Goto(c, "reading")
  /\ UNCHANGED <<outcome, slots, entries, queue, breaker, wire, yielded, faults, recorded>>

ErrorObserved(c) == \E i \in DOMAIN yielded[c] : yielded[c][i] = Fatal

\* output_queue.get() returns None: the loop ends, and the call with it.
Return(c) ==
  /\ pc[c] = "reading"
  /\ queue[c] # <<>>
  /\ Head(queue[c]) = Sentinel
  /\ EndRecording(c, "returned")
  /\ breaker' = IF ErrorObserved(c) THEN RecordFailure(breaker) ELSE RecordSuccess(breaker)

OutputTimeoutOnFirst(c) ==
  /\ pc[c] = "reading"
  /\ yielded[c] = <<>>
  /\ EndRecording(c, "timeout")
  /\ breaker' = RecordFailure(breaker)

\* call_timeout_s without an item.  The timer may fire in the very loop
\* iteration in which an item is put, so the queue need not be empty.
OutputTimeout(c) ==
  /\ pc[c] = "reading"
  /\ EndRecording(c, "timeout")
  /\ breaker' = RecordFailure(breaker)

\* The caller drops the generator at a yield, as the tool function of
\* module_context.py:535 does on a fatal error: GeneratorExit, no CANCEL signal.
Abandon(c) ==
  /\ pc[c] = "yielding"
  /\ EndUnrecorded(c, "abandoned")
  /\ UNCHANGED breaker

\* The callback, which is awaited before the yield, raises.
CallbackRaises(c) ==
  /\ pc[c] = "yielding"
  /\ EndUnrecorded(c, "failed")
  /\ breaker' = StateRead(breaker)

\* The calling task is cancelled (between two items: inside the callback).  Once
\* StartStream has been sent the call first sends SendSignal(CANCEL), for
\* call_cancel_signal_timeout_s at most.
CancelEarly(c) ==
  /\ pc[c] \in {"acquiring", "associating"}
  /\ EndUnrecorded(c, "cancelled")
  /\ UNCHANGED breaker

Cancel(c) ==
  /\ pc[c] \in {"starting", "reading", "yielding"}
  /\ Goto(c, "cancelling")
  /\ UNCHANGED <<outcome, slots, entries, queue, breaker, wire, yielded, faults, recorded>>

SignalSent(c) ==
  /\ pc[c] = "cancelling"
  /\ EndUnrecorded(c, "cancelled")
  /\ UNCHANGED breaker

(***************************************************************************)
(* The target's gateway and the dial-back (external: another process), and  *)
(* handle_dial_back_receive, which serves it.                               *)
(***************************************************************************)
RemoteAccepts(c) ==
  /\ pc[c] = "starting"
  /\ c \notin accepted
  /\ accepted' = accepted \cup {c}
  /\ UNCHANGED <<pc, outcome, slots, entries, queue, breaker, sent, dials, open, yielded,
                 faults, recorded>>

\* The target dials with stream.init, and again while no query has reached it
\* (a later dial is a stream.resume, which is not routed to the call).  The
\* handler of the connection it gave up may not know yet.
DialBack(c) ==
  /\ c \in (entries \cap accepted) \ Silent
  /\ sent[c] = <<>>
  /\ dials[c] < MaxDials
  /\ dials' = [dials EXCEPT ![c] = @ + 1]
  /\ open' = [open EXCEPT ![c] = @ \cup {dials'[c]}]
  /\ UNCHANGED <<pc, outcome, slots, entries, queue, breaker, accepted, sent, yielded,
                 faults, recorded>>

\* The target sends its outputs, then a fatal error if the task failed, or the end.
NextFrames(s) == {Fatal, StreamEnd} \cup (IF Len(s) < MaxOut THEN {Output(Len(s) + 1)} ELSE {})

\* The handler's loop and its finally: it returns at stream.end and at a fatal
\* error, and then adds the sentinel.
Ends(frame) == frame \in {Fatal, StreamEnd}
DeliverSentinelFirst(q, frame) ==
  Enqueue(IF Ends(frame) THEN Enqueue(q, Sentinel) ELSE q, frame)
Deliver(q, frame) ==
  IF Ends(frame) THEN Enqueue(Enqueue(q, frame), Sentinel) ELSE Enqueue(q, frame)

\* A frame arrives on the last connection.
Receive(c) ==
  \E frame \in NextFrames(sent[c]) :
    /\ dials[c] \in open[c]
    /\ sent' = [sent EXCEPT ![c] = Append(@, frame)]
    /\ queue' = [queue EXCEPT ![c] = Deliver(@, frame)]
    /\ open' = [open EXCEPT ![c] = IF Ends(frame) THEN @ \ {dials[c]} ELSE @]
    /\ faults' = [faults EXCEPT ![c] = IF Len(queue[c]) < QueueMax THEN @ ELSE @ \cup {"dropped"}]
    /\ UNCHANGED <<pc, outcome, slots, entries, breaker, accepted, dials, yielded, recorded>>

\* A connection is over without stream.end.  The sentinel is put by the finally
\* of the reading loop: a handler still at its first yield, that of the query,
\* puts none.
Break(c) ==
  \E d \in open[c] :
    /\ open' = [open EXCEPT ![c] = @ \ {d}]
    /\ faults' = [faults EXCEPT ![c] = @ \cup {"broken"}]
    /\ \/ queue' = [queue EXCEPT ![c] = Enqueue(@, Sentinel)]
       \/ (d # dials[c] \/ sent[c] = <<>>) /\ UNCHANGED queue
    /\ UNCHANGED <<pc, outcome, slots, entries, breaker, accepted, sent, dials, yielded,
                   recorded>>

\* _sweep_loop finds the entry past its TTL.
Sweep(c) ==
  /\ c \in entries
  /\ entries' = entries \ {c}
  /\ queue' = [queue EXCEPT ![c] = Enqueue(@, Sentinel)]
  /\ breaker' = RecordFailure(breaker)
  /\ recorded' = [recorded EXCEPT ![c] = @ + 1]
  /\ faults' = [faults EXCEPT ![c] = @ \cup {"reaped"}]
  /\ UNCHANGED <<pc, outcome, slots, wire, yielded>>

Cool ==
  /\ breaker.state = "open"
  /\ breaker' = CoolDown(breaker)
  /\ UNCHANGED <<pc, outcome, slots, entries, queue, wire, yielded, faults, recorded>>

CallStep(c) ==
  \/ CallModule(c) \/ AcquireSlot(c) \/ NotStarted(c) \/ Associate(c)
  \/ StartAccepted(c) \/ StartFails(c) \/ StartDenied(c)
  \/ Yield(c) \/ Continue(c) \/ Return(c) \/ OutputTimeout(c) \/ Abandon(c)
  \/ CallbackRaises(c) \/ CancelEarly(c) \/ Cancel(c) \/ SignalSent(c)

WireStep(c) == RemoteAccepts(c) \/ DialBack(c) \/ Receive(c) \/ Break(c) \/ Sweep(c)

Next == Cool \/ \E c \in Calls : CallStep(c) \/ WireStep(c)

\* What a call does on its own account once StartStream is answered: every wait
\* of it has a timeout (call_timeout_s, call_cancel_signal_timeout_s), and its
\* caller iterates on, or drops the generator.
Progress(c) ==
  \/ Yield(c) \/ Continue(c) \/ Return(c) \/ OutputTimeout(c)
  \/ Abandon(c) \/ CallbackRaises(c) \/ SignalSent(c)

Spec == Init /\ [][Next]_vars /\ \A c \in Calls : WF_vars(Progress(c))
-----------------------------------------------------------------------------
Outcomes == {"none", "unavailable", "at_capacity", "failed", "rejected", "returned", "timeout",
             "abandoned", "cancelled"}

\* Every variable keeps its type; a queue never exceeds call_queue_maxsize, and
\* a call is recorded in the breaker at most twice (by itself and the sweeper).
TypeOK ==
  /\ pc \in [Calls -> {"idle", "acquiring", "ended"} \cup HoldsSlot]
  /\ outcome \in [Calls -> Outcomes]
  /\ slots \in 0..MaxConcurrent
  /\ entries \subseteq Calls
  /\ queue \in [Calls -> Seq(Frames \cup {Sentinel})]
  /\ \A c \in Calls : Len(queue[c]) <= QueueMax
  /\ breaker \in Breakers
  /\ accepted \subseteq Calls
  /\ sent \in [Calls -> Seq(Frames)]
  /\ dials \in [Calls -> 0..MaxDials]
  /\ open \in [Calls -> SUBSET (1..MaxDials)]
  /\ yielded \in [Calls -> Seq(Frames)]
  /\ faults \in [Calls -> SUBSET {"dropped", "broken", "reaped"}]
  /\ recorded \in [Calls -> 0..2]

\* Slots are neither lost nor made, whichever way each call ends (return, error,
\* timeout, cancellation at any await, abandoned generator): the free ones and
\* those of the calls in flight are call_max_concurrent.
SlotsConserved == slots + Cardinality({c \in Calls : pc[c] \in HoldsSlot}) = MaxConcurrent

\* An entry stands only while its call is between register and its end: no
\* dial-back is ever served into the queue of a call that is over.
NoStaleEntry == \A c \in entries : pc[c] \in Registered

\* The breaker is closed exactly while fewer than fail_max failures have been
\* recorded since the last success, whatever the order in which calls that
\* started before and after it opened, and the sweeper, record their outcomes.
TrippedExactly == (breaker.state = "closed") <=> (breaker.fails < FailMax)

\* A call records exactly once what says something of the target's health: a
\* StartStream that failed or was rejected, a stream that ended or timed out.  It
\* records nothing when it never got there, was denied ("Permission is not a
\* health signal", test_m2m_resilience.py:153), its callback raised or its caller
\* left it; only a reaped call has one more, the sweeper's.
RecordedOnce ==
  \A c \in Calls :
    recorded[c] = (IF outcome[c] \in {"rejected", "returned", "timeout"} THEN 1 ELSE 0)
                  + (IF "reaped" \in faults[c] THEN 1 ELSE 0)

\* However calls end and whoever reaps them, what is counted is what happened:
\* slots, entries, and the outcomes the breaker saw.
CallsAccounted == SlotsConserved /\ NoStaleEntry /\ TrippedExactly /\ RecordedOnce

\* A call that returned, and that no fault befell, gave its caller everything
\* the target sent, in order, up to stream.end or a fatal error.
EndsStream(s) == s # <<>> /\ s[Len(s)] \in {Fatal, StreamEnd}
ReturnedIsComplete ==
  \A c \in Calls : outcome[c] = "returned" /\ faults[c] = {} =>
    yielded[c] = sent[c] /\ EndsStream(sent[c])

\* Once StartStream is answered a call ends, and with it come back its slot and
\* its entry, whether or not the target ever dials back or sends anything.
AnsweredCallEnds == \A c \in Calls : pc[c] \in {"reading", "yielding", "cancelling"} ~> pc[c] = "ended"
=============================================================================
