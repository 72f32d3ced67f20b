--------------------------- MODULE GatewayStream ---------------------------
(***************************************************************************)
(* One task of the gateway, from StartStream to the consumer's last frame: *)
(*   grpc_servers/gateway_servicer.py (StartStream, _dial_consumer,        *)
(*     _run_dial_attempt, _consume_from_redis, _emit_fatal_to_redis),      *)
(*   grpc_servers/stream_registry.py, task_manager/module_runner.py,       *)
(*   task_manager/redis/redis_idempotency.py and proto_streams.py, and the *)
(*   end of a module in modules/_base_module.py.                           *)
(*                                                                         *)
(* StartStream may be called several times for the task (retries of the    *)
(* caller).  The accepted call dials the consumer back; its first reply    *)
(* starts the module, which writes its outputs to the Redis stream while   *)
(* the dial reads them and pushes them to the consumer.  A connection that *)
(* breaks is dialled again and resumes from the consumer's cursor.         *)
(***************************************************************************)
EXTENDS Integers, Sequences, FiniteSets, Ranking

CONSTANTS
  Requests,      \* calls of StartStream for the task
  None,          \* no session in the registry
  MaxOut,        \* bound on the outputs of the module
  MaxRedials,    \* bound on the re-dials that fit the reconnect window
  MaxFaults,     \* bound on the Redis commands that raise
  AtCapacity,    \* the registry may be full with other tasks
  LateReplies,   \* a command that raised (timeout) may have been applied
  LosesOutputs   \* the XADD of an output may raise and be lost

ASSUME ConstantsOK ==
  /\ None \notin Requests
  /\ MaxOut \in Nat /\ MaxRedials \in Nat /\ MaxFaults \in Nat
  /\ AtCapacity \in BOOLEAN /\ LateReplies \in BOOLEAN /\ LosesOutputs \in BOOLEAN

VARIABLES
  req,       \* where each StartStream handler stands
  claim,     \* the key idem:{task_id} exists
  session,   \* whose StreamSession the registry holds
  dial,      \* the _dial_consumer coroutine of each accepted request
  log,       \* the Redis stream task:{task_id}:stream
  module,    \* the ModuleRunner and the module it starts
  runs,      \* how many times the module runner was spawned
  seq,       \* last seq taken by _on_output
  got,       \* frames the consumer received
  cursor,    \* highest label the consumer received
  faults,    \* Redis commands that raised so far
  redials    \* re-dials so far

vars == <<req, claim, session, dial, log, module, runs, seq, got, cursor,
          faults, redials>>

Entry(kind, n) == [kind |-> kind, seq |-> n]
Frame(label, kind, n) == [label |-> label, kind |-> kind, seq |-> n]
Error == Entry("error", 0)      \* stream.error carries no seq: read as 0
Eos   == Entry("eos", 0)

\* A dial that has not begun, or has not connected yet.
Unconnected == [phase |-> "none", resume |-> FALSE, spawned |-> FALSE,
                pos |-> 0, last |-> 0, label |-> 0, skip |-> -1,
                delivered |-> FALSE, eosDue |-> FALSE, wire |-> <<>>]

Init ==
  /\ req = [r \in Requests |-> "idle"]
  /\ claim = FALSE
  /\ session = None
  /\ dial = [r \in Requests |-> Unconnected]
  /\ log = <<>>
  /\ module = "none"
  /\ runs = 0
  /\ seq = 0
  /\ got = <<>>
  /\ cursor = 0
  /\ faults = 0
  /\ redials = 0

----------------------------------------------------------------------------
(* Redis: a write lands, or it raises and is lost, or it raises too late.  *)

Fault == faults < MaxFaults /\ faults' = faults + 1
Fine  == UNCHANGED faults

Append1(e) == log' = Append(log, e) /\ Fine
AppendRaises(e) ==
  /\ Fault
  /\ log' \in {log} \cup IF LateReplies THEN {Append(log, e)} ELSE {}

\* _emit_fatal_to_redis: stream.error, then eos; it never raises.
EmitFatal ==
  \/ log' = log \o <<Error, Eos>> /\ Fine
  \/ AppendRaises(Error)
  \/ Fault /\ \E l \in {Append(log, Error)}
                   \cup IF LateReplies THEN {log \o <<Error, Eos>>} ELSE {} :
                log' = l

Quiet == UNCHANGED <<log, faults>>      \* nothing written

----------------------------------------------------------------------------
(* StartStream                                                             *)

OtherThanStart == UNCHANGED <<module, runs, seq, got, cursor, redials>>

Step(r, from, to) == req[r] = from /\ req' = [req EXCEPT ![r] = to]

\* A live session refuses the request before it claims anything.
StartStream(r) ==
  /\ Step(r, "idle", IF session = None THEN "claiming" ELSE "refused")
  /\ Quiet /\ OtherThanStart /\ UNCHANGED <<claim, session, dial>>

\* The claim is taken and the session registered in one go, unless the
\* registry is full.
ClaimTask(r) ==
  /\ ~claim
  /\ claim' = TRUE
  /\ \/ Step(r, "claiming", "seeding") /\ session' = r
     \/ AtCapacity /\ Step(r, "claiming", "full") /\ UNCHANGED session
  /\ Quiet /\ OtherThanStart /\ UNCHANGED dial

\* RECLAIMED, TAKEN, or no answer from Redis.
ClaimRefused(r) ==
  /\ Step(r, "claiming", "refused")
  /\ \/ claim /\ Fine /\ UNCHANGED claim
     \/ Fault /\ claim' \in {claim} \cup IF LateReplies THEN {TRUE} ELSE {}
  /\ OtherThanStart /\ UNCHANGED <<session, dial, log>>

\* stream.start is written, the dial is spawned, the caller is answered.
Seed(r) ==
  /\ Step(r, "seeding", "accepted")
  /\ Append1(Entry("start", 0))
  /\ dial' = [dial EXCEPT ![r].phase = "dialing"]
  /\ OtherThanStart /\ UNCHANGED <<claim, session>>

SeedRaises(r) ==
  /\ Step(r, "seeding", "unseeded")
  /\ AppendRaises(Entry("start", 0))
  /\ OtherThanStart /\ UNCHANGED <<claim, session, dial>>

\* The claim is dropped; a failed DEL is suppressed.
Release(r) ==
  /\ \/ Step(r, "unseeded", "released")
     \/ Step(r, "full", "refused")
  /\ \/ claim' = FALSE /\ Fine
     \/ Fault /\ claim' \in {claim} \cup IF LateReplies THEN {FALSE} ELSE {}
  /\ OtherThanStart /\ UNCHANGED <<session, dial, log>>

\* Mutant: undoing a request forgets the registry.
UnregisterForgotten(r) ==
  /\ Step(r, "released", "refused")
  /\ Quiet /\ OtherThanStart /\ UNCHANGED <<claim, session, dial>>

\* unregister() pops whatever session the task id has by now.
Unregister(r) ==
  /\ Step(r, "released", "refused")
  /\ session' = None
  /\ Quiet /\ OtherThanStart /\ UNCHANGED <<claim, dial>>

\* The caller gives the RPC up: gRPC cancels the handler at the await it stands
\* at, with the command there done or not, and only RedisError is caught.
\* Nothing is undone: past register() the session stays with nobody to dial.
CancelStart(r) ==
  /\ \/ /\ Step(r, "claiming", "cancelled")
        /\ claim' \in {claim, TRUE} /\ UNCHANGED log
     \/ /\ Step(r, "full", "cancelled")
        /\ claim' \in {claim, FALSE} /\ UNCHANGED log
     \/ /\ Step(r, "seeding", "stranded")
        /\ log' \in {log, Append(log, Entry("start", 0))} /\ UNCHANGED claim
     \/ /\ Step(r, "unseeded", "abandoned")
        /\ claim' \in {claim, FALSE} /\ UNCHANGED log
  /\ Fine /\ OtherThanStart /\ UNCHANGED <<session, dial>>

Handler(r) ==
  \/ StartStream(r) \/ ClaimTask(r) \/ ClaimRefused(r) \/ Seed(r)
  \/ SeedRaises(r) \/ Release(r) \/ Unregister(r)

----------------------------------------------------------------------------
(* _dial_consumer and _run_dial_attempt                                    *)

OtherThanDial == UNCHANGED <<req, claim, seq>>
ConsumerIdle  == UNCHANGED <<got, cursor>>
SameModule    == UNCHANGED <<module, runs>>

Set(r, d) == dial' = [dial EXCEPT ![r] = d]

\* The finally of _dial_consumer: unregister whatever session there is.
EndDial(r) ==
  /\ Set(r, [Unconnected EXCEPT !.phase = "done", !.eosDue = dial[r].eosDue])
  /\ session' = None
  /\ UNCHANGED redials

\* The attempt reports the connection dead before the end was delivered:
\* dial again while a module runs, the session lives and the window is open.
Retry(r) ==
  \/ EndDial(r)
  \/ /\ dial[r].spawned /\ session # None /\ redials < MaxRedials
     /\ Set(r, [Unconnected EXCEPT !.phase = "backoff", !.spawned = TRUE,
                                   !.eosDue = dial[r].eosDue])
     /\ redials' = redials + 1
     /\ UNCHANGED session

Connect(r) ==
  /\ dial[r].phase = "dialing"
  /\ IF session = None
     THEN EndDial(r)
     ELSE Set(r, [dial[r] EXCEPT !.phase = "open"]) /\ UNCHANGED <<session, redials>>
  /\ Quiet /\ SameModule /\ ConsumerIdle /\ OtherThanDial

\* The failure of an attempt is written to the stream by a fresh dial only.
Fail(r) == IF dial[r].resume THEN Quiet ELSE EmitFatal

\* No channel to the address.
CannotDial(r) ==
  /\ dial[r].phase = "dialing"
  /\ Fail(r) /\ EndDial(r)
  /\ SameModule /\ ConsumerIdle /\ OtherThanDial

\* First reply: the query, which starts the module ...
FirstReply(r) ==
  /\ dial[r].phase = "open" /\ ~dial[r].resume
  /\ module' = "starting" /\ runs' = runs + 1
  /\ Set(r, [dial[r] EXCEPT !.phase = "draining", !.spawned = TRUE])
  /\ Quiet /\ ConsumerIdle /\ OtherThanDial /\ UNCHANGED <<session, redials>>

\* Mutants: the resume is off by one, and skips or repeats an output.
SkipToCursor(c) == c
SkipTooLittle(c) == c - 2

\* Entries up to here were delivered to a consumer whose cursor is c.
SkipTo(c) == c - 1

\* ... or, on a resume, the consumer's cursor.
ResumeReply(r) ==
  /\ dial[r].phase = "open" /\ dial[r].resume
  /\ Set(r, [dial[r] EXCEPT !.phase = "draining", !.label = cursor,
                            !.skip = SkipTo(cursor)])
  /\ Quiet /\ SameModule /\ ConsumerIdle /\ OtherThanDial
  /\ UNCHANGED <<session, redials>>

\* One entry of the stream, read and put on the wire or skipped.
Labelled(d, e) == IF d.resume THEN e.seq + 1 ELSE d.label + 1
EndLabel(d) == IF d.resume THEN d.last + 2 ELSE d.label + 1

ReadEntry(d, e) ==
  LET read == [d EXCEPT !.pos = @ + 1, !.last = e.seq]
  IN  IF d.resume /\ e.seq <= d.skip
      THEN read
      ELSE [read EXCEPT !.label = Labelled(d, e),
                        !.wire = Append(@, Frame(Labelled(d, e), e.kind, e.seq))]

Read(r) ==
  LET d == dial[r]  e == log[d.pos + 1] IN
  /\ d.phase = "draining" /\ d.pos < Len(log)
  /\ Set(r, IF e.kind = "eos"
            THEN [d EXCEPT !.phase = "ending",
                           !.wire = Append(@, Frame(EndLabel(d), "end", 0))]
            ELSE ReadEntry(d, e))
  /\ Quiet /\ SameModule /\ ConsumerIdle /\ OtherThanDial
  /\ UNCHANGED <<session, redials>>

\* The last frame left: delivered_eos, outgoing_done.
Drained(r) ==
  /\ dial[r].phase = "ending"
  /\ Set(r, [dial[r] EXCEPT !.phase = "closing", !.delivered = TRUE])
  /\ Quiet /\ SameModule /\ ConsumerIdle /\ OtherThanDial
  /\ UNCHANGED <<session, redials>>

\* Redis fails under the reader: the consumer is told, with labels 0.
ReadRaises(r) ==
  /\ dial[r].phase = "draining"
  /\ Fault /\ UNCHANGED log
  /\ Set(r, [dial[r] EXCEPT !.phase = "closing",
               !.wire = @ \o <<Frame(0, "error", 0), Frame(0, "end", 0)>>])
  /\ SameModule /\ ConsumerIdle /\ OtherThanDial /\ UNCHANGED <<session, redials>>

\* No output for dial_back_idle_timeout_s: a fresh dial writes stream.error
\* and then (WriteEos) eos; the connection is closed without either.
IdleTimeout(r) ==
  /\ dial[r].phase = "draining" /\ dial[r].pos = Len(log)
  /\ \/ dial[r].resume /\ Quiet /\ Set(r, [dial[r] EXCEPT !.phase = "closing"])
     \/ /\ ~dial[r].resume /\ Append1(Error)
        /\ Set(r, [dial[r] EXCEPT !.phase = "closing", !.eosDue = TRUE])
     \/ /\ ~dial[r].resume /\ AppendRaises(Error)
        /\ Set(r, [dial[r] EXCEPT !.phase = "closing"])
  /\ SameModule /\ ConsumerIdle /\ OtherThanDial /\ UNCHANGED <<session, redials>>

WriteEos(r) ==
  /\ dial[r].eosDue
  /\ Append1(Eos) \/ AppendRaises(Eos)
  /\ Set(r, [dial[r] EXCEPT !.eosDue = FALSE])
  /\ SameModule /\ ConsumerIdle /\ OtherThanDial /\ UNCHANGED <<session, redials>>

Connected == {"open", "draining", "ending", "closing"}

\* The consumer closes its side, or does not within the grace period.
HangUp(r) ==
  /\ dial[r].phase \in Connected
  /\ IF dial[r].phase = "open" THEN Fail(r) ELSE Quiet
  /\ EndDial(r)
  /\ SameModule /\ ConsumerIdle /\ OtherThanDial

\* AioRpcError: the peer died, or the RPC outlived its deadline.
BreakDown(r) ==
  /\ dial[r].phase \in Connected
  /\ IF dial[r].phase = "open" THEN Fail(r) ELSE Quiet
  /\ IF dial[r].delivered THEN EndDial(r) ELSE Retry(r)
  /\ SameModule /\ ConsumerIdle /\ OtherThanDial

\* Mutant: the dial starts afresh instead of resuming.
RedialFresh(r) ==
  /\ dial[r].phase = "backoff"
  /\ Set(r, [dial[r] EXCEPT !.phase = "dialing"])
  /\ Quiet /\ SameModule /\ ConsumerIdle /\ OtherThanDial
  /\ UNCHANGED <<session, redials>>

Redial(r) ==
  /\ dial[r].phase = "backoff"
  /\ Set(r, [dial[r] EXCEPT !.phase = "dialing", !.resume = TRUE])
  /\ Quiet /\ SameModule /\ ConsumerIdle /\ OtherThanDial
  /\ UNCHANGED <<session, redials>>

\* The consumer takes the next frame off the wire.
Receive(r) ==
  LET f == Head(dial[r].wire) IN
  /\ dial[r].phase \in Connected /\ dial[r].wire # <<>>
  /\ got' = Append(got, f)
  /\ cursor' = IF f.label > cursor THEN f.label ELSE cursor
  /\ Set(r, [dial[r] EXCEPT !.wire = Tail(@)])
  /\ Quiet /\ SameModule /\ OtherThanDial /\ UNCHANGED <<session, redials>>

Dial(r) ==
  \/ Connect(r) \/ CannotDial(r) \/ FirstReply(r) \/ ResumeReply(r) \/ Read(r)
  \/ Drained(r) \/ ReadRaises(r) \/ IdleTimeout(r) \/ WriteEos(r) \/ HangUp(r)
  \/ BreakDown(r) \/ Redial(r) \/ Receive(r)

----------------------------------------------------------------------------
(* ModuleRunner.run, _on_output, and the end of BaseModule.start           *)

Becomes(from, to) == module = from /\ module' = to
OtherThanModule == UNCHANGED <<req, claim, session, dial, runs, got, cursor, redials>>

\* Setup, input and preload succeed; the module's task is created ...
Prepared ==
  /\ Becomes("starting", "running")
  /\ Quiet /\ OtherThanModule /\ UNCHANGED seq

\* ... or something raises and the runner writes the fatal error.
RunnerFails ==
  /\ Becomes("starting", "over")
  /\ EmitFatal /\ OtherThanModule /\ UNCHANGED seq

\* An output; the seq is taken even when the XADD, or the EXPIRE after the
\* first one, raises into the module.
Output ==
  /\ seq < MaxOut
  /\ seq' = seq + 1
  /\ \/ Append1(Entry("out", seq + 1)) /\ Becomes("running", "running")
     \/ /\ Fault /\ Becomes("running", "failed")
        /\ \/ LosesOutputs /\ UNCHANGED log
           \/ (seq = 0 \/ LateReplies) /\ log' = Append(log, Entry("out", seq + 1))
  /\ OtherThanModule

Raises ==
  /\ Becomes("running", "failed")
  /\ Quiet /\ OtherThanModule /\ UNCHANGED seq

\* A failed module sends its error as one more output, and stop() returns at
\* once: nothing ends the stream.
ReportFailure ==
  /\ Becomes("failed", "over")
  /\ seq' = seq + 1
  /\ Append1(Entry("out", seq + 1)) \/ AppendRaises(Entry("out", seq + 1))
  /\ OtherThanModule

\* A module that finished or was cancelled writes eos from stop().
Stop ==
  /\ Becomes("running", "over")
  /\ Append1(Eos) \/ AppendRaises(Eos)
  /\ OtherThanModule /\ UNCHANGED seq

Module == Prepared \/ RunnerFails \/ Output \/ Raises \/ ReportFailure \/ Stop

Next == (\E r \in Requests : Handler(r) \/ CancelStart(r) \/ Dial(r)) \/ Module

\* The event loop resumes every handler and every dial that can go on; each
\* wait of a dial is bounded by a timeout.  Nothing is assumed of the module,
\* or of callers: one may cancel its StartStream, or not.
Fairness == \A r \in Requests : WF_vars(Handler(r)) /\ WF_vars(Dial(r))

Spec == Init /\ [][Next]_vars /\ Fairness
----------------------------------------------------------------------------
(* Properties                                                              *)

Lost == {"cancelled", "stranded", "abandoned"}
Dialing == {"dialing", "backoff"} \cup Connected
Entries == [kind : {"start", "out", "error", "eos"}, seq : Nat]
Frames  == [label : Nat, kind : {"start", "out", "error", "end"}, seq : Nat]
Dials   == [phase : {"none", "done"} \cup Dialing, resume : BOOLEAN,
            spawned : BOOLEAN, pos : Nat, last : Nat, label : Nat, skip : Int,
            delivered : BOOLEAN, eosDue : BOOLEAN, wire : Seq(Frames)]

TypeOK ==
  /\ req \in [Requests -> {"idle", "claiming", "seeding", "full", "unseeded",
                            "released", "accepted", "refused"} \cup Lost]
  /\ claim \in BOOLEAN
  /\ session \in Requests \cup {None}
  /\ dial \in [Requests -> Dials]
  /\ log \in Seq(Entries)
  /\ module \in {"none", "starting", "running", "failed", "over"}
  /\ runs \in Nat /\ seq \in Nat /\ cursor \in Nat
  /\ got \in Seq(Frames)
  /\ faults \in 0..MaxFaults /\ redials \in 0..MaxRedials

IsOut(e) == e.kind = "out"

\* The elements of s at some places, in order: their seq.
SeqsAt(s, places) ==
  [k \in 1..Cardinality(places) |-> s[Ranked(places)[k]].seq]

\* The stream up to its first eos: what a reader ever sees.
Readable(i) == \A j \in 1..i : log[j].kind # "eos"

WrittenAt  == {i \in 1..Len(log) : IsOut(log[i]) /\ Readable(i)}
ReceivedAt == {i \in 1..Len(got) : IsOut(got[i])}

Delivery == INSTANCE OrderedDelivery
              WITH Outputs <- 1..(MaxOut + 1),
                   written <- SeqsAt(log, WrittenAt), delivered <- SeqsAt(got, ReceivedAt)
\* However often the connection breaks and the dial resumes, the consumer
\* receives the module's outputs each once, none missing, in the order the
\* module wrote them (_dial_consumer, _consume_from_redis, read_structs).
ImplementsDelivery == Delivery!Spec

\* A task id is dialled by one request and its module is started once, however
\* StartStream calls interleave and whatever Redis command raises
\* (RedisIdempotency: "atomic claim guarding at-most-once execution").
RunsOnce ==
  /\ runs <= 1
  /\ \A r, s \in Requests :
       (dial[r].phase # "none" /\ dial[s].phase # "none") => r = s

\* Whoever is dialling, or about to, owns the claim: no failure path of
\* another StartStream takes it away, so the next one is still refused.
ClaimCoversRun ==
  (module # "none" \/ \E r \in Requests : req[r] \in {"seeding", "accepted"})
    => claim

\* The claim is what makes a run happen at most once.
RunsOnceClaimed == RunsOnce /\ ClaimCoversRun

\* stream.end never overtakes an output, on whichever connection it arrives:
\* who has received it has received every output of the stream (the sentinels
\* of a reader cut off by Redis carry label 0 and do not count).
EndIsComplete ==
  (\E i \in 1..Len(got) : got[i].kind = "end" /\ got[i].label > 0)
    => SeqsAt(got, ReceivedAt) = SeqsAt(log, WrittenAt)

\* A session does not outlive its request: it leaves the registry when the
\* request is undone or its dial ends, and a dial ends even if the consumer
\* never answers and the module never writes.  The exception is a handler that
\* was cancelled after register(): its session is taken by no dial, and the
\* registry's backstop looks only at dials that are over.
SessionsFreed ==
  \A r \in Requests :
    (session = r) ~> (session # r \/ req[r] \in {"stranded", "abandoned"})
=============================================================================
