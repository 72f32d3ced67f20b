------------------------ MODULE GatewayStream_proofs ------------------------
(***************************************************************************)
(* The at-most-once guarantees of GatewayStream, for any number of         *)
(* StartStream calls, outputs, re-dials and Redis failures; and, where     *)
(* every output is written, that a client who reads stream.end holds all   *)
(* of them, and that the whole implements OrderedDelivery.                 *)
(***************************************************************************)
EXTENDS GatewayStream, FiniteSetTheorems, FunctionTheorems, TLAPS

----------------------------------------------------------------------------
(* Types                                                                   *)

\* The dial that no request has made yet is a dial.
LEMMA UnconnectedType == Unconnected \in Dials
BY DEF Unconnected, Dials, Dialing, Connected, Frames

\* Before any request every variable has its type.
LEMMA TypeInit == Init => TypeOK
<1> SUFFICES ASSUME Init PROVE TypeOK
  OBVIOUS
<1>1. dial \in [Requests -> Dials]
  BY UnconnectedType DEF Init
<1>2. log \in Seq(Entries) /\ got \in Seq(Frames)
  BY DEF Init
<1>3. faults \in 0..MaxFaults /\ redials \in 0..MaxRedials
  BY ConstantsOK DEF Init
<1> QED
  BY <1>1, <1>2, <1>3 DEF Init, TypeOK

(* Whatever a Redis write does, the stream stays a stream. *)
LEMMA WriteType ==
  ASSUME log \in Seq(Entries), faults \in 0..MaxFaults, NEW e \in Entries,
         Quiet \/ Append1(e) \/ AppendRaises(e) \/ EmitFatal
  PROVE  log' \in Seq(Entries) /\ faults' \in 0..MaxFaults
<1> DEFINE Good == Error \in Entries /\ Eos \in Entries
<1>1. Good
  BY DEF Error, Eos, Entry, Entries
<1>2. Fault \/ Fine => faults' \in 0..MaxFaults
  BY ConstantsOK DEF Fault, Fine
<1>3. CASE Quiet \/ Append1(e)
  BY <1>2, <1>3 DEF Quiet, Append1, Fine
<1>4. CASE AppendRaises(e)
  BY <1>2, <1>4 DEF AppendRaises
<1>5. CASE EmitFatal
  <2>1. <<Error, Eos>> \in Seq(Entries)
    BY <1>1
  <2>2. log \o <<Error, Eos>> \in Seq(Entries) /\ Append(log, Error) \in Seq(Entries)
    BY <2>1, <1>1
  <2> HIDE DEF Good
  <2> QED
    BY <1>2, <1>5, <2>2 DEF EmitFatal, AppendRaises
<1> QED
  BY <1>3, <1>4, <1>5

\* Whatever is appended to a stream is an entry.
LEMMA EntryType ==
  /\ Error \in Entries /\ Eos \in Entries /\ Entry("start", 0) \in Entries
  /\ \A n \in Nat : Entry("out", n) \in Entries
BY DEF Error, Eos, Entry, Entries

\* A dial that moves on stays a dial.
LEMMA SetType ==
  ASSUME dial \in [Requests -> Dials], NEW r \in Requests, NEW d \in Dials, Set(r, d)
  PROVE  dial' \in [Requests -> Dials]
BY DEF Set

\* The two ways a dial ends: for good, and for another try.
LEMMA EndDialType ==
  ASSUME TypeOK, NEW r \in Requests, EndDial(r) \/ Retry(r)
  PROVE  /\ dial' \in [Requests -> Dials]
         /\ session' \in Requests \cup {None}
         /\ redials' \in 0..MaxRedials
<1> DEFINE Ended == [Unconnected EXCEPT !.phase = "done", !.eosDue = dial[r].eosDue]
           Waiting == [Unconnected EXCEPT !.phase = "backoff", !.spawned = TRUE,
                                          !.eosDue = dial[r].eosDue]
<1>1. dial[r].eosDue \in BOOLEAN
  BY DEF TypeOK, Dials
<1>2. Ended \in Dials /\ Waiting \in Dials
  BY <1>1, UnconnectedType DEF Dials, Dialing
<1>3. CASE EndDial(r)
  BY <1>2, <1>3, SetType DEF EndDial, TypeOK
<1>4. CASE Retry(r)
  BY <1>2, <1>3, <1>4, SetType, ConstantsOK DEF Retry, TypeOK
<1> QED
  BY <1>3, <1>4

\* StartStream keeps the types.
LEMMA HandlerType ==
  ASSUME TypeOK, NEW r \in Requests, Handler(r)
  PROVE  TypeOK'
<1> USE DEF Handler, StartStream, ClaimTask, ClaimRefused, Seed, SeedRaises, Release,
            Unregister, OtherThanStart, Step
<1>1. log' \in Seq(Entries) /\ faults' \in 0..MaxFaults
  <2>1. Quiet \/ (\E e \in Entries : Append1(e) \/ AppendRaises(e))
        \/ (UNCHANGED log /\ (Fault \/ Fine))
    BY EntryType
  <2>2. Fault \/ Fine => faults' \in 0..MaxFaults
    BY ConstantsOK DEF Fault, Fine, TypeOK
  <2> QED
    BY <2>1, <2>2, WriteType, EntryType DEF TypeOK
<1>2. dial' \in [Requests -> Dials]
  <2>1. CASE Seed(r)
    <3>0. dial[r] \in Dials
      BY DEF TypeOK
    <3>1. [dial[r] EXCEPT !.phase = "dialing"] \in Dials
      BY <3>0 DEF Dials, Dialing
    <3> QED
      BY <2>1, <3>1 DEF TypeOK
  <2>2. CASE ~Seed(r)
    BY <2>2 DEF TypeOK
  <2> QED
    BY <2>1, <2>2
<1>3. req' \in [Requests -> {"idle", "claiming", "seeding", "full", "unseeded",
                            "released", "accepted", "refused"} \cup Lost]
  BY DEF TypeOK
<1>4. claim' \in BOOLEAN /\ session' \in Requests \cup {None}
  BY DEF TypeOK
<1>5. UNCHANGED <<module, runs, seq, got, cursor, redials>>
  BY DEF OtherThanStart
<1> QED
  BY <1>1, <1>2, <1>3, <1>4, <1>5 DEF TypeOK

\* So does the cancellation of a StartStream.
LEMMA CancelType ==
  ASSUME TypeOK, NEW r \in Requests, CancelStart(r)
  PROVE  TypeOK'
<1>1. log' \in Seq(Entries)
  <2>1. log' \in {log, Append(log, Entry("start", 0))}
    BY DEF CancelStart
  <2>2. log \in Seq(Entries) /\ Entry("start", 0) \in Entries
    BY EntryType DEF TypeOK
  <2> QED
    BY <2>1, <2>2
<1>2. req' \in [Requests -> {"idle", "claiming", "seeding", "full", "unseeded",
                            "released", "accepted", "refused"} \cup Lost]
  BY DEF CancelStart, Step, TypeOK, Lost
<1>3. claim' \in BOOLEAN
  BY DEF CancelStart, TypeOK
<1>4. UNCHANGED <<faults, session, dial, module, runs, seq, got, cursor, redials>>
  BY DEF CancelStart, Fine, OtherThanStart
<1> QED
  BY <1>1, <1>2, <1>3, <1>4 DEF TypeOK

\* So does the module.
LEMMA ModuleType == TypeOK /\ Module => TypeOK'
<1> SUFFICES ASSUME TypeOK, Module PROVE TypeOK'
  OBVIOUS
<1> USE DEF Module, Prepared, RunnerFails, Output, Raises, ReportFailure, Stop,
            OtherThanModule, Becomes
<1>1. seq' \in Nat /\ seq + 1 \in Nat
  BY DEF TypeOK
<1>2. log' \in Seq(Entries) /\ faults' \in 0..MaxFaults
  <2>1. \/ Quiet \/ EmitFatal
        \/ \E e \in Entries : Append1(e) \/ AppendRaises(e)
        \/ Fault /\ UNCHANGED log
        \/ Fault /\ log' = Append(log, Entry("out", seq + 1))
    BY <1>1, EntryType
  <2>2. Fault => faults' \in 0..MaxFaults
    BY ConstantsOK DEF Fault, TypeOK
  <2>3. CASE Fault /\ log' = Append(log, Entry("out", seq + 1))
    BY <2>2, <2>3, <1>1, EntryType DEF TypeOK
  <2> QED
    BY <2>1, <2>2, <2>3, WriteType, EntryType DEF TypeOK
<1>3. module' \in {"none", "starting", "running", "failed", "over"}
  BY DEF TypeOK
<1> QED
  BY <1>1, <1>2, <1>3 DEF TypeOK

(* What a step of a dial makes of its own record, the ends and retries of   *)
(* an attempt aside, is again a dial.                                       *)
LEMMA DialRecordType ==
  ASSUME TypeOK, NEW r \in Requests,
         \/ \E p \in Connected \cup {"dialing"} : Set(r, [dial[r] EXCEPT !.phase = p])
         \/ Set(r, [dial[r] EXCEPT !.phase = "dialing", !.resume = TRUE])
         \/ Set(r, [dial[r] EXCEPT !.phase = "draining", !.spawned = TRUE])
         \/ Set(r, [dial[r] EXCEPT !.phase = "closing", !.delivered = TRUE])
         \/ Set(r, [dial[r] EXCEPT !.phase = "closing", !.eosDue = TRUE])
         \/ Set(r, [dial[r] EXCEPT !.eosDue = FALSE])
  PROVE  dial' \in [Requests -> Dials]
<1>1. dial[r] \in Dials
  BY DEF TypeOK
<1> DEFINE D == dial[r]
<1>2. \A p \in Connected \cup {"dialing"} : [D EXCEPT !.phase = p] \in Dials
  BY <1>1 DEF Dials, Dialing
<1>3. /\ [D EXCEPT !.phase = "dialing", !.resume = TRUE] \in Dials
      /\ [D EXCEPT !.eosDue = FALSE] \in Dials
  BY <1>1 DEF Dials, Dialing
<1>4. /\ [D EXCEPT !.phase = "draining", !.spawned = TRUE] \in Dials
      /\ [D EXCEPT !.phase = "closing", !.delivered = TRUE] \in Dials
      /\ [D EXCEPT !.phase = "closing", !.eosDue = TRUE] \in Dials
  BY <1>1 DEF Dials, Dialing, Connected
<1> HIDE DEF D
<1>5. \E d \in Dials : Set(r, d)
  BY <1>2, <1>3, <1>4 DEF D
<1> QED
  BY <1>5, SetType DEF TypeOK

(* A reader that puts an entry on the wire, or skips it, stays a dial. *)
LEMMA ReadEntryType ==
  ASSUME NEW d \in Dials, NEW e \in Entries, e.kind # "eos"
  PROVE  ReadEntry(d, e) \in Dials
<1> DEFINE f == Frame(Labelled(d, e), e.kind, e.seq)
           read == [d EXCEPT !.pos = @ + 1, !.last = e.seq]
           w == Append(d.wire, f)
<1>1. d.label \in Nat /\ d.pos \in Nat /\ d.wire \in Seq(Frames)
  BY DEF Dials
<1>2. e.seq \in Nat /\ e.kind \in {"start", "out", "error"}
  BY DEF Entries
<1>3. Labelled(d, e) \in Nat
  BY <1>1, <1>2 DEF Labelled
<1>4. f \in Frames
  BY <1>2, <1>3 DEF Frame, Frames
<1>5. w \in Seq(Frames)
  BY <1>1, <1>4
<1>6. read \in Dials /\ read.wire = d.wire
  <2>1. \A n, l \in Nat : LET x == [d EXCEPT !.pos = n, !.last = l]
                          IN  x \in Dials /\ x.wire = d.wire
    BY DEF Dials
  <2>2. d.pos + 1 \in Nat
    BY <1>1
  <2> QED
    BY <1>2, <2>1, <2>2
<1>7. [read EXCEPT !.label = Labelled(d, e), !.wire = w] \in Dials
  <2> HIDE DEF read, w
  <2> QED
    BY <1>3, <1>5, <1>6 DEF Dials
<1> QED
  BY <1>6, <1>7 DEF ReadEntry

\* The end frame goes to the wire with the label that EndLabel gives it.
LEMMA EndFrameType ==
  ASSUME NEW d \in Dials
  PROVE  [d EXCEPT !.phase = "ending",
                   !.wire = Append(@, Frame(EndLabel(d), "end", 0))] \in Dials
<1> DEFINE w == Append(d.wire, Frame(EndLabel(d), "end", 0))
<1>1. d.label \in Nat /\ d.last \in Nat /\ d.wire \in Seq(Frames)
  BY DEF Dials
<1>2. Frame(EndLabel(d), "end", 0) \in Frames
  BY <1>1 DEF Frame, Frames, EndLabel
<1>3. w \in Seq(Frames)
  BY <1>1, <1>2
<1>4. [d EXCEPT !.phase = "ending", !.wire = w] \in Dials
  <2> HIDE DEF w
  <2> QED
    BY <1>3 DEF Dials, Dialing, Connected
<1> QED
  BY <1>4

\* A reader that passes on an entry stays a dial.
LEMMA ReadType ==
  ASSUME TypeOK, NEW r \in Requests, Read(r)
  PROVE  dial' \in [Requests -> Dials]
<1>1. dial[r] \in Dials
  BY DEF TypeOK
<1>2. log[dial[r].pos + 1] \in Entries
  BY <1>1 DEF TypeOK, Read, Dials
<1> QED
  BY <1>1, <1>2, ReadEntryType, EndFrameType, SetType DEF Read, TypeOK

\* So does one whose read raises.
LEMMA ReadRaisesType ==
  ASSUME TypeOK, NEW r \in Requests, ReadRaises(r)
  PROVE  dial' \in [Requests -> Dials]
<1> DEFINE d == dial[r]
           w == d.wire \o <<Frame(0, "error", 0), Frame(0, "end", 0)>>
<1>1. d \in Dials /\ d.wire \in Seq(Frames)
  BY DEF TypeOK, Dials
<1>2. <<Frame(0, "error", 0), Frame(0, "end", 0)>> \in Seq(Frames)
  BY DEF Frame, Frames
<1>3. w \in Seq(Frames)
  BY <1>1, <1>2
<1>4. [d EXCEPT !.phase = "closing", !.wire = w] \in Dials
  <2> HIDE DEF w, d
  <2> QED
    BY <1>1, <1>3 DEF Dials, Dialing, Connected
<1> QED
  BY <1>4, SetType DEF ReadRaises, TypeOK

\* What the consumer receives are frames, and its cursor is a number.
LEMMA ReceiveType ==
  ASSUME TypeOK, NEW r \in Requests, Receive(r)
  PROVE  /\ dial' \in [Requests -> Dials]
         /\ got' \in Seq(Frames) /\ cursor' \in Nat
<1> DEFINE d == dial[r]
<1>1. d \in Dials /\ d.wire \in Seq(Frames) /\ d.wire # <<>>
  BY DEF TypeOK, Dials, Receive
<1>2. Head(d.wire) \in Frames /\ Tail(d.wire) \in Seq(Frames)
  BY <1>1
<1>3. [d EXCEPT !.wire = Tail(@)] \in Dials
  <2> HIDE DEF d
  <2> QED
    BY <1>1, <1>2 DEF Dials
<1>4. Head(d.wire).label \in Nat
  BY <1>2 DEF Frames
<1> QED
  BY <1>2, <1>3, <1>4, SetType DEF Receive, TypeOK

\* The dial-back keeps the types.
LEMMA DialType ==
  ASSUME TypeOK, NEW r \in Requests, Dial(r)
  PROVE  TypeOK'
<1> USE DEF OtherThanDial, ConsumerIdle, SameModule
<1> DEFINE Rest == /\ req' = req /\ claim' = claim /\ seq' = seq
                   /\ got' \in Seq(Frames) /\ cursor' \in Nat
                   /\ module' \in {"none", "starting", "running", "failed", "over"}
                   /\ runs' \in Nat
           Conn == /\ dial' \in [Requests -> Dials]
                   /\ session' \in Requests \cup {None}
                   /\ redials' \in 0..MaxRedials
           Stream == log' \in Seq(Entries) /\ faults' \in 0..MaxFaults
<1>1. Stream
  <2>1. \/ Quiet \/ EmitFatal
        \/ \E e \in Entries : Append1(e) \/ AppendRaises(e)
        \/ Fault /\ UNCHANGED log
    BY EntryType DEF Dial, Connect, CannotDial, FirstReply, ResumeReply, Read, Drained,
       ReadRaises, IdleTimeout, WriteEos, HangUp, BreakDown, Redial, Receive, Fail
  <2>2. Fault => faults' \in 0..MaxFaults
    BY ConstantsOK DEF Fault, TypeOK
  <2> QED
    BY <2>1, <2>2, WriteType, EntryType DEF TypeOK
<1>2. Rest
  <2>1. CASE Receive(r)
    BY <2>1, ReceiveType DEF Receive, TypeOK
  <2>2. CASE FirstReply(r)
    BY <2>2 DEF FirstReply, TypeOK
  <2>3. CASE ~Receive(r) /\ ~FirstReply(r)
    BY <2>3 DEF Dial, Connect, CannotDial, ResumeReply, Read, Drained,
       ReadRaises, IdleTimeout, WriteEos, HangUp, BreakDown, Redial, TypeOK
  <2> QED
    BY <2>1, <2>2, <2>3
<1>3. Conn
  <2> USE DEF TypeOK
  <2>1. CASE CannotDial(r) \/ HangUp(r)
    BY <2>1, EndDialType DEF CannotDial, HangUp
  <2>2. CASE BreakDown(r)
    BY <2>2, EndDialType DEF BreakDown
  <2>3. CASE Connect(r)
    BY <2>3, EndDialType, DialRecordType DEF Connect, Connected
  <2>4. CASE FirstReply(r) \/ Drained(r)
    BY <2>4, DialRecordType DEF FirstReply, Drained
  <2>5. CASE IdleTimeout(r)
    BY <2>5, DialRecordType DEF IdleTimeout, Connected
  <2>6. CASE WriteEos(r) \/ Redial(r)
    BY <2>6, DialRecordType DEF WriteEos, Redial
  <2>7. CASE ResumeReply(r)
    <3> DEFINE d == dial[r]
    <3>1. d \in Dials /\ cursor \in Nat /\ SkipTo(cursor) \in Int
      BY DEF SkipTo
    <3>2. [d EXCEPT !.phase = "draining", !.label = cursor, !.skip = SkipTo(cursor)] \in Dials
      <4> HIDE DEF d
      <4> QED
        BY <3>1 DEF Dials, Dialing, Connected
    <3> QED
      BY <2>7, <3>2, SetType DEF ResumeReply
  <2>8. CASE Read(r)
    BY <2>8, ReadType DEF Read
  <2>9. CASE ReadRaises(r)
    BY <2>9, ReadRaisesType DEF ReadRaises
  <2>10. CASE Receive(r)
    BY <2>10, ReceiveType DEF Receive
  <2> QED
    BY <2>1, <2>2, <2>3, <2>4, <2>5, <2>6, <2>7, <2>8, <2>9, <2>10 DEF Dial
<1> QED
  BY <1>1, <1>2, <1>3 DEF TypeOK

\* Every step keeps the types.
LEMMA TypeStep == TypeOK /\ [Next]_vars => TypeOK'
<1> SUFFICES ASSUME TypeOK, [Next]_vars PROVE TypeOK'
  OBVIOUS
<1>1. CASE UNCHANGED vars
  BY <1>1 DEF TypeOK, vars
<1>2. CASE Next
  BY <1>2, HandlerType, CancelType, DialType, ModuleType DEF Next
<1> QED
  BY <1>1, <1>2

(* Every state of GatewayStream is well typed. *)
THEOREM TypeCorrect == Spec => []TypeOK
BY TypeInit, TypeStep, PTL DEF Spec

----------------------------------------------------------------------------
(* At most once.  RunsOnce is not inductive by itself: one has to know that *)
(* a handler between its claim and its answer, or cancelled there before it *)
(* gave the claim back, owns the claim alone, that only an accepted one has *)
(* a dial, and that a dial which has not yet heard from the consumer for the *)
(* first time has started no module.                                        *)

Owning == {"seeding", "full", "unseeded", "accepted", "stranded"}
Unheard(d) == d.phase \in {"dialing", "open"} /\ ~d.resume

OwnerAlone ==
  /\ \A r \in Requests : req[r] \in Owning => claim
  /\ \A r, s \in Requests : req[r] \in Owning /\ req[s] \in Owning => r = s

DialsAccepted == \A r \in Requests : dial[r].phase # "none" => req[r] = "accepted"

RunsCounted ==
  /\ runs <= 1
  /\ \A r \in Requests : Unheard(dial[r]) => runs = 0
  /\ runs # 0 => \E r \in Requests : dial[r].phase # "none"
  /\ module # "none" => runs # 0

OnceInv == TypeOK /\ OwnerAlone /\ DialsAccepted /\ RunsCounted

\* Before any request nobody owns the stream and nothing runs.
LEMMA OnceInit == Init => OnceInv
<1> SUFFICES ASSUME Init PROVE OnceInv
  OBVIOUS
<1>1. \A r \in Requests : req[r] = "idle" /\ dial[r].phase = "none"
  BY DEF Init, Unconnected
<1> QED
  BY <1>1, TypeInit DEF Init, OnceInv, OwnerAlone, DialsAccepted, RunsCounted, Owning, Unheard

\* Whatever StartStream does, one request owns the claim and only it gets a dial.
LEMMA HandlerOnce ==
  ASSUME OnceInv, NEW r \in Requests, Handler(r)
  PROVE  OwnerAlone' /\ DialsAccepted' /\ RunsCounted'
<1> USE DEF OnceInv, TypeOK
<1>1. /\ UNCHANGED <<runs, module>>
      /\ \A s \in Requests : s # r => req'[s] = req[s] /\ dial'[s] = dial[s]
  BY DEF Handler, StartStream, ClaimTask, ClaimRefused, Seed, SeedRaises, Release,
     Unregister, OtherThanStart, Step
<1>2. CASE Seed(r)
  <2>1. /\ req[r] = "seeding" /\ req'[r] = "accepted" /\ claim' = claim
        /\ dial'[r].phase = "dialing"
    BY <1>2 DEF Seed, Step, Dials
  <2>2. \A s \in Requests : dial[s].phase = "none"
    BY <2>1 DEF OwnerAlone, DialsAccepted, Owning
  <2>3. runs = 0
    BY <2>2 DEF RunsCounted
  <2> QED
    BY <1>1, <2>1, <2>2, <2>3 DEF OwnerAlone, DialsAccepted, RunsCounted, Owning, Unheard
<1>3. CASE ~Seed(r)
  <2>1. dial' = dial /\ req[r] # "accepted" /\ req'[r] # "accepted"
    BY <1>3 DEF Handler, StartStream, ClaimTask, ClaimRefused, SeedRaises, Release,
       Unregister, OtherThanStart, Step
  <2>2. \/ ~claim /\ claim'
        \/ req[r] \in Owning /\ (req'[r] \in Owning => claim' = claim)
        \/ req'[r] \notin Owning /\ (claim => claim')
    BY <1>3 DEF Handler, StartStream, ClaimTask, ClaimRefused, SeedRaises, Release,
       Unregister, OtherThanStart, Step, Owning
  <2>3. OwnerAlone'
    BY <1>1, <2>2 DEF OwnerAlone
  <2>4. DialsAccepted'
    BY <1>1, <2>1 DEF DialsAccepted
  <2>5. RunsCounted'
    BY <1>1, <2>1 DEF RunsCounted
  <2> QED
    BY <2>3, <2>4, <2>5
<1> QED
  BY <1>2, <1>3

\* A cancelled request keeps the claim or leaves it to nobody, and has no dial.
LEMMA CancelOnce ==
  ASSUME OnceInv, NEW r \in Requests, CancelStart(r)
  PROVE  OwnerAlone' /\ DialsAccepted' /\ RunsCounted'
<1> USE DEF OnceInv, TypeOK
<1>1. /\ UNCHANGED <<runs, module, dial>>
      /\ \A s \in Requests : s # r => req'[s] = req[s]
      /\ req[r] # "accepted"
  BY DEF CancelStart, OtherThanStart, Step
<1>2. \/ req[r] \in Owning /\ (req'[r] \in Owning => claim' = claim)
      \/ req'[r] \notin Owning /\ (claim => claim')
  BY DEF CancelStart, Step, Owning
<1>3. OwnerAlone'
  BY <1>1, <1>2 DEF OwnerAlone
<1>4. DialsAccepted'
  BY <1>1 DEF DialsAccepted
<1>5. RunsCounted'
  BY <1>1 DEF RunsCounted
<1> QED
  BY <1>3, <1>4, <1>5

(* What the steps of a dial have in common. *)
LEMMA DialStep ==
  ASSUME TypeOK, NEW r \in Requests, Dial(r)
  PROVE  /\ UNCHANGED <<req, claim>>
         /\ \A s \in Requests : s # r => dial'[s] = dial[s]
         /\ dial'[r].phase = "none" <=> dial[r].phase = "none"
         /\ \/ /\ UNCHANGED <<runs, module>>
               /\ Unheard(dial'[r]) => Unheard(dial[r])
            \/ /\ runs' = runs + 1
               /\ Unheard(dial[r]) /\ ~Unheard(dial'[r])
<1> USE DEF TypeOK, OtherThanDial, SameModule
<1>1. \E d : dial' = [dial EXCEPT ![r] = d]
  BY DEF Dial, Connect, CannotDial, FirstReply, ResumeReply, Read, Drained, ReadRaises,
     IdleTimeout, WriteEos, HangUp, BreakDown, Redial, Receive, Set, EndDial, Retry
<1>2. \A s \in Requests : s # r => dial'[s] = dial[s]
  BY <1>1
<1>3. dial[r] \in Dials
  OBVIOUS
<1>0. \A d : Set(r, d) => dial'[r] = d
  BY DEF Set
<1>4. EndDial(r) => dial'[r].phase = "done"
  BY <1>0 DEF EndDial, Unconnected
<1>5. Retry(r) => dial'[r].phase \in {"done", "backoff"}
  <2>1. [Unconnected EXCEPT !.phase = "backoff", !.spawned = TRUE,
                            !.eosDue = dial[r].eosDue].phase = "backoff"
    BY DEF Unconnected
  <2> QED
    BY <1>0, <1>4, <2>1 DEF Retry
<1>6. CASE CannotDial(r) \/ HangUp(r) \/ BreakDown(r)
  <2>1. UNCHANGED <<req, claim, runs, module>> /\ (EndDial(r) \/ Retry(r))
    BY <1>6 DEF CannotDial, HangUp, BreakDown
  <2>2. dial[r].phase # "none"
    BY <1>6 DEF CannotDial, HangUp, BreakDown, Connected
  <2>3. dial'[r].phase \in {"done", "backoff"}
    BY <2>1, <1>4, <1>5
  <2> HIDE DEF TypeOK
  <2> QED
    BY <1>2, <2>1, <2>2, <2>3 DEF Unheard
<1>7. CASE Connect(r)
  <2>1. /\ UNCHANGED <<req, claim, runs, module>> /\ dial[r].phase = "dialing"
        /\ EndDial(r) \/ Set(r, [dial[r] EXCEPT !.phase = "open"])
    BY <1>7 DEF Connect
  <2>2. /\ [dial[r] EXCEPT !.phase = "open"].phase = "open"
        /\ [dial[r] EXCEPT !.phase = "open"].resume = dial[r].resume
    BY <1>3 DEF Dials
  <2>3. CASE EndDial(r)
    <3>1. dial'[r].phase = "done"
      BY <1>4, <2>3
    <3> HIDE DEF TypeOK
    <3> QED
      BY <1>2, <2>1, <3>1 DEF Unheard
  <2>4. CASE Set(r, [dial[r] EXCEPT !.phase = "open"])
    <3>1. dial'[r] = [dial[r] EXCEPT !.phase = "open"]
      BY <1>0, <2>4
    <3> HIDE DEF TypeOK
    <3> QED
      BY <1>2, <2>1, <2>2, <3>1 DEF Unheard
  <2> QED
    BY <2>1, <2>3, <2>4
<1>8. CASE FirstReply(r)
  BY <1>2, <1>3, <1>8 DEF FirstReply, Set, Unheard, Dials
<1>9. CASE ResumeReply(r) \/ Drained(r) \/ ReadRaises(r) \/ IdleTimeout(r)
  <2>2. dial'[r].phase \notin {"none", "dialing", "open"}
    <3>1. CASE ReadRaises(r)
      <4>1. \A w : [dial[r] EXCEPT !.phase = "closing", !.wire = w].phase = "closing"
        BY <1>3 DEF Dials
      <4> QED
        BY <1>0, <3>1, <4>1 DEF ReadRaises
    <3>2. CASE ResumeReply(r)
      <4>1. \A l, k : [dial[r] EXCEPT !.phase = "draining", !.label = l,
                                      !.skip = k].phase = "draining"
        BY <1>3 DEF Dials
      <4>2. dial'[r] = [dial[r] EXCEPT !.phase = "draining", !.label = cursor,
                                       !.skip = SkipTo(cursor)]
        BY <1>0, <3>2, Zenon DEF ResumeReply
      <4> QED
        BY <4>1, <4>2
    <3>3. CASE Drained(r)
      BY <1>0, <1>3, <3>3 DEF Drained, Dials
    <3>4. CASE IdleTimeout(r)
      BY <1>0, <1>3, <3>4 DEF IdleTimeout, Dials
    <3> QED
      BY <1>9, <3>1, <3>2, <3>3, <3>4
  <2> QED
    BY <1>2, <1>9, <2>2 DEF ResumeReply, Drained, ReadRaises, IdleTimeout, Unheard
<1>12. CASE WriteEos(r)
  BY <1>0, <1>2, <1>3, <1>12 DEF WriteEos, Unheard, Dials
<1>10. CASE Read(r)
  BY <1>2, <1>3, <1>10 DEF Read, ReadEntry, Set, Unheard, Dials
<1>11. CASE Redial(r)
  BY <1>0, <1>2, <1>3, <1>11 DEF Redial, Unheard, Dials
<1>13. CASE Receive(r)
  BY <1>0, <1>2, <1>3, <1>13 DEF Receive, Unheard, Dials
<1> QED
  BY <1>6, <1>7, <1>8, <1>9, <1>10, <1>11, <1>12, <1>13 DEF Dial

\* A dial starts the module when it first hears from the consumer, and only then.
LEMMA DialOnce ==
  ASSUME OnceInv, NEW r \in Requests, Dial(r)
  PROVE  OwnerAlone' /\ DialsAccepted' /\ RunsCounted'
<1> USE DEF OnceInv
<1>1. OwnerAlone' /\ DialsAccepted'
  BY DialStep DEF OwnerAlone, DialsAccepted
<1>2. RunsCounted'
  <2>1. CASE UNCHANGED <<runs, module>>
    BY <2>1, DialStep DEF RunsCounted
  <2>2. CASE runs' # runs
    <3>1. runs' = runs + 1 /\ Unheard(dial[r]) /\ ~Unheard(dial'[r])
      BY <2>2, DialStep
    <3>2. runs = 0 /\ runs' = 1
      BY <3>1 DEF RunsCounted
    <3>3. \A s \in Requests : s # r => ~Unheard(dial'[s])
      BY <3>1, DialStep DEF OwnerAlone, DialsAccepted, Owning, Unheard
    <3>4. dial'[r].phase # "none"
      BY <3>1, DialStep DEF Unheard
    <3> QED
      BY <3>1, <3>2, <3>3, <3>4 DEF RunsCounted
  <2> QED
    BY <2>1, <2>2, DialStep DEF TypeOK
<1> QED
  BY <1>1, <1>2

\* Every step keeps the invariant.
LEMMA OnceStep == OnceInv /\ [Next]_vars => OnceInv'
<1> SUFFICES ASSUME OnceInv, [Next]_vars PROVE OnceInv'
  OBVIOUS
<1>1. CASE UNCHANGED vars
  BY <1>1, TypeStep DEF OnceInv, OwnerAlone, DialsAccepted, RunsCounted, Unheard, vars
<1>2. CASE Module
  <2>1. UNCHANGED <<req, claim, dial, runs>> /\ (module = "none" => module' = "none")
    BY <1>2 DEF Module, Prepared, RunnerFails, Output, Raises, ReportFailure, Stop,
       OtherThanModule, Becomes
  <2> QED
    BY <2>1, TypeStep DEF OnceInv, OwnerAlone, DialsAccepted, RunsCounted, Unheard
<1>3. CASE \E r \in Requests : Handler(r) \/ CancelStart(r) \/ Dial(r)
  BY <1>3, HandlerOnce, CancelOnce, DialOnce, TypeStep DEF OnceInv
<1> QED
  BY <1>1, <1>2, <1>3 DEF Next

(* One dial and one run of the module, however StartStream calls overlap   *)
(* and fail, however often the consumer's connection breaks.               *)
THEOREM RunsAtMostOnce == Spec => []RunsOnce
<1>1. OnceInv => RunsOnce
  BY DEF OnceInv, OwnerAlone, DialsAccepted, RunsCounted, RunsOnce, Owning
<1> QED
  BY <1>1, OnceInit, OnceStep, PTL DEF Spec

(* The claim of a task that is dialled, or may have been run, is never     *)
(* dropped: the failure paths of other StartStream calls leave it alone.   *)
THEOREM ClaimHeld == Spec => []ClaimCoversRun
<1>1. OnceInv => ClaimCoversRun
  BY DEF OnceInv, OwnerAlone, DialsAccepted, RunsCounted, ClaimCoversRun, Owning
<1> QED
  BY <1>1, OnceInit, OnceStep, PTL DEF Spec

(* However many StartStream calls race for a task and whatever fails: its  *)
(* module runs once, and under a claim that stays.                         *)
THEOREM RunsOnceUnderClaim == Spec => []RunsOnceClaimed
<1>1. RunsOnce /\ ClaimCoversRun => RunsOnceClaimed
  BY DEF RunsOnceClaimed
<1> QED
  BY <1>1, RunsAtMostOnce, ClaimHeld, PTL

----------------------------------------------------------------------------
(* What the consumer receives.  The invariant below speaks of the stream l, *)
(* the frames g received and w on the wire, the cursor c, the seq s and the *)
(* module m as parameters, so that each step is a fact about two values.    *)

\* The output n is among the first i entries of a stream, or of the frames.
Among(s, i, n) == \E j \in 1..i : IsOut(s[j]) /\ s[j].seq = n
Has(s, n) == Among(s, Len(s), n)

\* The outputs come in the order of their seq.
Rising(s) ==
  \A i, j \in 1..Len(s) : IsOut(s[i]) /\ IsOut(s[j]) /\ i < j => s[i].seq < s[j].seq

\* No end up to the entry i; the output n stands before every end.
Open(l, i) == \A j \in 1..i : l[j].kind # "eos"
Sent(l, n) == \E i \in 1..Len(l) : Open(l, i) /\ IsOut(l[i]) /\ l[i].seq = n
Ended(l) == \E i \in 1..Len(l) : l[i].kind = "eos"
Erred(l) == \E i \in 1..Len(l) : l[i].kind = "error"
NoOutput(l) == \A i \in 1..Len(l) : ~IsOut(l[i])
Clean(l, i) == \A j \in 1..i : l[j].kind \notin {"error", "eos"}

\* The module takes one seq after another and loses none before it is over;
\* up to the first error an entry's place is its seq plus one, which is why
\* the labels that a fresh dial counts are those that a resume computes.
LogStands(l, s, m) ==
  /\ \A i \in 1..Len(l) : IF IsOut(l[i]) THEN l[i].seq \in 1..s ELSE l[i].seq = 0
  /\ Rising(l)
  /\ \A i \in 1..Len(l) : IsOut(l[i]) => \A k \in 1..(l[i].seq - 1) : Among(l, i - 1, k)
  /\ \A i \in 1..Len(l) : Clean(l, i) => l[i].seq = i - 1
  /\ m # "over" => \A k \in 1..s : Has(l, k)
  /\ m \in {"none", "starting"} => s = 0

\* The cursor tells the received outputs from the others, and stays so when
\* the module writes the next one.
CursorStands(c, l, g, s, m) ==
  /\ \A n \in Nat : Has(g, n) => n < c
  /\ \A n \in Nat : Sent(l, n) /\ n < c => Has(g, n)
  /\ m # "over" /\ ~Ended(l) => c <= s + 1

GotStands(g, l) ==
  /\ \A n \in Nat : Has(g, n) => Sent(l, n)
  /\ Rising(g)
  /\ \A i \in 1..Len(g) : g[i].kind = "end" /\ g[i].label > 0 =>
       Ended(l) /\ \A n \in Nat : Sent(l, n) => Has(g, n)

\* The frames on the wire go on where the received ones stop: whatever a
\* frame's label covers was received, or is on the wire before it.
WireStands(w, l, g, s, m) ==
  /\ \A i \in 1..Len(w) : IsOut(w[i]) =>
       /\ w[i].label = w[i].seq + 1 /\ Sent(l, w[i].seq)
       /\ \A n \in Nat : Has(g, n) => n < w[i].seq
  /\ Rising(w)
  /\ \A i \in 1..Len(w) :
       /\ m # "over" /\ ~Ended(l) => w[i].label <= s + 1
       /\ \A n \in Nat : Sent(l, n) /\ n < w[i].label => Has(g, n) \/ Among(w, i, n)
       /\ w[i].kind = "end" /\ w[i].label > 0 =>
            Ended(l) /\ \A n \in Nat : Sent(l, n) => Has(g, n) \/ Among(w, i, n)

\* A reader has passed on what it read, and what the consumer had before it
\* is behind its skip; a fresh one counts the entries, and meets an error
\* only in a stream without outputs.
ReadStands(d, l, g, c, m) ==
  /\ d.pos <= Len(l) /\ Open(l, d.pos)
  /\ \A n \in Nat : Among(l, d.pos, n) => Has(g, n) \/ Has(d.wire, n)
  /\ \A n \in Nat : Has(d.wire, n) => Among(l, d.pos, n)
  /\ d.resume =>
       /\ d.skip < c
       /\ \A n \in Nat : Has(g, n) => n <= d.skip \/ Among(l, d.pos, n)
  /\ ~d.resume =>
       /\ d.label = d.pos
       /\ Erred(l) => m = "over" /\ NoOutput(l)
       /\ \A n \in Nat : Has(g, n) => Among(l, d.pos, n)

Sending == {"draining", "ending", "closing"}
DialStands(d, l, g, c, s, m, k) ==
  /\ WireStands(d.wire, l, g, s, m)
  /\ d.phase = "none" => d = Unconnected
  /\ d.phase \notin Sending => d.wire = <<>>
  /\ d.phase \in {"dialing", "open", "backoff"} => d.pos = 0 /\ d.label = 0
  /\ d.phase = "draining" => ReadStands(d, l, g, c, m)
  /\ Unheard(d) => ~d.eosDue /\ ~Erred(l)
  /\ d.spawned \/ d.resume \/ d.phase \in {"backoff"} \cup Sending => k # 0

DeliverInv ==
  /\ LogStands(log, seq, module)
  /\ CursorStands(cursor, log, got, seq, module)
  /\ GotStands(got, log)
  /\ \A r \in Requests :
       DialStands(dial[r], log, got, cursor, seq, module, runs)
  /\ (\E r \in Requests : req[r] = "accepted") => log # <<>>
  /\ log # <<>> => \E r \in Requests : req[r] \in {"accepted", "stranded"}
  /\ runs = 0 => got = <<>>

\* Every command of Redis that raises has done nothing, and no output is lost.
Reliable == ~LateReplies /\ ~LosesOutputs
FullInv == OnceInv /\ DeliverInv

(* The outputs of a sequence that gains an element, or loses its first.    *)
LEMMA AmongAppend ==
  ASSUME NEW S, NEW s \in Seq(S), NEW x \in S, NEW n
  PROVE  /\ \A i \in 0..Len(s) : Among(Append(s, x), i, n) <=> Among(s, i, n)
         /\ Has(Append(s, x), n) <=> Has(s, n) \/ (IsOut(x) /\ x.seq = n)
<1> DEFINE t == Append(s, x)
<1>1. /\ Len(t) = Len(s) + 1 /\ Len(s) \in Nat
      /\ \A i \in 1..Len(s) : t[i] = s[i]
      /\ t[Len(s) + 1] = x
  OBVIOUS
<1> HIDE DEF t
<1>2. \A i \in 0..Len(s) : Among(t, i, n) <=> Among(s, i, n)
  BY <1>1 DEF Among
<1>3. Has(t, n) <=> \E j \in 1..(Len(s) + 1) : IsOut(t[j]) /\ t[j].seq = n
  BY <1>1 DEF Has, Among
<1>4. 1..(Len(s) + 1) = 1..Len(s) \cup {Len(s) + 1}
  BY <1>1
<1>5. Has(t, n) <=> (\E j \in 1..Len(s) : IsOut(t[j]) /\ t[j].seq = n)
                    \/ (IsOut(x) /\ x.seq = n)
  BY <1>1, <1>3, <1>4
<1>6. Has(t, n) <=> Has(s, n) \/ (IsOut(x) /\ x.seq = n)
  BY <1>1, <1>5 DEF Has, Among
<1> QED
  BY <1>2, <1>6 DEF t

\* The outputs of a sequence are those of its tail, and its head when it is one.
LEMMA AmongTail ==
  ASSUME NEW S, NEW s \in Seq(S), s # <<>>, NEW n, NEW i \in 0..Len(Tail(s))
  PROVE  Among(s, i + 1, n) <=> (IsOut(Head(s)) /\ Head(s).seq = n) \/ Among(Tail(s), i, n)
<1>1. /\ Len(s) \in Nat /\ Len(Tail(s)) = Len(s) - 1 /\ Head(s) = s[1]
      /\ \A j \in 1..Len(Tail(s)) : Tail(s)[j] = s[j + 1]
  OBVIOUS
<1>2. ASSUME NEW j \in 1..(i + 1), IsOut(s[j]), s[j].seq = n
      PROVE  (IsOut(Head(s)) /\ Head(s).seq = n) \/ Among(Tail(s), i, n)
  <2>1. CASE j = 1
    BY <1>1, <1>2, <2>1
  <2>2. CASE j # 1
    <3>1. j - 1 \in 1..i /\ Tail(s)[j - 1] = s[j]
      BY <1>1, <2>2
    <3> QED
      BY <1>2, <3>1 DEF Among
  <2> QED
    BY <2>1, <2>2
<1>3. ASSUME NEW j \in 1..i, IsOut(Tail(s)[j]), Tail(s)[j].seq = n
      PROVE  Among(s, i + 1, n)
  <2>1. j + 1 \in 1..(i + 1) /\ Tail(s)[j] = s[j + 1]
    BY <1>1
  <2> QED
    BY <1>3, <2>1 DEF Among
<1>4. IsOut(Head(s)) /\ Head(s).seq = n => Among(s, i + 1, n)
  BY <1>1 DEF Among
<1> QED
  BY <1>2, <1>3, <1>4 DEF Among

\* An output later than all the others can be appended.
LEMMA RisingAppend ==
  ASSUME NEW S, NEW s \in Seq(S), NEW x \in S, Rising(s),
         IsOut(x) => \A i \in 1..Len(s) : IsOut(s[i]) => s[i].seq < x.seq
  PROVE  Rising(Append(s, x))
<1> DEFINE t == Append(s, x)
<1>1. /\ Len(t) = Len(s) + 1 /\ Len(s) \in Nat
      /\ \A i \in 1..Len(s) : t[i] = s[i]
      /\ t[Len(s) + 1] = x
  OBVIOUS
<1> HIDE DEF t
<1>2. SUFFICES ASSUME NEW i \in 1..Len(t), NEW j \in 1..Len(t),
                      IsOut(t[i]), IsOut(t[j]), i < j
               PROVE  t[i].seq < t[j].seq
  BY DEF Rising, t
<1>3. i \in 1..Len(s) /\ t[i] = s[i]
  BY <1>1, <1>2
<1>4. CASE j \in 1..Len(s)
  BY <1>1, <1>2, <1>3, <1>4 DEF Rising
<1>5. CASE j = Len(s) + 1
  BY <1>1, <1>2, <1>3, <1>5
<1> QED
  BY <1>1, <1>4, <1>5

\* Without its head the sequence still rises, and the head is before all the rest.
LEMMA RisingTail ==
  ASSUME NEW S, NEW s \in Seq(S), s # <<>>, Rising(s)
  PROVE  /\ Rising(Tail(s))
         /\ IsOut(Head(s)) => \A i \in 1..Len(Tail(s)) :
                                IsOut(Tail(s)[i]) => Head(s).seq < Tail(s)[i].seq
<1>1. /\ Len(s) \in Nat /\ Len(Tail(s)) = Len(s) - 1 /\ Head(s) = s[1]
      /\ 1 \in 1..Len(s)
      /\ \A j \in 1..Len(Tail(s)) : Tail(s)[j] = s[j + 1] /\ j + 1 \in 1..Len(s) /\ 1 < j + 1
  OBVIOUS
<1>2. Rising(Tail(s))
  <2>1. SUFFICES ASSUME NEW i \in 1..Len(Tail(s)), NEW j \in 1..Len(Tail(s)),
                        IsOut(Tail(s)[i]), IsOut(Tail(s)[j]), i < j
                 PROVE  Tail(s)[i].seq < Tail(s)[j].seq
    BY DEF Rising
  <2>2. i + 1 < j + 1
    BY <2>1
  <2> QED
    BY <1>1, <2>1, <2>2 DEF Rising
<1>3. ASSUME IsOut(Head(s)), NEW i \in 1..Len(Tail(s)), IsOut(Tail(s)[i])
      PROVE  Head(s).seq < Tail(s)[i].seq
  BY <1>1, <1>3 DEF Rising
<1> QED
  BY <1>2, <1>3

(* A stream only grows: what a step appends are errors and ends, and, while *)
(* the module is not over, the output with its next seq.                   *)
Grown(l, l2, s, m) ==
  /\ l \in Seq(Entries) /\ l2 \in Seq(Entries) /\ Len(l) <= Len(l2)
  /\ \A i \in 1..Len(l) : l2[i] = l[i]
  /\ \A i \in (Len(l) + 1)..Len(l2) : IsOut(l2[i]) => l2[i].seq = s + 1 /\ m # "over"

\* Appending one entry is growing, when an output takes the next seq.
LEMMA GrownByOne ==
  ASSUME NEW l \in Seq(Entries), NEW e \in Entries, NEW s, NEW m,
         IsOut(e) => e.seq = s + 1 /\ m # "over"
  PROVE  Grown(l, Append(l, e), s, m)
<1> DEFINE t == Append(l, e)
<1>1. /\ Len(t) = Len(l) + 1 /\ Len(l) \in Nat /\ t \in Seq(Entries)
      /\ \A i \in 1..Len(l) : t[i] = l[i]
      /\ t[Len(l) + 1] = e
  OBVIOUS
<1> HIDE DEF t
<1>2. \A i \in (Len(l) + 1)..Len(t) : t[i] = e
  BY <1>1
<1>3. Len(l) <= Len(t)
  BY <1>1
<1>4. Grown(l, t, s, m)
  BY <1>1, <1>2, <1>3 DEF Grown
<1> QED
  BY <1>4 DEF t

\* So is appending nothing.
LEMMA GrownNot ==
  ASSUME NEW l \in Seq(Entries), NEW s, NEW m
  PROVE  Grown(l, l, s, m)
<1>1. Len(l) \in Nat /\ Len(l) <= Len(l) /\ (Len(l) + 1)..Len(l) = {}
  OBVIOUS
<1> QED
  BY <1>1 DEF Grown

(* Sent, Ended and Erred of a stream that grows. *)
LEMMA GrownSent ==
  ASSUME NEW l, NEW l2, NEW s, NEW m, Grown(l, l2, s, m)
  PROVE  /\ Ended(l) => Ended(l2)
         /\ \A n : Sent(l, n) => Sent(l2, n)
         /\ \A n : Sent(l2, n) => Sent(l, n) \/ (n = s + 1 /\ ~Ended(l) /\ m # "over")
<1>1. /\ Len(l) \in Nat /\ Len(l2) \in Nat /\ Len(l) <= Len(l2)
      /\ \A i \in 1..Len(l) : l2[i] = l[i] /\ i \in 1..Len(l2)
      /\ \A i \in 1..Len(l2) : i \in 1..Len(l) \/ i \in (Len(l) + 1)..Len(l2)
  BY DEF Grown
<1>2. Ended(l) => Ended(l2)
  BY <1>1 DEF Ended
<1>3. \A i \in 1..Len(l) : Open(l2, i) <=> Open(l, i)
  <2>1. TAKE i \in 1..Len(l)
  <2>2. \A j \in 1..i : j \in 1..Len(l)
    BY <1>1
  <2> QED
    BY <1>1, <2>2 DEF Open
<1>4. ASSUME NEW n, Sent(l, n) PROVE Sent(l2, n)
  BY <1>1, <1>3, <1>4 DEF Sent
<1>5. ASSUME NEW n, Sent(l2, n)
      PROVE  Sent(l, n) \/ (n = s + 1 /\ ~Ended(l) /\ m # "over")
  <2>1. PICK i \in 1..Len(l2) : Open(l2, i) /\ IsOut(l2[i]) /\ l2[i].seq = n
    BY <1>5 DEF Sent
  <2>2. CASE i \in 1..Len(l)
    BY <1>1, <1>3, <2>1, <2>2 DEF Sent
  <2>3. CASE i \in (Len(l) + 1)..Len(l2)
    <3>1. n = s + 1 /\ m # "over"
      BY <2>1, <2>3 DEF Grown
    <3>2. \A j \in 1..Len(l) : j \in 1..i
      BY <1>1, <2>3
    <3>3. ~Ended(l)
      BY <1>1, <2>1, <3>2 DEF Ended, Open
    <3> QED
      BY <3>1, <3>3
  <2> QED
    BY <1>1, <2>2, <2>3
<1> QED
  BY <1>2, <1>4, <1>5

\* A stream that grew twice has grown.
LEMMA GrownTwice ==
  ASSUME NEW l, NEW l2, NEW l3, NEW s, NEW m, Grown(l, l2, s, m), Grown(l2, l3, s, m)
  PROVE  Grown(l, l3, s, m)
<1>1. /\ Len(l) \in Nat /\ Len(l2) \in Nat /\ Len(l3) \in Nat
      /\ Len(l) <= Len(l2) /\ Len(l2) <= Len(l3)
      /\ l \in Seq(Entries) /\ l3 \in Seq(Entries)
  BY DEF Grown
<1>2. Len(l) <= Len(l3) /\ \A i \in 1..Len(l) : i \in 1..Len(l2)
  BY <1>1
<1>3. \A i \in 1..Len(l) : l3[i] = l[i]
  BY <1>2 DEF Grown
<1>4. ASSUME NEW i \in (Len(l) + 1)..Len(l3), IsOut(l3[i])
      PROVE  l3[i].seq = s + 1 /\ m # "over"
  <2>1. CASE i \in (Len(l) + 1)..Len(l2)
    <3>1. i \in 1..Len(l2)
      BY <1>1, <2>1
    <3>2. l3[i] = l2[i]
      BY <3>1 DEF Grown
    <3> QED
      BY <1>4, <2>1, <3>2 DEF Grown
  <2>2. CASE i \in (Len(l2) + 1)..Len(l3)
    BY <1>4, <2>2 DEF Grown
  <2> QED
    BY <1>1, <2>1, <2>2
<1> QED
  BY <1>1, <1>2, <1>3, <1>4 DEF Grown

(* The end of a stream that gains an entry. *)
LEMMA Gains ==
  ASSUME NEW S, NEW s \in Seq(S), NEW x \in S
  PROVE  /\ Append(s, x) \in Seq(S)
         /\ Len(Append(s, x)) = Len(s) + 1 /\ Len(s) \in Nat
         /\ \A i \in 1..Len(s) : Append(s, x)[i] = s[i]
         /\ Append(s, x)[Len(s) + 1] = x
         /\ \A i \in 1..(Len(s) + 1) : i \in 1..Len(s) \/ i = Len(s) + 1
         /\ \A i \in 1..Len(s) : i \in 1..(Len(s) + 1)
         /\ Append(s, x) # <<>>
OBVIOUS

\* An appended entry puts no error before those that were there.
LEMMA CleanGains ==
  ASSUME NEW l \in Seq(Entries), NEW e \in Entries, NEW i \in 1..Len(l)
  PROVE  Clean(Append(l, e), i) <=> Clean(l, i)
<1>1. \A j \in 1..i : j \in 1..Len(l)
  OBVIOUS
<1> QED
  BY <1>1, Gains DEF Clean

(* An error or an end leaves the order of the outputs alone. *)
LEMMA LogMark ==
  ASSUME NEW l \in Seq(Entries), NEW s \in Nat, NEW m, NEW m2, LogStands(l, s, m),
         m2 # "over" => m # "over", m2 \in {"none", "starting"} => s = 0,
         NEW e \in {Error, Eos}
  PROVE  LogStands(Append(l, e), s, m2)
<1>0. e \in Entries /\ ~IsOut(e) /\ e.kind \in {"error", "eos"} /\ e.seq = 0
  BY EntryType DEF Error, Eos, Entry, IsOut
<1> DEFINE t == Append(l, e)
<1>1. /\ Len(t) = Len(l) + 1 /\ Len(l) \in Nat /\ t[Len(l) + 1] = e
      /\ \A i \in 1..Len(l) : t[i] = l[i]
      /\ \A i \in 1..Len(t) : i \in 1..Len(l) \/ i = Len(l) + 1
  BY <1>0, Gains
<1>2. /\ \A n : \A i \in 0..Len(l) : Among(t, i, n) <=> Among(l, i, n)
      /\ \A n : Has(l, n) => Has(t, n)
      /\ \A i \in 1..Len(l) : Clean(t, i) <=> Clean(l, i)
  BY <1>0, AmongAppend, CleanGains
<1>3. Rising(t)
  BY <1>0, RisingAppend DEF LogStands
<1>4. ~Clean(t, Len(l) + 1)
  <2>1. Len(l) + 1 \in 1..(Len(l) + 1)
    BY <1>1
  <2> QED
    BY <1>0, <1>1, <2>1 DEF Clean
<1> HIDE DEF t
<1>5. \A i \in 1..Len(t) : IF IsOut(t[i]) THEN t[i].seq \in 1..s ELSE t[i].seq = 0
  BY <1>0, <1>1 DEF LogStands
<1>6. \A i \in 1..Len(t) : IsOut(t[i]) => \A k \in 1..(t[i].seq - 1) : Among(t, i - 1, k)
  <2>1. \A i \in 1..Len(l) : i - 1 \in 0..Len(l)
    BY <1>1
  <2> QED
    BY <1>0, <1>1, <1>2, <2>1 DEF LogStands
<1>7. \A i \in 1..Len(t) : Clean(t, i) => t[i].seq = i - 1
  BY <1>1, <1>2, <1>4 DEF LogStands
<1>8. m2 # "over" => \A k \in 1..s : Has(t, k)
  BY <1>2 DEF LogStands
<1>9. LogStands(t, s, m2)
  BY <1>3, <1>5, <1>6, <1>7, <1>8 DEF LogStands
<1> QED
  BY <1>9 DEF t

(* The outputs and the entries of a clean stream are counted alike. *)
LEMMA SeqIsPlace ==
  ASSUME NEW l \in Seq(Entries), NEW s \in Nat, NEW m, LogStands(l, s, m), m # "over",
         l # <<>>, Clean(l, Len(l))
  PROVE  s = Len(l) - 1
<1>1. Len(l) \in Nat /\ Len(l) \in 1..Len(l)
  OBVIOUS
<1>2. \A i \in 1..Len(l) : l[i].seq = i - 1
  <2>1. TAKE i \in 1..Len(l)
  <2>2. Clean(l, i)
    BY <1>1 DEF Clean
  <2> QED
    BY <2>2 DEF LogStands
<1>3. l[Len(l)].seq = Len(l) - 1
  BY <1>1, <1>2
<1>4. Len(l) - 1 <= s
  <2>1. CASE IsOut(l[Len(l)])
    BY <1>1, <1>3, <2>1 DEF LogStands
  <2>2. CASE ~IsOut(l[Len(l)])
    <3>1. l[Len(l)].seq = 0
      BY <1>1, <2>2 DEF LogStands
    <3> QED
      BY <1>1, <1>3, <3>1
  <2> QED
    BY <2>1, <2>2
<1>5. s <= Len(l) - 1
  <2>1. CASE s = 0
    BY <1>1, <2>1
  <2>2. CASE s # 0
    <3>1. s \in 1..s
      BY <2>2
    <3>2. PICK j \in 1..Len(l) : l[j].seq = s
      BY <3>1 DEF LogStands, Has, Among
    <3> QED
      BY <1>1, <1>2, <3>2
  <2> QED
    BY <2>1, <2>2
<1> QED
  BY <1>1, <1>4, <1>5

(* The module's next output keeps the stream in order. *)
LEMMA LogOutput ==
  ASSUME NEW l \in Seq(Entries), NEW s \in Nat, NEW m, NEW m2, LogStands(l, s, m),
         m # "over", m2 \notin {"none", "starting"}, l # <<>>
  PROVE  LogStands(Append(l, Entry("out", s + 1)), s + 1, m2)
<1> DEFINE e == Entry("out", s + 1)
           t == Append(l, e)
<1>0. e \in Entries /\ IsOut(e) /\ e.kind = "out" /\ e.seq = s + 1
  BY DEF Entry, Entries, IsOut
<1> HIDE DEF e
<1>1. /\ Len(t) = Len(l) + 1 /\ Len(l) \in Nat /\ t[Len(l) + 1] = e
      /\ \A i \in 1..Len(l) : t[i] = l[i]
      /\ \A i \in 1..Len(t) : i \in 1..Len(l) \/ i = Len(l) + 1
  BY <1>0, Gains
<1>2. /\ \A n : \A i \in 0..Len(l) : Among(t, i, n) <=> Among(l, i, n)
      /\ \A n : Has(t, n) <=> Has(l, n) \/ n = s + 1
      /\ \A i \in 1..Len(l) : Clean(t, i) <=> Clean(l, i)
  BY <1>0, AmongAppend, CleanGains
<1>3. Rising(t)
  <2>1. \A i \in 1..Len(l) : IsOut(l[i]) => l[i].seq < e.seq
    <3>1. \A i \in 1..Len(l) : IsOut(l[i]) => l[i].seq \in 1..s
      BY DEF LogStands
    <3> QED
      BY <1>0, <3>1
  <2> QED
    BY <1>0, <2>1, RisingAppend DEF LogStands
<1> HIDE DEF t
<1>5. \A i \in 1..Len(t) : IF IsOut(t[i]) THEN t[i].seq \in 1..(s + 1) ELSE t[i].seq = 0
  <2>1. \A n \in 1..s : n \in 1..(s + 1)
    OBVIOUS
  <2>2. s + 1 \in 1..(s + 1)
    OBVIOUS
  <2> QED
    BY <1>0, <1>1, <2>1, <2>2 DEF LogStands
<1>6. \A i \in 1..Len(t) : IsOut(t[i]) => \A k \in 1..(t[i].seq - 1) : Among(t, i - 1, k)
  <2>1. \A i \in 1..Len(l) : i - 1 \in 0..Len(l)
    BY <1>1
  <2>2. \A i \in 1..Len(l) : IsOut(t[i]) => \A k \in 1..(t[i].seq - 1) : Among(t, i - 1, k)
    BY <1>1, <1>2, <2>1 DEF LogStands
  <2>3. \A k \in 1..s : Among(t, Len(l), k)
    <3>1. Len(l) \in 0..Len(l)
      BY <1>1
    <3> QED
      BY <1>2, <3>1 DEF LogStands, Has
  <2>4. (Len(l) + 1) - 1 = Len(l) /\ e.seq - 1 = s
    BY <1>0, <1>1
  <2> QED
    BY <1>1, <2>2, <2>3, <2>4
<1>7. \A i \in 1..Len(t) : Clean(t, i) => t[i].seq = i - 1
  <2>1. ASSUME Clean(t, Len(l) + 1) PROVE s = Len(l) - 1
    <3>1. \A j \in 1..Len(l) : j \in 1..(Len(l) + 1)
      BY <1>1
    <3>2. Clean(l, Len(l))
      BY <1>1, <2>1, <3>1 DEF Clean
    <3> QED
      BY <3>2, SeqIsPlace
  <2>2. ASSUME Clean(t, Len(l) + 1) PROVE t[Len(l) + 1].seq = (Len(l) + 1) - 1
    <3>1. t[Len(l) + 1].seq = s + 1
      BY <1>0, <1>1
    <3> QED
      BY <1>1, <2>1, <2>2, <3>1
  <2>3. \A i \in 1..Len(l) : Clean(t, i) => t[i].seq = i - 1
    BY <1>1, <1>2 DEF LogStands
  <2> QED
    BY <1>1, <2>2, <2>3
<1>8. \A k \in 1..(s + 1) : Has(t, k)
  <2>1. \A k \in 1..(s + 1) : k \in 1..s \/ k = s + 1
    OBVIOUS
  <2> QED
    BY <1>2, <2>1 DEF LogStands
<1>9. LogStands(t, s + 1, m2)
  BY <1>3, <1>5, <1>6, <1>7, <1>8 DEF LogStands
<1> QED
  BY <1>9 DEF t, e

(* A seq that was taken for an output that was not written. *)
LEMMA LogLost ==
  ASSUME NEW l \in Seq(Entries), NEW s \in Nat, NEW m, LogStands(l, s, m)
  PROVE  LogStands(l, s + 1, "over")
<1>1. \A n \in 1..s : n \in 1..(s + 1)
  OBVIOUS
<1> QED
  BY <1>1 DEF LogStands

\* The start entry alone is a stream in order.
LEMMA LogStart ==
  ASSUME NEW m
  PROVE  LogStands(Append(<<>>, Entry("start", 0)), 0, m)
<1> DEFINE t == Append(<<>>, Entry("start", 0))
<1>1. Len(t) = 1 /\ t[1] = Entry("start", 0) /\ 1..1 = {1}
  OBVIOUS
<1> HIDE DEF t
<1>2. \A i \in 1..Len(t) : i = 1
  BY <1>1
<1>3. \A i \in 1..Len(t) : ~IsOut(t[i]) /\ t[i].seq = 0
  BY <1>1, <1>2 DEF Entry, IsOut
<1>4. LogStands(t, 0, m)
  BY <1>2, <1>3 DEF LogStands, Rising
<1> QED
  BY <1>4 DEF t

----------------------------------------------------------------------------
(* What is not a module's output and leaves its stream as ordered as before *)

Marked(l, l2) ==
  l2 \in {l, Append(l, Error), Append(l, Eos), Append(Append(l, Error), Eos)}

\* What quiet steps and failures append: nothing, the error, the end, or both.
LEMMA MarkedIs ==
  ASSUME Reliable, log \in Seq(Entries),
         \/ Quiet \/ EmitFatal
         \/ Append1(Error) \/ AppendRaises(Error)
         \/ Append1(Eos) \/ AppendRaises(Eos)
  PROVE  Marked(log, log')
<1>1. Error \in Entries /\ Eos \in Entries
  BY EntryType
<1>2. log \o <<Error, Eos>> = Append(Append(log, Error), Eos)
  BY <1>1
<1>3. \A e : AppendRaises(e) => log' = log
  BY DEF AppendRaises, Reliable
<1>4. EmitFatal => log' \in {log \o <<Error, Eos>>, log, Append(log, Error)}
  BY <1>3 DEF EmitFatal, Reliable
<1> QED
  BY <1>2, <1>3, <1>4 DEF Marked, Quiet, Append1

\* Neither disturbs the order of the outputs.
LEMMA MarkedStands ==
  ASSUME NEW l \in Seq(Entries), NEW l2, Marked(l, l2), NEW s \in Nat, NEW m, NEW m2,
         LogStands(l, s, m), m2 # "over" => m # "over",
         m2 \in {"none", "starting"} => s = 0
  PROVE  /\ LogStands(l2, s, m2) /\ Grown(l, l2, s, m)
         /\ l # <<>> => l2 # <<>>
         /\ NoOutput(l) => NoOutput(l2)
<1>1. /\ Error \in Entries /\ ~IsOut(Error)
      /\ Eos \in Entries /\ ~IsOut(Eos)
  BY EntryType DEF Error, Eos, Entry, IsOut
<1>2. LogStands(l, s, m2)
  BY DEF LogStands
<1>3. ASSUME NEW t \in Seq(Entries), NEW e \in {Error, Eos}, LogStands(t, s, m2)
      PROVE  /\ Append(t, e) \in Seq(Entries) /\ LogStands(Append(t, e), s, m2)
             /\ Grown(t, Append(t, e), s, m) /\ Append(t, e) # <<>>
             /\ NoOutput(t) => NoOutput(Append(t, e))
  <2>1. e \in Entries /\ ~IsOut(e)
    BY <1>1
  <2>2. LogStands(Append(t, e), s, m2)
    BY <1>3, LogMark
  <2>3. Append(t, e) \in Seq(Entries) /\ Append(t, e) # <<>>
    BY <2>1
  <2>4. NoOutput(t) => NoOutput(Append(t, e))
    BY <2>1, Gains DEF NoOutput
  <2> QED
    BY <2>1, <2>2, <2>3, <2>4, GrownByOne
<1>4. CASE l2 = l
  BY <1>2, <1>4, GrownNot
<1>5. CASE \E e \in {Error, Eos} : l2 = Append(l, e)
  BY <1>2, <1>3, <1>5
<1>6. CASE l2 = Append(Append(l, Error), Eos)
  <2> DEFINE t == Append(l, Error)
  <2>1. /\ t \in Seq(Entries) /\ LogStands(t, s, m2) /\ Grown(l, t, s, m)
        /\ NoOutput(l) => NoOutput(t)
    BY <1>2, <1>3
  <2> HIDE DEF t
  <2>2. /\ LogStands(Append(t, Eos), s, m2) /\ Grown(t, Append(t, Eos), s, m)
        /\ Append(t, Eos) # <<>> /\ (NoOutput(t) => NoOutput(Append(t, Eos)))
    BY <1>3, <2>1
  <2>3. l2 = Append(t, Eos)
    BY <1>6 DEF t
  <2> QED
    BY <2>1, <2>2, <2>3, GrownTwice
<1> QED
  BY <1>4, <1>5, <1>6 DEF Marked

----------------------------------------------------------------------------
(* A stream that grows takes nothing from what the consumer was promised.  *)

\* The cursor still tells apart what was received when the stream has grown.
LEMMA CursorGrown ==
  ASSUME NEW l, NEW l2, NEW s \in Nat, NEW m, Grown(l, l2, s, m),
         NEW s2 \in Nat, s <= s2, NEW m2, m2 # "over" => m # "over",
         NEW c \in Nat, NEW g, CursorStands(c, l, g, s, m)
  PROVE  CursorStands(c, l2, g, s2, m2)
<1>1. ASSUME NEW n \in Nat, Sent(l2, n), n < c PROVE Has(g, n)
  <2>1. CASE Sent(l, n)
    BY <1>1, <2>1 DEF CursorStands
  <2>2. CASE n = s + 1 /\ ~Ended(l) /\ m # "over"
    <3>1. c <= s + 1
      BY <2>2 DEF CursorStands
    <3> QED
      BY <1>1, <2>2, <3>1
  <2> QED
    BY <1>1, <2>1, <2>2, GrownSent
<1>2. ASSUME m2 # "over", ~Ended(l2) PROVE c <= s2 + 1
  <2>1. c <= s + 1
    BY <1>2, GrownSent DEF CursorStands
  <2> QED
    BY <2>1
<1> QED
  BY <1>1, <1>2 DEF CursorStands

\* What was received is still in the stream.
LEMMA GotGrown ==
  ASSUME NEW l, NEW l2, NEW s, NEW m, Grown(l, l2, s, m), NEW g, GotStands(g, l)
  PROVE  GotStands(g, l2)
BY GrownSent DEF GotStands

\* What is on the wire still goes on where the received frames stop.
LEMMA WireGrown ==
  ASSUME NEW l, NEW l2, NEW s \in Nat, NEW m, Grown(l, l2, s, m),
         NEW s2 \in Nat, s <= s2, NEW m2, m2 # "over" => m # "over",
         NEW g, NEW w \in Seq(Frames), WireStands(w, l, g, s, m)
  PROVE  WireStands(w, l2, g, s2, m2)
<1>1. /\ Ended(l) => Ended(l2)
      /\ \A n : Sent(l, n) => Sent(l2, n)
      /\ \A n : Sent(l2, n) => Sent(l, n) \/ (n = s + 1 /\ ~Ended(l) /\ m # "over")
  BY GrownSent
<1>2. \A i \in 1..Len(w) : w[i].label \in Nat
  <2>1. \A i \in 1..Len(w) : w[i] \in Frames
    OBVIOUS
  <2> QED
    BY <2>1 DEF Frames
<1>3. ASSUME NEW i \in 1..Len(w), m2 # "over", ~Ended(l2)
      PROVE  w[i].label <= s2 + 1
  <2>1. w[i].label <= s + 1
    BY <1>1, <1>3 DEF WireStands
  <2> QED
    BY <1>2, <2>1
<1>4. ASSUME NEW i \in 1..Len(w), NEW n \in Nat, Sent(l2, n), n < w[i].label
      PROVE  Has(g, n) \/ Among(w, i, n)
  <2>1. CASE Sent(l, n)
    BY <1>4, <2>1 DEF WireStands
  <2>2. CASE n = s + 1 /\ ~Ended(l) /\ m # "over"
    <3>1. w[i].label <= s + 1
      BY <2>2 DEF WireStands
    <3> QED
      BY <1>2, <1>4, <2>2, <3>1
  <2> QED
    BY <1>1, <1>4, <2>1, <2>2
<1>5. ASSUME NEW i \in 1..Len(w), w[i].kind = "end", w[i].label > 0
      PROVE  Ended(l2) /\ \A n \in Nat : Sent(l2, n) => Has(g, n) \/ Among(w, i, n)
  <2>1. Ended(l) /\ \A n \in Nat : Sent(l, n) => Has(g, n) \/ Among(w, i, n)
    BY <1>5 DEF WireStands
  <2> QED
    BY <1>1, <2>1
<1>6. \A i \in 1..Len(w) : IsOut(w[i]) =>
        /\ w[i].label = w[i].seq + 1 /\ Sent(l2, w[i].seq)
        /\ \A n \in Nat : Has(g, n) => n < w[i].seq
  BY <1>1 DEF WireStands
<1>7. Rising(w)
  BY DEF WireStands
<1> QED
  BY <1>3, <1>4, <1>5, <1>6, <1>7 DEF WireStands

(* What a reader has read does not change. *)
LEMMA PastStays ==
  ASSUME NEW l, NEW l2, NEW s, NEW m, Grown(l, l2, s, m),
         NEW p \in Nat, p <= Len(l)
  PROVE  /\ p <= Len(l2) /\ (Open(l2, p) <=> Open(l, p))
         /\ \A n : Among(l2, p, n) <=> Among(l, p, n)
<1>1. Len(l) \in Nat /\ Len(l2) \in Nat /\ Len(l) <= Len(l2)
  BY DEF Grown
<1>2. \A i \in 1..p : i \in 1..Len(l)
  BY <1>1
<1>3. \A i \in 1..p : l2[i] = l[i]
  BY <1>2 DEF Grown
<1> QED
  BY <1>1, <1>3 DEF Open, Among

\* A reader is where it was: what was appended is ahead of it.
LEMMA ReadGrown ==
  ASSUME NEW l, NEW l2, NEW s, NEW m, NEW m2, Grown(l, l2, s, m),
         NEW g, NEW c, NEW d \in Dials, ReadStands(d, l, g, c, m),
         ~d.resume /\ Erred(l2) => m2 = "over" /\ NoOutput(l2)
  PROVE  ReadStands(d, l2, g, c, m2)
<1>1. d.pos \in Nat /\ d.pos <= Len(l)
  BY DEF Dials, ReadStands
<1>2. /\ d.pos <= Len(l2) /\ Open(l2, d.pos)
      /\ \A n : Among(l2, d.pos, n) <=> Among(l, d.pos, n)
  BY <1>1, PastStays DEF ReadStands
<1> QED
  BY <1>2 DEF ReadStands

(* A dial keeps its promises when the stream grows. *)
LEMMA DialGrown ==
  ASSUME NEW l, NEW l2, NEW s \in Nat, NEW m, Grown(l, l2, s, m),
         NEW s2 \in Nat, s <= s2, NEW m2, m2 # "over" => m # "over",
         NEW g, NEW c, NEW k, NEW d \in Dials, DialStands(d, l, g, c, s, m, k),
         d.phase = "draining" /\ ~d.resume /\ Erred(l2) => m2 = "over" /\ NoOutput(l2),
         Unheard(d) => ~Erred(l2)
  PROVE  DialStands(d, l2, g, c, s2, m2, k)
<1>0. d.wire \in Seq(Frames)
  BY DEF Dials
<1>1. WireStands(d.wire, l, g, s, m)
  BY DEF DialStands
<1>2. WireStands(d.wire, l2, g, s2, m2)
  <2>1. \A w \in Seq(Frames) : WireStands(w, l, g, s, m) => WireStands(w, l2, g, s2, m2)
    BY WireGrown
  <2> QED
    BY <1>0, <1>1, <2>1
<1>3. d.phase = "draining" => ReadStands(d, l2, g, c, m2)
  BY ReadGrown DEF DialStands
<1> QED
  BY <1>2, <1>3 DEF DialStands

(* A dial that has not begun, or has ended, promises nothing. *)
LEMMA NothingOnWire ==
  ASSUME NEW l, NEW g, NEW s, NEW m
  PROVE  WireStands(<<>>, l, g, s, m)
<1>1. Len(<<>>) = 0 /\ 1..0 = {}
  OBVIOUS
<1> QED
  BY <1>1 DEF WireStands, Rising

\* A request that has not dialled says nothing of the stream.
LEMMA UnconnectedStands ==
  ASSUME NEW l, NEW g, NEW c, NEW s, NEW m, NEW k
  PROVE  DialStands(Unconnected, l, g, c, s, m, k)
<1>1. /\ Unconnected.wire = <<>> /\ Unconnected.phase = "none"
      /\ ~Unconnected.spawned /\ ~Unconnected.resume
  BY DEF Unconnected
<1> HIDE DEF Unconnected
<1> QED
  BY <1>1, NothingOnWire DEF DialStands, Sending, Unheard

(* While one dial acts, there is no other. *)
LEMMA OnlyDial ==
  ASSUME OnceInv, DeliverInv, NEW r \in Requests, dial[r].phase # "none"
  PROVE  /\ req[r] = "accepted" /\ log # <<>>
         /\ \A x \in Requests : x # r => dial[x] = Unconnected
<1>1. req[r] = "accepted"
  BY DEF OnceInv, DialsAccepted
<1>2. \A x \in Requests : x # r => dial[x].phase = "none"
  BY <1>1 DEF OnceInv, OwnerAlone, DialsAccepted, Owning
<1>3. \A x \in Requests : x # r => dial[x] = Unconnected
  BY <1>2 DEF DeliverInv, DialStands
<1> QED
  BY <1>1, <1>3 DEF DeliverInv

----------------------------------------------------------------------------
(* The steps: the module, and the handlers of StartStream.                 *)

\* An append makes a stream erroneous only if it is an error.
LEMMA ErredGains ==
  ASSUME NEW l \in Seq(Entries), NEW e \in Entries, Erred(Append(l, e))
  PROVE  Erred(l) \/ e.kind = "error"
BY Gains DEF Erred

(* Whatever the module writes, it writes in order. *)
LEMMA ModuleWrites ==
  ASSUME Reliable, OnceInv, DeliverInv, Module
  PROVE  /\ LogStands(log', seq', module') /\ Grown(log, log', seq, module)
         /\ log # <<>> /\ log' # <<>> /\ seq' \in Nat /\ seq <= seq'
         /\ module \notin {"none", "over"}
         /\ Erred(log') => Erred(log) \/ (module' = "over" /\ NoOutput(log'))
<1>1. /\ log \in Seq(Entries) /\ seq \in Nat /\ seq + 1 \in Nat /\ seq <= seq + 1
      /\ LogStands(log, seq, module)
  BY DEF OnceInv, TypeOK, DeliverInv
<1>2. module \notin {"none", "over"}
  BY DEF Module, Prepared, RunnerFails, Output, Raises, ReportFailure, Stop, Becomes
<1>3. log # <<>>
  <2>1. PICK r \in Requests : dial[r].phase # "none"
    BY <1>2 DEF OnceInv, RunsCounted
  <2> QED
    BY <2>1, OnlyDial
<1>4. /\ Entry("out", seq + 1) \in Entries /\ Entry("out", seq + 1).kind = "out"
      /\ Entry("out", seq + 1).seq = seq + 1
  BY <1>1, EntryType DEF Entry
<1>5. CASE Prepared \/ Raises
  <2>1. log' = log /\ seq' = seq /\ module' \in {"running", "failed"}
    BY <1>5 DEF Prepared, Raises, Becomes, Quiet
  <2>2. module' \in {"none", "starting"} => seq = 0
    BY <2>1
  <2>3. LogStands(log', seq', module')
    BY <1>1, <1>2, <2>1 DEF LogStands
  <2> QED
    BY <1>1, <1>2, <1>3, <2>1, <2>3, GrownNot
<1>6. CASE RunnerFails
  <2>1. seq' = seq /\ module' = "over" /\ module = "starting" /\ EmitFatal
    BY <1>6 DEF RunnerFails, Becomes
  <2>2. Marked(log, log')
    BY <1>1, <2>1, MarkedIs
  <2>3. NoOutput(log)
    <3>1. seq = 0
      BY <1>1, <2>1 DEF LogStands
    <3>2. \A i \in 1..Len(log) : IsOut(log[i]) => log[i].seq \in 1..0
      BY <1>1, <3>1 DEF LogStands
    <3> QED
      BY <3>2 DEF NoOutput
  <2>4. /\ LogStands(log', seq, module') /\ Grown(log, log', seq, module)
        /\ log' # <<>> /\ NoOutput(log')
    BY <1>1, <1>3, <2>1, <2>2, <2>3, MarkedStands
  <2> QED
    BY <1>1, <1>2, <1>3, <2>1, <2>4
<1>7. CASE Stop
  <2>1. /\ seq' = seq /\ module' = "over"
        /\ Append1(Eos) \/ AppendRaises(Eos)
    BY <1>7 DEF Stop, Becomes
  <2>2. Marked(log, log')
    BY <1>1, <2>1, MarkedIs
  <2>3. LogStands(log', seq, module') /\ Grown(log, log', seq, module) /\ log' # <<>>
    BY <1>1, <1>3, <2>1, <2>2, MarkedStands
  <2>4. log' = log \/ log' = Append(log, Eos)
    BY <2>1 DEF Append1, AppendRaises, Reliable
  <2>5. Eos \in Entries /\ Eos.kind # "error"
    BY EntryType DEF Eos, Entry
  <2>6. Erred(log') => Erred(log)
    BY <1>1, <2>4, <2>5, ErredGains
  <2> QED
    BY <1>1, <1>2, <1>3, <2>1, <2>3, <2>6
<1>8. CASE (Output \/ ReportFailure) /\ log' = Append(log, Entry("out", seq + 1))
  <2>1. seq' = seq + 1 /\ module' \in {"running", "failed", "over"}
    BY <1>8 DEF Output, ReportFailure, Becomes
  <2>2. LogStands(log', seq', module')
    <3>1. module' \notin {"none", "starting"} /\ module # "over"
      BY <1>2, <2>1
    <3> QED
      BY <1>1, <1>3, <1>8, <2>1, <3>1, LogOutput
  <2>3. Grown(log, log', seq, module)
    BY <1>1, <1>2, <1>4, <1>8, GrownByOne DEF IsOut
  <2>4. log' # <<>>
    BY <1>1, <1>4, <1>8, Gains
  <2>5. Erred(log') => Erred(log)
    BY <1>1, <1>4, <1>8, ErredGains
  <2> QED
    BY <1>1, <1>2, <1>3, <2>1, <2>2, <2>3, <2>4, <2>5
<1>9. CASE ReportFailure /\ log' = log
  <2>1. seq' = seq + 1 /\ module' = "over"
    BY <1>9 DEF ReportFailure, Becomes
  <2>2. LogStands(log', seq', module')
    BY <1>1, <1>9, <2>1, LogLost
  <2> QED
    BY <1>1, <1>2, <1>3, <1>9, <2>1, <2>2, GrownNot
<1>10. Output => log' = Append(log, Entry("out", seq + 1))
  BY DEF Output, Append1, Reliable
<1>11. ReportFailure => log' = Append(log, Entry("out", seq + 1)) \/ log' = log
  BY DEF ReportFailure, Append1, AppendRaises, Reliable
<1> QED
  BY <1>5, <1>6, <1>7, <1>8, <1>9, <1>10, <1>11 DEF Module

\* A step of the module appends its next output, or marks the stream.
LEMMA ModuleDelivers ==
  ASSUME Reliable, OnceInv, DeliverInv, Module
  PROVE  DeliverInv'
<1>1. UNCHANGED <<req, dial, got, cursor, runs>>
  BY DEF Module, Prepared, RunnerFails, Output, Raises, ReportFailure, Stop,
     OtherThanModule
<1>2. /\ LogStands(log', seq', module') /\ Grown(log, log', seq, module)
      /\ log # <<>> /\ log' # <<>> /\ seq \in Nat /\ seq' \in Nat /\ seq <= seq'
      /\ module \notin {"none", "over"} /\ cursor \in Nat
      /\ Erred(log') => Erred(log) \/ (module' = "over" /\ NoOutput(log'))
  BY ModuleWrites DEF OnceInv, TypeOK
<1>3. CursorStands(cursor, log', got, seq', module')
  <2>1. CursorStands(cursor, log, got, seq, module)
    BY DEF DeliverInv
  <2> QED
    BY <1>2, <2>1, CursorGrown
<1>4. GotStands(got, log')
  BY <1>2, GotGrown DEF DeliverInv
<1>5. ASSUME NEW r \in Requests
      PROVE  DialStands(dial[r], log', got, cursor, seq', module', runs)
  <2>1. dial[r] \in Dials /\ DialStands(dial[r], log, got, cursor, seq, module, runs)
    BY DEF OnceInv, TypeOK, DeliverInv
  <2>2. ~Unheard(dial[r])
    BY <1>2 DEF OnceInv, RunsCounted
  <2>3. dial[r].phase = "draining" /\ ~dial[r].resume /\ Erred(log')
          => module' = "over" /\ NoOutput(log')
    BY <1>2, <2>1 DEF DialStands, ReadStands
  <2>4. module' # "over" => module # "over"
    BY <1>2
  <2> QED
    BY <1>2, <2>1, <2>2, <2>3, <2>4, DialGrown
<1>6. log' # <<>> /\ \E r \in Requests : req'[r] \in {"accepted", "stranded"}
  BY <1>1, <1>2 DEF DeliverInv
<1>7. runs' = 0 => got' = <<>>
  BY <1>1 DEF DeliverInv
<1> QED
  BY <1>1, <1>2, <1>3, <1>4, <1>5, <1>6, <1>7 DEF DeliverInv

\* The accepted request writes the start entry into an empty stream.
LEMMA SeedDelivers ==
  ASSUME OnceInv, DeliverInv, NEW r \in Requests, Seed(r)
  PROVE  DeliverInv'
<1> DEFINE e == Entry("start", 0)
<1>1. /\ req[r] = "seeding" /\ req' = [req EXCEPT ![r] = "accepted"]
      /\ log' = Append(log, e) /\ dial' = [dial EXCEPT ![r].phase = "dialing"]
      /\ UNCHANGED <<module, runs, seq, got, cursor>>
  BY DEF Seed, Step, OtherThanStart, Append1
<1>2. e \in Entries /\ ~IsOut(e) /\ e.kind = "start"
  BY EntryType DEF Entry, IsOut
<1>3. \A x \in Requests : /\ req[x] \notin {"accepted", "stranded"}
                          /\ dial[x].phase = "none"
  BY <1>1 DEF OnceInv, OwnerAlone, DialsAccepted, Owning
<1>4. runs = 0 /\ module = "none" /\ log = <<>>
  BY <1>3 DEF OnceInv, RunsCounted, DeliverInv
<1>5. seq = 0 /\ cursor \in Nat /\ log \in Seq(Entries) /\ seq \in Nat
  BY <1>4 DEF OnceInv, TypeOK, DeliverInv, LogStands
<1> HIDE DEF e
<1>6. Grown(log, log', seq, module) /\ log' # <<>>
  BY <1>1, <1>2, <1>5, GrownByOne, Gains
<1>7. LogStands(log', seq', module')
  BY <1>1, <1>4, <1>5, LogStart DEF e
<1>8. CursorStands(cursor', log', got', seq', module')
  <2>1. CursorStands(cursor, log, got, seq, module)
    BY DEF DeliverInv
  <2> QED
    BY <1>1, <1>5, <1>6, <2>1, CursorGrown
<1>9. GotStands(got', log')
  BY <1>1, <1>6, GotGrown DEF DeliverInv
<1>10. DialStands(dial'[r], log', got', cursor', seq', module', runs')
  <2>1. dial[r] = Unconnected
    BY <1>3 DEF DeliverInv, DialStands
  <2>2. dial'[r] = [Unconnected EXCEPT !.phase = "dialing"]
    BY <1>1, <2>1 DEF OnceInv, TypeOK
  <2>3. /\ dial'[r].phase = "dialing" /\ dial'[r].wire = <<>>
        /\ dial'[r].pos = 0 /\ dial'[r].label = 0
        /\ ~dial'[r].eosDue /\ ~dial'[r].spawned /\ ~dial'[r].resume
    BY <2>2 DEF Unconnected
  <2>4. ~Erred(log')
    <3>1. ~Erred(log)
      BY <1>4 DEF Erred
    <3> QED
      BY <1>1, <1>2, <1>5, <3>1, ErredGains
  <2>5. WireStands(<<>>, log', got', seq', module')
    BY NothingOnWire
  <2> QED
    BY <2>3, <2>4, <2>5 DEF DialStands, Sending
<1>11. ASSUME NEW x \in Requests, x # r
       PROVE  DialStands(dial'[x], log', got', cursor', seq', module', runs')
  <2>1. dial'[x] = Unconnected
    BY <1>1, <1>3, <1>11 DEF DeliverInv, DialStands
  <2> QED
    BY <2>1, UnconnectedStands
<1>12. \E x \in Requests : req'[x] = "accepted"
  <2>1. req'[r] = "accepted"
    BY <1>1 DEF OnceInv, TypeOK
  <2> QED
    BY <2>1
<1>13. runs' = 0 => got' = <<>>
  BY <1>1 DEF DeliverInv
<1> QED
  BY <1>6, <1>7, <1>8, <1>9, <1>10, <1>11, <1>12, <1>13 DEF DeliverInv

\* A step of StartStream writes the start entry, or leaves the stream as it is.
LEMMA HandlerDelivers ==
  ASSUME Reliable, OnceInv, DeliverInv, NEW r \in Requests, Handler(r)
  PROVE  DeliverInv'
<1>1. CASE Seed(r)
  BY <1>1, SeedDelivers
<1>2. CASE ~Seed(r)
  <2>1. /\ UNCHANGED <<dial, module, runs, seq, got, cursor>>
        /\ {req[r], req'[r]} \cap {"accepted", "stranded"} = {}
        /\ \A x \in Requests : x # r => req'[x] = req[x]
    BY <1>2 DEF Handler, StartStream, ClaimTask, ClaimRefused, SeedRaises, Release,
       Unregister, OtherThanStart, Step, OnceInv, TypeOK
  <2>2. log' = log
    BY <1>2 DEF Handler, StartStream, ClaimTask, ClaimRefused, SeedRaises, Release,
       Unregister, Quiet, AppendRaises, Reliable
  <2>3. \A x \in Requests :
          /\ req'[x] = "accepted" <=> req[x] = "accepted"
          /\ req'[x] = "stranded" <=> req[x] = "stranded"
    BY <2>1
  <2> QED
    BY <2>1, <2>2, <2>3 DEF DeliverInv
<1> QED
  BY <1>1, <1>2

(* A cancelled request has written nothing, or the start entry into an      *)
(* empty stream that nobody will read.                                     *)
LEMMA CancelDelivers ==
  ASSUME OnceInv, DeliverInv, NEW r \in Requests, CancelStart(r)
  PROVE  DeliverInv'
<1> DEFINE e == Entry("start", 0)
<1>1. /\ UNCHANGED <<dial, module, runs, seq, got, cursor>>
      /\ req[r] \notin {"accepted", "stranded"} /\ req'[r] # "accepted"
      /\ \A x \in Requests : x # r => req'[x] = req[x]
  BY DEF CancelStart, OtherThanStart, Step, OnceInv, TypeOK
<1>2. CASE log' = log
  <2>1. \A x \in Requests : /\ req'[x] = "accepted" <=> req[x] = "accepted"
                            /\ req[x] = "stranded" => req'[x] = "stranded"
    BY <1>1
  <2> QED
    BY <1>1, <1>2, <2>1 DEF DeliverInv
<1>3. CASE log' # log
  <2>1. req[r] = "seeding" /\ req'[r] = "stranded" /\ log' = Append(log, e)
    BY <1>3 DEF CancelStart, Step, OnceInv, TypeOK
  <2>2. \A x \in Requests : /\ req[x] \notin {"accepted", "stranded"}
                            /\ dial[x].phase = "none"
    BY <2>1 DEF OnceInv, OwnerAlone, DialsAccepted, Owning
  <2>3. runs = 0 /\ module = "none" /\ log = <<>>
    BY <2>2 DEF OnceInv, RunsCounted, DeliverInv
  <2>4. seq = 0 /\ cursor \in Nat /\ log \in Seq(Entries) /\ seq \in Nat
    BY <2>3 DEF OnceInv, TypeOK, DeliverInv, LogStands
  <2>5. e \in Entries /\ ~IsOut(e)
    BY EntryType DEF Entry, IsOut
  <2> HIDE DEF e
  <2>6. Grown(log, log', seq, module) /\ log' # <<>>
    BY <2>1, <2>4, <2>5, GrownByOne, Gains
  <2>7. LogStands(log', seq', module')
    BY <1>1, <2>1, <2>3, <2>4, LogStart DEF e
  <2>8. CursorStands(cursor', log', got', seq', module')
    <3>1. CursorStands(cursor, log, got, seq, module)
      BY DEF DeliverInv
    <3> QED
      BY <1>1, <2>4, <2>6, <3>1, CursorGrown
  <2>9. GotStands(got', log')
    BY <1>1, <2>6, GotGrown DEF DeliverInv
  <2>10. \A x \in Requests : DialStands(dial'[x], log', got', cursor', seq', module', runs')
    BY <1>1, <2>2, UnconnectedStands DEF DeliverInv, DialStands
  <2>11. runs' = 0 => got' = <<>>
    BY <1>1 DEF DeliverInv
  <2> QED
    BY <2>1, <2>6, <2>7, <2>8, <2>9, <2>10, <2>11 DEF DeliverInv
<1> QED
  BY <1>2, <1>3

----------------------------------------------------------------------------
(* The steps: a dial.                                                      *)

(* A step of a dial concerns its own record, and what it writes or passes   *)
(* to the consumer.                                                        *)
LEMMA DialSuffices ==
  ASSUME OnceInv, DeliverInv, NEW r \in Requests, dial[r].phase # "none",
         req' = req, \A x \in Requests : x # r => dial'[x] = dial[x],
         log' # <<>>, runs' = 0 => got' = <<>>,
         LogStands(log', seq', module'),
         CursorStands(cursor', log', got', seq', module'),
         GotStands(got', log'),
         DialStands(dial'[r], log', got', cursor', seq', module', runs')
  PROVE  DeliverInv'
<1>1. ASSUME NEW x \in Requests, x # r
      PROVE  DialStands(dial'[x], log', got', cursor', seq', module', runs')
  BY <1>1, OnlyDial, UnconnectedStands
<1>2. \E x \in Requests : req'[x] = "accepted"
  BY OnlyDial
<1>3. \A x \in Requests : DialStands(dial'[x], log', got', cursor', seq', module', runs')
  BY <1>1
<1> QED
  BY <1>2, <1>3 DEF DeliverInv

\* It is enough that the one dial that moved stands, if the stream was only marked.
LEMMA DialQuietly ==
  ASSUME OnceInv, DeliverInv, NEW r \in Requests, dial[r].phase # "none",
         req' = req, \A x \in Requests : x # r => dial'[x] = dial[x],
         Marked(log, log'), UNCHANGED <<got, cursor, seq, module, runs>>,
         DialStands(dial'[r], log', got, cursor, seq, module, runs)
  PROVE  DeliverInv'
<1>1. /\ log \in Seq(Entries) /\ seq \in Nat /\ cursor \in Nat /\ seq <= seq
      /\ LogStands(log, seq, module) /\ CursorStands(cursor, log, got, seq, module)
      /\ GotStands(got, log)
  BY DEF OnceInv, TypeOK, DeliverInv
<1>2. log # <<>>
  BY OnlyDial
<1>3. module \in {"none", "starting"} => seq = 0
  BY <1>1 DEF LogStands
<1>4. LogStands(log', seq, module) /\ Grown(log, log', seq, module) /\ log' # <<>>
  BY <1>1, <1>2, <1>3, MarkedStands
<1>5. CursorStands(cursor, log', got, seq, module)
  BY <1>1, <1>4, CursorGrown
<1>6. GotStands(got, log')
  BY <1>1, <1>4, GotGrown
<1>7. runs = 0 => got = <<>>
  BY DEF DeliverInv
<1> QED
  BY <1>4, <1>5, <1>6, <1>7, DialSuffices

(* An attempt that is over, or waits for its next connection. *)
LEMMA EndedStands ==
  ASSUME OnceInv, DeliverInv, NEW r \in Requests, EndDial(r) \/ Retry(r), NEW l
  PROVE  DialStands(dial'[r], l, got, cursor, seq, module, runs)
<1>1. dial \in [Requests -> Dials]
  BY DEF OnceInv, TypeOK
<1>2. dial[r].spawned => runs # 0
  BY DEF DeliverInv, DialStands
<1>3. \A d : Set(r, d) => dial'[r] = d
  BY <1>1 DEF Set
<1>4. CASE EndDial(r)
  <2>1. dial'[r] = [Unconnected EXCEPT !.phase = "done", !.eosDue = dial[r].eosDue]
    BY <1>3, <1>4 DEF EndDial
  <2>2. /\ dial'[r].phase = "done" /\ dial'[r].wire = <<>>
        /\ ~dial'[r].spawned /\ ~dial'[r].resume
    BY <2>1 DEF Unconnected
  <2> QED
    BY <2>2, NothingOnWire DEF DialStands, Sending, Unheard
<1>5. CASE Retry(r) /\ ~EndDial(r)
  <2>1. /\ dial'[r] = [Unconnected EXCEPT !.phase = "backoff", !.spawned = TRUE,
                                         !.eosDue = dial[r].eosDue]
        /\ runs # 0
    BY <1>2, <1>3, <1>5 DEF Retry
  <2>2. /\ dial'[r].phase = "backoff" /\ dial'[r].wire = <<>> /\ ~dial'[r].resume
        /\ dial'[r].pos = 0 /\ dial'[r].label = 0
    BY <2>1 DEF Unconnected
  <2> QED
    BY <2>1, <2>2, NothingOnWire DEF DialStands, Sending, Unheard
<1> QED
  BY <1>4, <1>5

\* Fail writes the error and the end.
LEMMA FailMarks ==
  ASSUME Reliable, log \in Seq(Entries), NEW r, Fail(r) \/ Quiet
  PROVE  Marked(log, log')
BY MarkedIs DEF Fail

\* A dial that ends or breaks down only marks the stream.
LEMMA EndsDeliver ==
  ASSUME Reliable, OnceInv, DeliverInv, NEW r \in Requests,
         CannotDial(r) \/ HangUp(r) \/ BreakDown(r)
  PROVE  DeliverInv'
<1>1. /\ dial[r].phase # "none" /\ req' = req /\ (EndDial(r) \/ Retry(r))
      /\ UNCHANGED <<got, cursor, seq, module, runs>> /\ (Fail(r) \/ Quiet)
  BY DEF CannotDial, HangUp, BreakDown, Connected, OtherThanDial, ConsumerIdle, SameModule
<1>2. \A x \in Requests : x # r => dial'[x] = dial[x]
  BY DialStep DEF OnceInv, Dial
<1>3. Marked(log, log')
  BY <1>1, FailMarks DEF OnceInv, TypeOK
<1>4. DialStands(dial'[r], log', got, cursor, seq, module, runs)
  BY <1>1, EndedStands
<1> QED
  BY <1>1, <1>2, <1>3, <1>4, DialQuietly

\* A dial that connects, or finds its session gone, has read nothing yet.
LEMMA ConnectDelivers ==
  ASSUME OnceInv, DeliverInv, NEW r \in Requests, Connect(r)
  PROVE  DeliverInv'
<1> DEFINE d == dial[r]
           d2 == [d EXCEPT !.phase = "open"]
<1>1. /\ d.phase = "dialing" /\ req' = req /\ (EndDial(r) \/ Set(r, d2))
      /\ UNCHANGED <<got, cursor, seq, module, runs, log>>
  BY DEF Connect, OtherThanDial, ConsumerIdle, SameModule, Quiet
<1>2. \A x \in Requests : x # r => dial'[x] = dial[x]
  BY DialStep DEF OnceInv, Dial
<1>3. d \in Dials /\ DialStands(d, log, got, cursor, seq, module, runs)
  BY DEF OnceInv, TypeOK, DeliverInv
<1>4. ASSUME Set(r, d2)
      PROVE  DialStands(dial'[r], log', got, cursor, seq, module, runs)
  <2>1. dial'[r] = d2
    BY <1>4 DEF Set, OnceInv, TypeOK
  <2>2. /\ d2.phase = "open" /\ d2.wire = d.wire /\ d2.pos = d.pos /\ d2.label = d.label
        /\ d2.resume = d.resume /\ d2.spawned = d.spawned /\ d2.eosDue = d.eosDue
    BY <1>3 DEF Dials
  <2> HIDE DEF d2, d
  <2>3. DialStands(d2, log, got, cursor, seq, module, runs)
    BY <1>1, <1>3, <2>2 DEF DialStands, Sending, Unheard
  <2>4. log' = log
    BY <1>1
  <2> QED
    BY <2>1, <2>3, <2>4
<1>5. DialStands(dial'[r], log', got, cursor, seq, module, runs)
  <2>1. EndDial(r) => DialStands(dial'[r], log', got, cursor, seq, module, runs)
    BY EndedStands
  <2> QED
    BY <1>1, <1>4, <2>1
<1>6. Marked(log, log') /\ dial[r].phase # "none"
  BY <1>1 DEF Marked
<1> QED
  BY <1>1, <1>2, <1>5, <1>6, DialQuietly

\* A dial that tries again begins with nothing on its wire.
LEMMA RedialDelivers ==
  ASSUME OnceInv, DeliverInv, NEW r \in Requests, Redial(r)
  PROVE  DeliverInv'
<1> DEFINE d == dial[r]
           d2 == [d EXCEPT !.phase = "dialing", !.resume = TRUE]
<1>1. /\ d.phase = "backoff" /\ req' = req /\ Set(r, d2)
      /\ UNCHANGED <<got, cursor, seq, module, runs, log>>
  BY DEF Redial, OtherThanDial, ConsumerIdle, SameModule, Quiet
<1>2. \A x \in Requests : x # r => dial'[x] = dial[x]
  BY DialStep DEF OnceInv, Dial
<1>3. d \in Dials /\ DialStands(d, log, got, cursor, seq, module, runs)
  BY DEF OnceInv, TypeOK, DeliverInv
<1>4. dial'[r] = d2
  BY <1>1 DEF Set, OnceInv, TypeOK
<1>5. /\ d2.phase = "dialing" /\ d2.wire = d.wire /\ d2.resume
      /\ d2.pos = d.pos /\ d2.label = d.label
  BY <1>3 DEF Dials
<1>6. Marked(log, log') /\ dial[r].phase # "none"
  BY <1>1 DEF Marked
<1> HIDE DEF d2, d
<1>7. DialStands(d2, log, got, cursor, seq, module, runs)
  BY <1>1, <1>3, <1>5 DEF DialStands, Sending, Unheard
<1> QED
  BY <1>1, <1>2, <1>4, <1>6, <1>7, DialQuietly

(* The first reply: nothing was written but stream.start, nothing received. *)
LEMMA FirstReplyDelivers ==
  ASSUME OnceInv, DeliverInv, NEW r \in Requests, FirstReply(r)
  PROVE  DeliverInv'
<1> DEFINE d == dial[r]
           d2 == [d EXCEPT !.phase = "draining", !.spawned = TRUE]
<1>1. /\ d.phase = "open" /\ ~d.resume /\ req' = req /\ Set(r, d2)
      /\ module' = "starting" /\ runs' = runs + 1
      /\ UNCHANGED <<got, cursor, seq, log>>
  BY DEF FirstReply, OtherThanDial, ConsumerIdle, Quiet
<1>2. /\ runs = 0 /\ module = "none" /\ got = <<>> /\ runs' # 0
  BY <1>1 DEF OnceInv, RunsCounted, Unheard, DeliverInv
<1>3. \A x \in Requests : x # r => dial'[x] = dial[x]
  BY DialStep DEF OnceInv, Dial
<1>4. d \in Dials /\ DialStands(d, log, got, cursor, seq, module, runs)
  BY DEF OnceInv, TypeOK, DeliverInv
<1>5. dial'[r] = d2
  BY <1>1 DEF Set, OnceInv, TypeOK
<1>6. /\ d2.phase = "draining" /\ d2.wire = d.wire /\ ~d2.resume
      /\ d2.pos = d.pos /\ d2.label = d.label
  BY <1>1, <1>4 DEF Dials
<1>7. log' # <<>> /\ dial[r].phase # "none"
  BY <1>1, OnlyDial
<1> HIDE DEF d2, d
<1>8. d.wire = <<>> /\ d.pos = 0 /\ d.label = 0 /\ ~Erred(log)
  BY <1>1, <1>4 DEF DialStands, Sending, Unheard
<1>9. \A n : ~Has(<<>>, n) /\ ~Among(log, 0, n)
  BY DEF Has, Among
<1>10. ReadStands(d2, log, got, cursor, "starting")
  <2>1. log \in Seq(Entries) /\ 0 <= Len(log)
    BY DEF OnceInv, TypeOK
  <2>2. Open(log, 0)
    BY DEF Open
  <2> QED
    BY <1>2, <1>6, <1>8, <1>9, <2>1, <2>2 DEF ReadStands
<1>11. DialStands(d2, log, got, cursor, seq, "starting", runs')
  BY <1>2, <1>6, <1>8, <1>10, NothingOnWire DEF DialStands, Sending, Unheard
<1>12. LogStands(log, seq, "starting") /\ CursorStands(cursor, log, got, seq, "starting")
  BY <1>2 DEF DeliverInv, LogStands, CursorStands
<1>13. DialStands(dial'[r], log', got', cursor', seq', module', runs')
  BY <1>1, <1>5, <1>11
<1>14. /\ LogStands(log', seq', module') /\ GotStands(got', log')
       /\ CursorStands(cursor', log', got', seq', module')
  BY <1>1, <1>12 DEF DeliverInv
<1> QED
  BY <1>1, <1>2, <1>3, <1>7, <1>13, <1>14, DialSuffices

(* A resume: the consumer's cursor tells what to skip. *)
LEMMA ResumeReplyDelivers ==
  ASSUME OnceInv, DeliverInv, NEW r \in Requests, ResumeReply(r)
  PROVE  DeliverInv'
<1> DEFINE d == dial[r]
           d2 == [d EXCEPT !.phase = "draining", !.label = cursor, !.skip = SkipTo(cursor)]
<1>1. /\ d.phase = "open" /\ d.resume /\ req' = req /\ Set(r, d2)
      /\ UNCHANGED <<got, cursor, seq, module, runs, log>>
  BY DEF ResumeReply, OtherThanDial, ConsumerIdle, SameModule, Quiet
<1>2. \A x \in Requests : x # r => dial'[x] = dial[x]
  BY DialStep DEF OnceInv, Dial
<1>3. d \in Dials /\ DialStands(d, log, got, cursor, seq, module, runs) /\ cursor \in Nat
  BY DEF OnceInv, TypeOK, DeliverInv
<1>4. dial'[r] = d2
  BY <1>1 DEF Set, OnceInv, TypeOK
<1>5. SkipTo(cursor) = cursor - 1
  BY DEF SkipTo
<1>6. \A x, y : LET z == [d EXCEPT !.phase = "draining", !.label = x, !.skip = y]
                IN  /\ z.phase = "draining" /\ z.wire = d.wire /\ z.resume = d.resume
                    /\ z.pos = d.pos /\ z.skip = y
  BY <1>3 DEF Dials
<1>7. Marked(log, log') /\ dial[r].phase # "none"
  BY <1>1 DEF Marked
<1>8. /\ d2.phase = "draining" /\ d2.wire = d.wire /\ d2.resume
      /\ d2.pos = d.pos /\ d2.skip = cursor - 1
  BY <1>1, <1>5, <1>6
<1> HIDE DEF d2, d
<1>9. d.wire = <<>> /\ d.pos = 0 /\ runs # 0
  BY <1>1, <1>3 DEF DialStands, Sending
<1>10. \A n : ~Has(<<>>, n) /\ ~Among(log, 0, n)
  BY DEF Has, Among
<1>11. \A n \in Nat : Has(got, n) => n <= cursor - 1
  <2>1. \A n \in Nat : Has(got, n) => n < cursor
    BY DEF DeliverInv, CursorStands
  <2> QED
    BY <1>3, <2>1
<1>12. ReadStands(d2, log, got, cursor, module)
  <2>1. log \in Seq(Entries) /\ 0 <= Len(log) /\ cursor - 1 < cursor
    BY <1>3 DEF OnceInv, TypeOK
  <2>2. Open(log, 0)
    BY DEF Open
  <2> QED
    BY <1>8, <1>9, <1>10, <1>11, <2>1, <2>2 DEF ReadStands
<1>13. DialStands(d2, log, got, cursor, seq, module, runs)
  BY <1>8, <1>9, <1>12, NothingOnWire DEF DialStands, Sending, Unheard
<1>14. DialStands(dial'[r], log', got, cursor, seq, module, runs)
  BY <1>1, <1>4, <1>13
<1> QED
  BY <1>1, <1>2, <1>7, <1>14, DialQuietly

\* A reader whose end frame was handed to gRPC has nothing more to do than close.
LEMMA DrainedDelivers ==
  ASSUME OnceInv, DeliverInv, NEW r \in Requests, Drained(r)
  PROVE  DeliverInv'
<1> DEFINE d == dial[r]
           d2 == [d EXCEPT !.phase = "closing", !.delivered = TRUE]
<1>1. /\ d.phase = "ending" /\ req' = req /\ Set(r, d2)
      /\ UNCHANGED <<got, cursor, seq, module, runs, log>>
  BY DEF Drained, OtherThanDial, ConsumerIdle, SameModule, Quiet
<1>2. \A x \in Requests : x # r => dial'[x] = dial[x]
  BY DialStep DEF OnceInv, Dial
<1>3. d \in Dials /\ DialStands(d, log, got, cursor, seq, module, runs)
  BY DEF OnceInv, TypeOK, DeliverInv
<1>4. dial'[r] = d2
  BY <1>1 DEF Set, OnceInv, TypeOK
<1>5. d2.phase = "closing" /\ d2.wire = d.wire
  BY <1>3 DEF Dials
<1>6. Marked(log, log') /\ dial[r].phase # "none"
  BY <1>1 DEF Marked
<1> HIDE DEF d2, d
<1>7. DialStands(d2, log, got, cursor, seq, module, runs)
  BY <1>1, <1>3, <1>5 DEF DialStands, Sending, Unheard
<1>8. DialStands(dial'[r], log', got, cursor, seq, module, runs)
  BY <1>1, <1>4, <1>7
<1> QED
  BY <1>1, <1>2, <1>6, <1>8, DialQuietly

(* A frame may join those on the wire when it follows them. *)
LEMMA WireAppend ==
  ASSUME NEW w \in Seq(Frames), NEW f \in Frames, NEW l, NEW g, NEW s, NEW m,
         WireStands(w, l, g, s, m),
         IsOut(f) => /\ f.label = f.seq + 1 /\ Sent(l, f.seq)
                     /\ \A n \in Nat : Has(g, n) \/ Has(w, n) => n < f.seq,
         m # "over" /\ ~Ended(l) => f.label <= s + 1,
         \A n \in Nat : Sent(l, n) /\ n < f.label =>
           Has(g, n) \/ Has(w, n) \/ (IsOut(f) /\ f.seq = n),
         f.kind = "end" /\ f.label > 0 =>
           Ended(l) /\ \A n \in Nat : Sent(l, n) => Has(g, n) \/ Has(w, n)
  PROVE  WireStands(Append(w, f), l, g, s, m)
<1> DEFINE v == Append(w, f)
<1>1. /\ Len(v) = Len(w) + 1 /\ Len(w) \in Nat /\ v[Len(w) + 1] = f
      /\ \A i \in 1..Len(w) : v[i] = w[i] /\ i \in 0..Len(w)
      /\ \A i \in 1..Len(v) : i \in 1..Len(w) \/ i = Len(w) + 1
  BY Gains
<1>2. /\ \A n : \A i \in 0..Len(w) : Among(v, i, n) <=> Among(w, i, n)
      /\ \A n : Has(v, n) <=> Has(w, n) \/ (IsOut(f) /\ f.seq = n)
  BY AmongAppend
<1>3. Rising(v)
  <2>1. ASSUME IsOut(f), NEW i \in 1..Len(w), IsOut(w[i]) PROVE w[i].seq < f.seq
    <3>1. w[i] \in Frames /\ i \in 1..Len(w)
      OBVIOUS
    <3>2. w[i].seq \in Nat
      BY <3>1 DEF Frames
    <3>3. Has(w, w[i].seq)
      BY <2>1, <3>1 DEF Has, Among
    <3> QED
      BY <2>1, <3>2, <3>3
  <2>2. Rising(w)
    BY DEF WireStands
  <2> QED
    BY <2>1, <2>2, RisingAppend
<1> HIDE DEF v
<1>4. \A n : Has(v, n) <=> Among(v, Len(w) + 1, n)
  BY <1>1 DEF Has
<1>5. \A i \in 1..Len(v) : IsOut(v[i]) =>
        /\ v[i].label = v[i].seq + 1 /\ Sent(l, v[i].seq)
        /\ \A n \in Nat : Has(g, n) => n < v[i].seq
  BY <1>1 DEF WireStands
<1>6. \A i \in 1..Len(v) : m # "over" /\ ~Ended(l) => v[i].label <= s + 1
  BY <1>1 DEF WireStands
<1>7. ASSUME NEW i \in 1..Len(v), NEW n \in Nat, Sent(l, n), n < v[i].label
      PROVE  Has(g, n) \/ Among(v, i, n)
  <2>1. CASE i \in 1..Len(w)
    <3>1. Has(g, n) \/ Among(w, i, n)
      BY <1>1, <1>7, <2>1 DEF WireStands
    <3> QED
      BY <1>1, <1>2, <2>1, <3>1
  <2>2. CASE i = Len(w) + 1
    BY <1>1, <1>2, <1>4, <1>7, <2>2
  <2> QED
    BY <1>1, <2>1, <2>2
<1>8. ASSUME NEW i \in 1..Len(v), v[i].kind = "end", v[i].label > 0
      PROVE  Ended(l) /\ \A n \in Nat : Sent(l, n) => Has(g, n) \/ Among(v, i, n)
  <2>1. CASE i \in 1..Len(w)
    <3>1. Ended(l) /\ \A n \in Nat : Sent(l, n) => Has(g, n) \/ Among(w, i, n)
      BY <1>1, <1>8, <2>1 DEF WireStands
    <3> QED
      BY <1>1, <1>2, <2>1, <3>1
  <2>2. CASE i = Len(w) + 1
    BY <1>1, <1>2, <1>4, <1>8, <2>2
  <2> QED
    BY <1>1, <2>1, <2>2
<1>9. WireStands(v, l, g, s, m)
  BY <1>3, <1>5, <1>6, <1>7, <1>8 DEF WireStands
<1> QED
  BY <1>9 DEF v

(* The sentinels of a reader that Redis cut off promise nothing. *)
LEMMA ReadRaisesDelivers ==
  ASSUME OnceInv, DeliverInv, NEW r \in Requests, ReadRaises(r)
  PROVE  DeliverInv'
<1> DEFINE d == dial[r]
           f1 == Frame(0, "error", 0)
           f2 == Frame(0, "end", 0)
           v == Append(Append(d.wire, f1), f2)
           d2 == [d EXCEPT !.phase = "closing", !.wire = v]
<1>1. /\ d.phase = "draining" /\ req' = req
      /\ dial' = [dial EXCEPT ![r] = [d EXCEPT !.phase = "closing", !.wire = d.wire \o <<f1, f2>>]]
      /\ UNCHANGED <<got, cursor, seq, module, runs, log>>
  BY DEF ReadRaises, OtherThanDial, ConsumerIdle, SameModule, Set
<1>2. \A x \in Requests : x # r => dial'[x] = dial[x]
  BY DialStep DEF OnceInv, Dial
<1>3. d \in Dials /\ DialStands(d, log, got, cursor, seq, module, runs) /\ seq \in Nat
  BY DEF OnceInv, TypeOK, DeliverInv
<1>4. d.wire \in Seq(Frames)
  BY <1>3 DEF Dials
<1>5. /\ f1 \in Frames /\ ~IsOut(f1) /\ f1.label = 0 /\ f1.kind # "end"
      /\ f2 \in Frames /\ ~IsOut(f2) /\ f2.label = 0
  BY DEF Frame, Frames, IsOut
<1>6. d.wire \o <<f1, f2>> = v
  <2> HIDE DEF f1, f2, d
  <2> QED
    BY <1>4, <1>5
<1>7. ASSUME NEW w \in Seq(Frames), NEW f \in {f1, f2}, WireStands(w, log, got, seq, module)
      PROVE  Append(w, f) \in Seq(Frames) /\ WireStands(Append(w, f), log, got, seq, module)
  <2>1. f \in Frames /\ ~IsOut(f) /\ f.label = 0
    BY <1>5
  <2>2. 0 <= seq + 1 /\ ~(0 > 0) /\ \A n \in Nat : ~(n < 0)
    BY <1>3
  <2>3. WireStands(Append(w, f), log, got, seq, module)
    BY <1>7, <2>1, <2>2, WireAppend
  <2> QED
    BY <2>1, <2>3
<1> HIDE DEF f1, f2
<1>8. WireStands(v, log, got, seq, module)
  <2>1. WireStands(d.wire, log, got, seq, module)
    BY <1>3 DEF DialStands
  <2> QED
    BY <1>4, <1>7, <2>1
<1>9. d2.phase = "closing" /\ d2.wire = v
  <2> HIDE DEF v, d
  <2> QED
    BY <1>3 DEF Dials
<1>10. dial'[r] = d2
  BY <1>1, <1>6 DEF OnceInv, TypeOK
<1>11. Marked(log, log') /\ dial[r].phase # "none"
  BY <1>1 DEF Marked
<1> HIDE DEF d2, d, v
<1>12. DialStands(d2, log, got, cursor, seq, module, runs)
  BY <1>1, <1>3, <1>8, <1>9 DEF DialStands, Sending, Unheard
<1>13. DialStands(dial'[r], log', got, cursor, seq, module, runs)
  BY <1>1, <1>10, <1>12
<1> QED
  BY <1>1, <1>2, <1>11, <1>13, DialQuietly

\* A reader that waited too long marks the stream.
LEMMA IdleDelivers ==
  ASSUME Reliable, OnceInv, DeliverInv, NEW r \in Requests, IdleTimeout(r)
  PROVE  DeliverInv'
<1> DEFINE d == dial[r]
           d2 == [d EXCEPT !.phase = "closing"]
           d3 == [d EXCEPT !.phase = "closing", !.eosDue = TRUE]
<1>1. /\ d.phase = "draining" /\ req' = req /\ (Set(r, d2) \/ Set(r, d3))
      /\ UNCHANGED <<got, cursor, seq, module, runs>>
      /\ Quiet \/ Append1(Error) \/ AppendRaises(Error)
  BY DEF IdleTimeout, OtherThanDial, ConsumerIdle, SameModule
<1>2. \A x \in Requests : x # r => dial'[x] = dial[x]
  BY DialStep DEF OnceInv, Dial
<1>3. /\ d \in Dials /\ DialStands(d, log, got, cursor, seq, module, runs)
      /\ log \in Seq(Entries) /\ seq \in Nat /\ seq <= seq
  BY DEF OnceInv, TypeOK, DeliverInv
<1>4. dial'[r] = d2 \/ dial'[r] = d3
  BY <1>1 DEF Set, OnceInv, TypeOK
<1>5. d2.phase = "closing" /\ d2.wire = d.wire /\ d3.phase = "closing" /\ d3.wire = d.wire
  BY <1>3 DEF Dials
<1>6. Marked(log, log') /\ dial[r].phase # "none"
  BY <1>1, <1>3, MarkedIs
<1> HIDE DEF d2, d3, d
<1>7. Grown(log, log', seq, module)
  <2>1. LogStands(log, seq, module) /\ (module \in {"none", "starting"} => seq = 0)
    BY DEF DeliverInv, LogStands
  <2> QED
    BY <1>3, <1>6, <2>1, MarkedStands
<1>8. WireStands(d.wire, log', got, seq, module) /\ runs # 0
  <2>1. d.wire \in Seq(Frames)
    BY <1>3 DEF Dials
  <2>2. WireStands(d.wire, log, got, seq, module) /\ runs # 0
    BY <1>1, <1>3 DEF DialStands, Sending
  <2> QED
    BY <1>3, <1>7, <2>1, <2>2, WireGrown
<1>9. dial'[r].phase = "closing" /\ dial'[r].wire = d.wire
  BY <1>4, <1>5
<1>10. DialStands(dial'[r], log', got, cursor, seq, module, runs)
  BY <1>8, <1>9 DEF DialStands, Sending, Unheard
<1> QED
  BY <1>1, <1>2, <1>6, <1>10, DialQuietly

\* The end that a timed-out dial still owes only marks the stream.
LEMMA WriteEosDelivers ==
  ASSUME Reliable, OnceInv, DeliverInv, NEW r \in Requests, WriteEos(r)
  PROVE  DeliverInv'
<1> DEFINE d == dial[r]
           d2 == [d EXCEPT !.eosDue = FALSE]
<1>1. /\ d.eosDue /\ req' = req /\ Set(r, d2)
      /\ UNCHANGED <<got, cursor, seq, module, runs>>
      /\ Append1(Eos) \/ AppendRaises(Eos)
  BY DEF WriteEos, OtherThanDial, ConsumerIdle, SameModule
<1>2. \A x \in Requests : x # r => dial'[x] = dial[x]
  BY DialStep DEF OnceInv, Dial
<1>3. /\ d \in Dials /\ DialStands(d, log, got, cursor, seq, module, runs)
      /\ log \in Seq(Entries) /\ seq \in Nat /\ seq <= seq
  BY DEF OnceInv, TypeOK, DeliverInv
<1>4. dial'[r] = d2
  BY <1>1 DEF Set, OnceInv, TypeOK
<1>5. /\ d2.phase = d.phase /\ d2.wire = d.wire /\ d2.resume = d.resume
      /\ d2.pos = d.pos /\ d2.label = d.label /\ d2.skip = d.skip
      /\ d2.spawned = d.spawned /\ ~d2.eosDue
  BY <1>3 DEF Dials
<1>6. Marked(log, log')
  BY <1>1, <1>3, MarkedIs
<1>7. d.phase # "none"
  BY <1>1, <1>3 DEF DialStands, Unconnected
<1>8. log' = log \/ log' = Append(log, Eos)
  BY <1>1 DEF Append1, AppendRaises, Reliable
<1>9. Erred(log') => Erred(log)
  <2>1. Eos \in Entries /\ Eos.kind # "error"
    BY EntryType DEF Eos, Entry
  <2> QED
    BY <1>3, <1>8, <2>1, ErredGains
<1> HIDE DEF d2, d
<1>10. Grown(log, log', seq, module) /\ (NoOutput(log) => NoOutput(log'))
  <2>1. LogStands(log, seq, module) /\ (module \in {"none", "starting"} => seq = 0)
    BY DEF DeliverInv, LogStands
  <2> QED
    BY <1>3, <1>6, <2>1, MarkedStands
<1>11. DialStands(d, log', got, cursor, seq, module, runs)
  <2>1. d.phase = "draining" /\ ~d.resume /\ Erred(log') => module = "over" /\ NoOutput(log')
    BY <1>3, <1>9, <1>10 DEF DialStands, ReadStands
  <2>2. Unheard(d) => ~Erred(log')
    BY <1>3, <1>9 DEF DialStands
  <2> QED
    BY <1>3, <1>10, <2>1, <2>2, DialGrown
<1>12. DialStands(d2, log', got, cursor, seq, module, runs)
  <2>1. ReadStands(d, log', got, cursor, module) => ReadStands(d2, log', got, cursor, module)
    BY <1>5 DEF ReadStands
  <2> QED
    BY <1>5, <1>7, <1>11, <2>1 DEF DialStands, Unheard
<1>13. DialStands(dial'[r], log', got, cursor, seq, module, runs)
  BY <1>4, <1>12
<1>14. dial[r].phase # "none"
  BY <1>7 DEF d
<1> QED
  BY <1>1, <1>2, <1>6, <1>13, <1>14, DialQuietly

(* The next entry of the stream is the end: all that was sent was read.    *)
LEMMA EndFollows ==
  ASSUME NEW l \in Seq(Entries), NEW d \in Dials, NEW g, NEW c, NEW s, NEW m,
         ReadStands(d, l, g, c, m), WireStands(d.wire, l, g, s, m),
         d.pos < Len(l), l[d.pos + 1].kind = "eos"
  PROVE  WireStands(Append(d.wire, Frame(EndLabel(d), "end", 0)), l, g, s, m)
<1> DEFINE f == Frame(EndLabel(d), "end", 0)
<1>1. d.label \in Nat /\ d.last \in Nat /\ d.wire \in Seq(Frames) /\ d.pos \in Nat
  BY DEF Dials
<1>2. f \in Frames /\ ~IsOut(f) /\ f.kind = "end"
  BY <1>1 DEF Frame, Frames, EndLabel, IsOut
<1> HIDE DEF f
<1>3. d.pos + 1 \in 1..Len(l) /\ Len(l) \in Nat
  BY <1>1
<1>4. Ended(l)
  BY <1>3 DEF Ended
<1>5. ASSUME NEW n \in Nat, Sent(l, n) PROVE Has(g, n) \/ Has(d.wire, n)
  <2>1. PICK i \in 1..Len(l) : Open(l, i) /\ IsOut(l[i]) /\ l[i].seq = n
    BY <1>5 DEF Sent
  <2>2. ~(d.pos + 1 \in 1..i)
    BY <2>1 DEF Open
  <2>3. i \in 1..d.pos
    BY <1>1, <1>3, <2>2
  <2> QED
    BY <2>1, <2>3 DEF ReadStands, Among
<1>6. WireStands(Append(d.wire, f), l, g, s, m)
  BY <1>1, <1>2, <1>4, <1>5, WireAppend
<1> QED
  BY <1>6 DEF f

(* The next entry of the stream, and the label it would get.               *)
LEMMA NextEntry ==
  ASSUME NEW l \in Seq(Entries), NEW s \in Nat, NEW m, LogStands(l, s, m),
         NEW p \in Nat, p < Len(l), Open(l, p), l[p + 1].kind # "eos"
  PROVE  LET e == l[p + 1] IN
         /\ e \in Entries /\ e.seq \in Nat /\ e.kind \in {"start", "out", "error"}
         /\ e.seq <= s /\ (~IsOut(e) => e.seq = 0)
         /\ Open(l, p + 1) /\ p + 1 <= Len(l)
         /\ IsOut(e) => Sent(l, e.seq)
         /\ \A n : Among(l, p + 1, n) <=> Among(l, p, n) \/ (IsOut(e) /\ e.seq = n)
         /\ IsOut(e) => \A n \in Nat : Among(l, p, n) => n < e.seq
         /\ IsOut(e) => \A n \in 1..(e.seq - 1) : Among(l, p, n)
         /\ ~Erred(l) => e.seq = p
<1> DEFINE e == l[p + 1]
<1>1. /\ p + 1 \in 1..Len(l) /\ p + 1 <= Len(l) /\ (p + 1) - 1 = p
      /\ \A i \in 1..p : i \in 1..Len(l) /\ i < p + 1
      /\ \A i \in 1..(p + 1) : i \in 1..p \/ i = p + 1
      /\ \A i \in 1..(p + 1) : i \in 1..Len(l)
      /\ \A i \in 1..p : i \in 1..(p + 1)
      /\ p + 1 \in 1..(p + 1)
  OBVIOUS
<1>2. e \in Entries
  BY <1>1
<1>3. e.seq \in Nat /\ e.kind \in {"start", "out", "error"}
  BY <1>2 DEF Entries
<1> HIDE DEF e
<1>4. e.seq <= s /\ (~IsOut(e) => e.seq = 0)
  BY <1>1, <1>3 DEF LogStands, e
<1>5. Open(l, p + 1)
  BY <1>1 DEF Open, e
<1>6. IsOut(e) => Sent(l, e.seq)
  BY <1>1, <1>5 DEF Sent, e
<1>7. \A n : Among(l, p + 1, n) <=> Among(l, p, n) \/ (IsOut(e) /\ e.seq = n)
  BY <1>1 DEF Among, e
<1>8. ASSUME IsOut(e), NEW n \in Nat, Among(l, p, n) PROVE n < e.seq
  <2>1. PICK i \in 1..p : IsOut(l[i]) /\ l[i].seq = n
    BY <1>8 DEF Among
  <2> QED
    BY <1>1, <1>8, <2>1 DEF LogStands, Rising, e
<1>9. ASSUME IsOut(e), NEW n \in 1..(e.seq - 1) PROVE Among(l, p, n)
  BY <1>1, <1>9 DEF LogStands, e
<1>10. ASSUME ~Erred(l) PROVE e.seq = p
  <2>1. Clean(l, p + 1)
    BY <1>1, <1>5, <1>10 DEF Clean, Open, Erred
  <2> QED
    BY <1>1, <2>1 DEF LogStands, e
<1> QED
  BY <1>1, <1>2, <1>3, <1>4, <1>5, <1>6, <1>7, <1>8, <1>9, <1>10 DEF e

\* A seq in the stream is one that the module took.
LEMMA SentCounted ==
  ASSUME NEW l, NEW s \in Nat, NEW m, LogStands(l, s, m), NEW n, Sent(l, n)
  PROVE  n \in 1..s /\ ~NoOutput(l)
BY DEF Sent, LogStands, NoOutput

(* What the reader makes of an entry: it skips it, or labels it. *)
LEMMA ReadEntryFields ==
  ASSUME NEW d \in Dials, NEW e
  PROVE  LET d2 == ReadEntry(d, e) IN
         /\ d2.pos = d.pos + 1 /\ d2.resume = d.resume /\ d2.skip = d.skip
         /\ d2.phase = d.phase /\ d2.spawned = d.spawned /\ d2.eosDue = d.eosDue
         /\ d.resume /\ e.seq <= d.skip => d2.wire = d.wire
         /\ ~(d.resume /\ e.seq <= d.skip) =>
              /\ d2.wire = Append(d.wire, Frame(Labelled(d, e), e.kind, e.seq))
              /\ d2.label = Labelled(d, e)
<1> DEFINE read == [d EXCEPT !.pos = @ + 1, !.last = e.seq]
           w == Append(d.wire, Frame(Labelled(d, e), e.kind, e.seq))
           put == [read EXCEPT !.label = Labelled(d, e), !.wire = w]
<1>1. ReadEntry(d, e) = IF d.resume /\ e.seq <= d.skip THEN read
                        ELSE [read EXCEPT !.label = Labelled(d, e),
                               !.wire = Append(@, Frame(Labelled(d, e), e.kind, e.seq))]
  BY DEF ReadEntry
<1>2. /\ read.pos = d.pos + 1 /\ read.resume = d.resume /\ read.skip = d.skip
      /\ read.phase = d.phase /\ read.spawned = d.spawned /\ read.eosDue = d.eosDue
      /\ read.wire = d.wire
      /\ DOMAIN read = DOMAIN d
  BY DEF Dials
<1>3. DOMAIN d = {"phase", "resume", "spawned", "pos", "last", "label", "skip",
                  "delivered", "eosDue", "wire"}
  BY DEF Dials
<1>4. ReadEntry(d, e) = IF d.resume /\ e.seq <= d.skip THEN read ELSE put
  BY <1>1, <1>2
<1> HIDE DEF w
<1>5. /\ put.pos = read.pos /\ put.resume = read.resume /\ put.skip = read.skip
      /\ put.phase = read.phase /\ put.spawned = read.spawned /\ put.eosDue = read.eosDue
      /\ put.wire = w /\ put.label = Labelled(d, e)
  <2> HIDE DEF read
  <2> QED
    BY <1>2, <1>3
<1> HIDE DEF read, put
<1> QED
  BY <1>2, <1>4, <1>5 DEF w

(* An entry that a resume skips was received. *)
LEMMA SkippedWasHad ==
  ASSUME NEW l \in Seq(Entries), NEW s \in Nat, NEW m, LogStands(l, s, m),
         NEW g, NEW c \in Nat, CursorStands(c, l, g, s, m),
         NEW d \in Dials, ReadStands(d, l, g, c, m), d.pos < Len(l),
         l[d.pos + 1].kind # "eos", d.resume, l[d.pos + 1].seq <= d.skip
  PROVE  ReadStands(ReadEntry(d, l[d.pos + 1]), l, g, c, m)
<1> DEFINE e == l[d.pos + 1]
           d2 == ReadEntry(d, e)
<1>1. d.pos \in Nat /\ d.skip \in Int /\ Open(l, d.pos) /\ d.skip < c
  BY DEF Dials, ReadStands
<1>2. /\ e.seq \in Nat /\ Open(l, d.pos + 1) /\ d.pos + 1 <= Len(l)
      /\ IsOut(e) => Sent(l, e.seq)
      /\ \A n : Among(l, d.pos + 1, n) <=> Among(l, d.pos, n) \/ (IsOut(e) /\ e.seq = n)
  BY <1>1, NextEntry
<1>3. d2.pos = d.pos + 1 /\ d2.resume /\ d2.skip = d.skip /\ d2.wire = d.wire
  BY ReadEntryFields
<1>4. IsOut(e) => Has(g, e.seq)
  <2>1. e.seq < c
    BY <1>1, <1>2
  <2> QED
    BY <1>2, <2>1 DEF CursorStands
<1> HIDE DEF e, d2
<1>5. ReadStands(d2, l, g, c, m)
  BY <1>2, <1>3, <1>4 DEF ReadStands
<1> QED
  BY <1>5 DEF e, d2

(* An entry that is put on the wire follows what is there. *)
LEMMA PutFollows ==
  ASSUME NEW l \in Seq(Entries), NEW s \in Nat, NEW m, LogStands(l, s, m),
         NEW g, NEW c \in Nat,
         NEW d \in Dials, ReadStands(d, l, g, c, m), d.pos < Len(l),
         l[d.pos + 1].kind # "eos", ~(d.resume /\ l[d.pos + 1].seq <= d.skip),
         WireStands(d.wire, l, g, s, m)
  PROVE  LET d2 == ReadEntry(d, l[d.pos + 1]) IN
         ReadStands(d2, l, g, c, m) /\ WireStands(d2.wire, l, g, s, m)
<1> DEFINE e == l[d.pos + 1]
           d2 == ReadEntry(d, e)
           f == Frame(Labelled(d, e), e.kind, e.seq)
<1>1. d.pos \in Nat /\ d.skip \in Int /\ d.label \in Nat /\ d.wire \in Seq(Frames)
  BY DEF Dials
<1>0. Open(l, d.pos)
  BY DEF ReadStands
<1>2. /\ e.seq \in Nat /\ e.kind \in {"start", "out", "error"}
      /\ e.seq <= s /\ (~IsOut(e) => e.seq = 0)
      /\ Open(l, d.pos + 1) /\ d.pos + 1 <= Len(l)
      /\ IsOut(e) => Sent(l, e.seq)
      /\ \A n : Among(l, d.pos + 1, n) <=> Among(l, d.pos, n) \/ (IsOut(e) /\ e.seq = n)
      /\ IsOut(e) => \A n \in Nat : Among(l, d.pos, n) => n < e.seq
      /\ IsOut(e) => \A n \in 1..(e.seq - 1) : Among(l, d.pos, n)
      /\ ~Erred(l) => e.seq = d.pos
  BY <1>0, <1>1, NextEntry
<1>3. /\ d2.pos = d.pos + 1 /\ d2.resume = d.resume /\ d2.skip = d.skip
      /\ d2.wire = Append(d.wire, f) /\ d2.label = Labelled(d, e)
  BY ReadEntryFields
<1>4. f.label = Labelled(d, e) /\ f.kind = e.kind /\ f.seq = e.seq
  BY DEF Frame
<1>5. IsOut(f) <=> IsOut(e)
  BY <1>4 DEF IsOut
<1>6. d.resume => d.skip < e.seq
  BY <1>1, <1>2
<1>7. IsOut(e) => ~NoOutput(l)
  <2>1. d.pos + 1 \in 1..Len(l)
    BY <1>1
  <2> QED
    BY <2>1 DEF NoOutput
<1> HIDE DEF e, d2
<1>8. Labelled(d, e) = e.seq + 1 \/ (m = "over" /\ NoOutput(l))
  <2>1. CASE d.resume
    BY <2>1 DEF Labelled
  <2>2. CASE ~d.resume /\ ~Erred(l)
    <3>1. d.label = d.pos
      BY <2>2 DEF ReadStands
    <3> QED
      BY <1>2, <2>2, <3>1 DEF Labelled
  <2>3. CASE ~d.resume /\ Erred(l)
    BY <2>3 DEF ReadStands
  <2> QED
    BY <2>1, <2>2, <2>3
<1>9. f \in Frames
  <2>1. Labelled(d, e) \in Nat
    BY <1>1, <1>2 DEF Labelled
  <2> QED
    BY <1>2, <2>1 DEF Frame, Frames
<1> HIDE DEF f
<1>10. ASSUME IsOut(f)
       PROVE  /\ f.label = f.seq + 1 /\ Sent(l, f.seq)
              /\ \A n \in Nat : Has(g, n) \/ Has(d.wire, n) => n < f.seq
  <2>1. f.label = f.seq + 1 /\ Sent(l, f.seq) /\ IsOut(e)
    BY <1>2, <1>4, <1>5, <1>7, <1>8, <1>10
  <2>2. ASSUME NEW n \in Nat, Has(g, n) \/ Has(d.wire, n) PROVE n < e.seq
    <3>1. CASE Among(l, d.pos, n)
      BY <1>2, <2>1, <3>1
    <3>2. CASE d.resume /\ n <= d.skip
      BY <1>1, <1>2, <1>6, <3>2
    <3>3. Among(l, d.pos, n) \/ (d.resume /\ n <= d.skip)
      BY <2>2 DEF ReadStands
    <3> QED
      BY <3>1, <3>2, <3>3
  <2> QED
    BY <1>4, <2>1, <2>2
<1>11. m # "over" /\ ~Ended(l) => f.label <= s + 1
  BY <1>2, <1>4, <1>8
<1>12. ASSUME NEW n \in Nat, Sent(l, n), n < f.label
       PROVE  Has(g, n) \/ Has(d.wire, n) \/ (IsOut(f) /\ f.seq = n)
  <2>1. n \in 1..s /\ f.label = e.seq + 1
    BY <1>4, <1>8, <1>12, SentCounted
  <2>2. n <= e.seq
    BY <1>2, <1>12, <2>1
  <2>3. IsOut(e)
    BY <1>2, <2>1, <2>2
  <2>4. CASE n = e.seq
    BY <1>4, <1>5, <2>3, <2>4
  <2>5. CASE n # e.seq
    <3>1. n \in 1..(e.seq - 1)
      BY <1>2, <2>1, <2>2, <2>5
    <3>2. Among(l, d.pos, n)
      BY <1>2, <2>3, <3>1
    <3> QED
      BY <3>2 DEF ReadStands
  <2> QED
    BY <2>4, <2>5
<1>13. f.kind # "end"
  BY <1>2, <1>4
<1>14. WireStands(Append(d.wire, f), l, g, s, m)
  BY <1>1, <1>9, <1>10, <1>11, <1>12, <1>13, WireAppend
<1>15. \A n : Has(Append(d.wire, f), n) <=> Has(d.wire, n) \/ (IsOut(e) /\ e.seq = n)
  BY <1>1, <1>4, <1>5, <1>9, AmongAppend
<1>16. ReadStands(d2, l, g, c, m)
  <2>1. /\ \A n \in Nat : Among(l, d2.pos, n) => Has(g, n) \/ Has(d2.wire, n)
        /\ \A n \in Nat : Has(d2.wire, n) => Among(l, d2.pos, n)
    BY <1>2, <1>3, <1>15 DEF ReadStands
  <2>2. d2.resume => /\ d2.skip < c
                     /\ \A n \in Nat : Has(g, n) => n <= d2.skip \/ Among(l, d2.pos, n)
    BY <1>2, <1>3 DEF ReadStands
  <2>3. ASSUME ~d2.resume
        PROVE  /\ d2.label = d2.pos
               /\ Erred(l) => m = "over" /\ NoOutput(l)
               /\ \A n \in Nat : Has(g, n) => Among(l, d2.pos, n)
    <3>1. d2.label = d.label + 1 /\ d.label = d.pos
      BY <1>3, <2>3 DEF Labelled, ReadStands
    <3> QED
      BY <1>2, <1>3, <2>3, <3>1 DEF ReadStands
  <2>4. d2.pos <= Len(l) /\ Open(l, d2.pos)
    BY <1>2, <1>3
  <2> QED
    BY <2>1, <2>2, <2>3, <2>4 DEF ReadStands
<1> QED
  BY <1>3, <1>14, <1>16 DEF e, d2

\* A read passes the next entry on, skips what the consumer has, or ends the stream.
LEMMA ReadDelivers ==
  ASSUME OnceInv, DeliverInv, NEW r \in Requests, Read(r)
  PROVE  DeliverInv'
<1> DEFINE d == dial[r]
           e == log[d.pos + 1]
           d2 == [d EXCEPT !.phase = "ending",
                           !.wire = Append(@, Frame(EndLabel(d), "end", 0))]
           d3 == ReadEntry(d, e)
<1>1. /\ d.phase = "draining" /\ d.pos < Len(log) /\ req' = req
      /\ Set(r, IF e.kind = "eos" THEN d2 ELSE d3)
      /\ UNCHANGED <<got, cursor, seq, module, runs, log>>
  BY DEF Read, OtherThanDial, ConsumerIdle, SameModule, Quiet
<1>2. \A x \in Requests : x # r => dial'[x] = dial[x]
  BY DialStep DEF OnceInv, Dial
<1>3. /\ d \in Dials /\ DialStands(d, log, got, cursor, seq, module, runs)
      /\ log \in Seq(Entries) /\ seq \in Nat /\ cursor \in Nat
      /\ LogStands(log, seq, module) /\ CursorStands(cursor, log, got, seq, module)
  BY DEF OnceInv, TypeOK, DeliverInv
<1>4. Marked(log, log') /\ dial[r].phase # "none"
  BY <1>1 DEF Marked
<1>5. dial'[r] = IF e.kind = "eos" THEN d2 ELSE d3
  BY <1>1 DEF Set, OnceInv, TypeOK
<1>6. d2.phase = "ending" /\ d2.wire = Append(d.wire, Frame(EndLabel(d), "end", 0))
  BY <1>3 DEF Dials
<1>7. d3.phase = d.phase
  BY <1>3, ReadEntryFields
<1> HIDE DEF d2, d3, d
<1>8. /\ ReadStands(d, log, got, cursor, module) /\ runs # 0
      /\ WireStands(d.wire, log, got, seq, module)
  BY <1>1, <1>3 DEF DialStands, Sending
<1>9. ASSUME e.kind = "eos" PROVE DialStands(d2, log, got, cursor, seq, module, runs)
  <2>1. WireStands(d2.wire, log, got, seq, module)
    BY <1>1, <1>3, <1>6, <1>8, <1>9, EndFollows
  <2> QED
    BY <1>6, <1>8, <2>1 DEF DialStands, Sending, Unheard
<1>10. ASSUME e.kind # "eos" PROVE DialStands(d3, log, got, cursor, seq, module, runs)
  <2>1. ReadStands(d3, log, got, cursor, module) /\ WireStands(d3.wire, log, got, seq, module)
    <3>1. CASE d.resume /\ e.seq <= d.skip
      <4>1. ReadStands(d3, log, got, cursor, module)
        BY <1>1, <1>3, <1>8, <1>10, <3>1, SkippedWasHad DEF d3
      <4>2. d3.wire = d.wire
        BY <1>3, <3>1, ReadEntryFields DEF d3
      <4> QED
        BY <1>8, <4>1, <4>2
    <3>2. CASE ~(d.resume /\ e.seq <= d.skip)
      BY <1>1, <1>3, <1>8, <1>10, <3>2, PutFollows DEF d3
    <3> QED
      BY <3>1, <3>2
  <2> QED
    BY <1>1, <1>7, <1>8, <2>1 DEF DialStands, Sending, Unheard
<1>11. DialStands(dial'[r], log', got, cursor, seq, module, runs)
  BY <1>1, <1>5, <1>9, <1>10
<1> QED
  BY <1>1, <1>2, <1>4, <1>11, DialQuietly

(* The consumer takes the first frame of the wire. *)
LEMMA TakesFrame ==
  ASSUME NEW w \in Seq(Frames), w # <<>>, NEW g \in Seq(Frames), NEW c \in Nat,
         NEW c2, c2 = IF Head(w).label > c THEN Head(w).label ELSE c,
         NEW l, NEW s \in Nat, NEW m,
         CursorStands(c, l, g, s, m), GotStands(g, l), WireStands(w, l, g, s, m)
  PROVE  /\ CursorStands(c2, l, Append(g, Head(w)), s, m)
         /\ GotStands(Append(g, Head(w)), l)
         /\ WireStands(Tail(w), l, Append(g, Head(w)), s, m)
<1> DEFINE f == Head(w)
           v == Tail(w)
           g2 == Append(g, f)
<1>1. /\ Len(w) \in Nat /\ Len(v) = Len(w) - 1 /\ f = w[1] /\ 1 \in 1..Len(w)
      /\ \A i \in 1..Len(v) : v[i] = w[i + 1] /\ i + 1 \in 1..Len(w) /\ i \in 0..Len(v)
      /\ f \in Frames /\ v \in Seq(Frames) /\ g2 \in Seq(Frames)
  OBVIOUS
<1>2. f.label \in Nat
  BY <1>1 DEF Frames
<1>3. c2 \in Nat /\ c <= c2 /\ f.label <= c2 /\ (c2 = c \/ c2 = f.label)
  BY <1>2
<1>4. \A n : Has(g2, n) <=> Has(g, n) \/ (IsOut(f) /\ f.seq = n)
  BY <1>1, AmongAppend
<1>5. \A n : \A i \in 0..Len(v) : Among(w, i + 1, n) <=> (IsOut(f) /\ f.seq = n) \/ Among(v, i, n)
  BY AmongTail
<1>6. \A n : Among(w, 1, n) <=> IsOut(f) /\ f.seq = n
  <2>1. 1..1 = {1}
    OBVIOUS
  <2> QED
    BY <1>1, <2>1 DEF Among
<1>7. /\ IsOut(f) => /\ f.label = f.seq + 1 /\ Sent(l, f.seq) /\ f.seq \in Nat
                     /\ \A n \in Nat : Has(g, n) => n < f.seq
      /\ m # "over" /\ ~Ended(l) => f.label <= s + 1
      /\ \A n \in Nat : Sent(l, n) /\ n < f.label => Has(g2, n)
      /\ f.kind = "end" /\ f.label > 0 =>
           Ended(l) /\ \A n \in Nat : Sent(l, n) => Has(g2, n)
  <2>1. f.seq \in Nat
    BY <1>1 DEF Frames
  <2>2. IsOut(f) => /\ f.label = f.seq + 1 /\ Sent(l, f.seq)
                    /\ \A n \in Nat : Has(g, n) => n < f.seq
    BY <1>1 DEF WireStands
  <2>3. m # "over" /\ ~Ended(l) => f.label <= s + 1
    BY <1>1 DEF WireStands
  <2>4. \A n \in Nat : Sent(l, n) /\ n < f.label => Has(g, n) \/ Among(w, 1, n)
    BY <1>1 DEF WireStands
  <2>5. f.kind = "end" /\ f.label > 0 =>
           Ended(l) /\ \A n \in Nat : Sent(l, n) => Has(g, n) \/ Among(w, 1, n)
    BY <1>1 DEF WireStands
  <2> HIDE DEF f, g2
  <2> QED
    BY <1>4, <1>6, <2>1, <2>2, <2>3, <2>4, <2>5
<1>8. /\ \A i \in 1..Len(g) : g2[i] = g[i]
      /\ g2[Len(g) + 1] = f /\ Len(g2) = Len(g) + 1
      /\ \A i \in 1..Len(g2) : i \in 1..Len(g) \/ i = Len(g) + 1
  BY <1>1, Gains
<1>9. Rising(v) /\ (IsOut(f) => \A i \in 1..Len(v) : IsOut(v[i]) => f.seq < v[i].seq)
  BY RisingTail DEF WireStands
<1>10. Rising(g2)
  <2>1. ASSUME IsOut(f), NEW i \in 1..Len(g), IsOut(g[i]) PROVE g[i].seq < f.seq
    <3>1. g[i] \in Frames
      OBVIOUS
    <3>2. g[i].seq \in Nat
      BY <3>1 DEF Frames
    <3>3. Has(g, g[i].seq)
      BY <2>1 DEF Has, Among
    <3> QED
      BY <1>7, <2>1, <3>2, <3>3
  <2>2. Rising(g)
    BY DEF GotStands
  <2> QED
    BY <1>1, <2>1, <2>2, RisingAppend
<1> HIDE DEF f, v, g2
<1>11. CursorStands(c2, l, g2, s, m)
  <2>1. ASSUME NEW n \in Nat, Has(g2, n) PROVE n < c2
    <3>1. CASE Has(g, n)
      <4>1. n < c
        BY <3>1 DEF CursorStands
      <4> QED
        BY <1>3, <4>1
    <3>2. CASE IsOut(f) /\ f.seq = n
      BY <1>3, <1>7, <3>2
    <3> QED
      BY <1>4, <2>1, <3>1, <3>2
  <2>2. ASSUME NEW n \in Nat, Sent(l, n), n < c2 PROVE Has(g2, n)
    <3>1. CASE c2 = c
      BY <1>4, <2>2, <3>1 DEF CursorStands
    <3>2. CASE c2 = f.label
      BY <1>7, <2>2, <3>2
    <3> QED
      BY <1>3, <3>1, <3>2
  <2>3. m # "over" /\ ~Ended(l) => c2 <= s + 1
    BY <1>3, <1>7 DEF CursorStands
  <2> QED
    BY <2>1, <2>2, <2>3 DEF CursorStands
<1>12. GotStands(g2, l)
  <2>1. \A n \in Nat : Has(g2, n) => Sent(l, n)
    BY <1>4, <1>7 DEF GotStands
  <2>2. ASSUME NEW i \in 1..Len(g2), g2[i].kind = "end", g2[i].label > 0
        PROVE  Ended(l) /\ \A n \in Nat : Sent(l, n) => Has(g2, n)
    <3>1. CASE i \in 1..Len(g)
      BY <1>4, <1>8, <2>2, <3>1 DEF GotStands
    <3>2. CASE i = Len(g) + 1
      BY <1>7, <1>8, <2>2, <3>2
    <3> QED
      BY <1>8, <3>1, <3>2
  <2> QED
    BY <1>10, <2>1, <2>2 DEF GotStands
<1>13. WireStands(v, l, g2, s, m)
  <2>1. ASSUME NEW i \in 1..Len(v), IsOut(v[i])
        PROVE  /\ v[i].label = v[i].seq + 1 /\ Sent(l, v[i].seq)
               /\ \A n \in Nat : Has(g2, n) => n < v[i].seq
    <3>1. /\ v[i].label = v[i].seq + 1 /\ Sent(l, v[i].seq)
          /\ \A n \in Nat : Has(g, n) => n < v[i].seq
      BY <1>1, <2>1 DEF WireStands
    <3> QED
      BY <1>4, <1>9, <2>1, <3>1
  <2>2. \A i \in 1..Len(v) : m # "over" /\ ~Ended(l) => v[i].label <= s + 1
    BY <1>1 DEF WireStands
  <2>3. ASSUME NEW i \in 1..Len(v), NEW n \in Nat, Sent(l, n), n < v[i].label
        PROVE  Has(g2, n) \/ Among(v, i, n)
    <3>1. Has(g, n) \/ Among(w, i + 1, n)
      BY <1>1, <2>3 DEF WireStands
    <3> QED
      BY <1>1, <1>4, <1>5, <3>1
  <2>4. ASSUME NEW i \in 1..Len(v), v[i].kind = "end", v[i].label > 0
        PROVE  Ended(l) /\ \A n \in Nat : Sent(l, n) => Has(g2, n) \/ Among(v, i, n)
    <3>1. Ended(l) /\ \A n \in Nat : Sent(l, n) => Has(g, n) \/ Among(w, i + 1, n)
      BY <1>1, <2>4 DEF WireStands
    <3> QED
      BY <1>1, <1>4, <1>5, <3>1
  <2> QED
    BY <1>9, <2>1, <2>2, <2>3, <2>4 DEF WireStands
<1> QED
  BY <1>11, <1>12, <1>13 DEF f, v, g2

(* A reader sees its frames arrive. *)
LEMMA ReadAfterTaking ==
  ASSUME NEW d \in Dials, NEW d2, d.wire # <<>>, d2.wire = Tail(d.wire),
         d2.pos = d.pos, d2.resume = d.resume, d2.skip = d.skip, d2.label = d.label,
         NEW g \in Seq(Frames), NEW c \in Nat, NEW c2 \in Nat, c <= c2,
         NEW l, NEW m, ReadStands(d, l, g, c, m)
  PROVE  ReadStands(d2, l, Append(g, Head(d.wire)), c2, m)
<1> DEFINE f == Head(d.wire)
           g2 == Append(g, f)
<1>1. d.wire \in Seq(Frames) /\ d.skip \in Int
  BY DEF Dials
<1>2. f \in Frames /\ Len(Tail(d.wire)) \in 0..Len(Tail(d.wire))
      /\ Len(d.wire) = Len(Tail(d.wire)) + 1
  BY <1>1
<1>3. \A n : Has(g2, n) <=> Has(g, n) \/ (IsOut(f) /\ f.seq = n)
  BY <1>2, AmongAppend
<1>4. \A n : Has(d.wire, n) <=> (IsOut(f) /\ f.seq = n) \/ Has(d2.wire, n)
  BY <1>1, <1>2, AmongTail DEF Has
<1> HIDE DEF f, g2
<1>5. d.skip < c => d2.skip < c2
  BY <1>1
<1>6. ReadStands(d2, l, g2, c2, m)
  BY <1>3, <1>4, <1>5 DEF ReadStands
<1> QED
  BY <1>6 DEF f, g2

\* The consumer takes the head of the wire and moves its cursor.
LEMMA ReceiveDelivers ==
  ASSUME OnceInv, DeliverInv, NEW r \in Requests, Receive(r)
  PROVE  DeliverInv'
<1> DEFINE d == dial[r]
           f == Head(d.wire)
           v == Tail(d.wire)
           d2 == [d EXCEPT !.wire = v]
<1>1. /\ d.phase \in Connected /\ d.wire # <<>> /\ req' = req
      /\ got' = Append(got, f) /\ cursor' = IF f.label > cursor THEN f.label ELSE cursor
      /\ dial' = [dial EXCEPT ![r] = d2]
      /\ UNCHANGED <<seq, module, runs, log>>
  BY DEF Receive, OtherThanDial, SameModule, Quiet, Set
<1>2. \A x \in Requests : x # r => dial'[x] = dial[x]
  BY <1>1
<1>3. /\ d \in Dials /\ DialStands(d, log, got, cursor, seq, module, runs)
      /\ seq \in Nat /\ cursor \in Nat /\ got \in Seq(Frames)
      /\ LogStands(log, seq, module) /\ CursorStands(cursor, log, got, seq, module)
      /\ GotStands(got, log)
  BY DEF OnceInv, TypeOK, DeliverInv
<1>4. d.wire \in Seq(Frames)
  BY <1>3 DEF Dials
<1>5. cursor' \in Nat /\ cursor <= cursor'
  <2>1. f \in Frames
    BY <1>1, <1>4
  <2>2. f.label \in Nat
    BY <2>1 DEF Frames
  <2> QED
    BY <1>1, <1>3, <2>2
<1>6. dial'[r] = d2
  BY <1>1 DEF OnceInv, TypeOK
<1>7. /\ d2.phase = d.phase /\ d2.wire = v /\ d2.resume = d.resume
      /\ d2.pos = d.pos /\ d2.label = d.label /\ d2.skip = d.skip
      /\ d2.spawned = d.spawned /\ d2.eosDue = d.eosDue
  <2> HIDE DEF v, d
  <2> QED
    BY <1>3 DEF Dials
<1>8. log' # <<>> /\ dial[r].phase # "none"
  BY <1>1, OnlyDial DEF Connected
<1> HIDE DEF d, d2
<1>9. d.phase \in Sending /\ runs # 0 /\ WireStands(d.wire, log, got, seq, module)
  BY <1>1, <1>3 DEF DialStands
<1>10. /\ CursorStands(cursor', log, got', seq, module) /\ GotStands(got', log)
       /\ WireStands(v, log, got', seq, module)
  BY <1>1, <1>3, <1>4, <1>9, TakesFrame
<1>11. d.phase = "draining" => ReadStands(d2, log, got', cursor', module)
  BY <1>1, <1>3, <1>5, <1>7, ReadAfterTaking DEF DialStands
<1>12. DialStands(d2, log, got', cursor', seq, module, runs)
  BY <1>7, <1>9, <1>10, <1>11 DEF DialStands, Sending, Unheard
<1>13. DialStands(dial'[r], log', got', cursor', seq', module', runs')
  BY <1>1, <1>6, <1>12
<1>14. /\ LogStands(log', seq', module') /\ GotStands(got', log')
       /\ CursorStands(cursor', log', got', seq', module')
       /\ runs' = 0 => got' = <<>>
  BY <1>1, <1>3, <1>9, <1>10
<1> QED
  BY <1>1, <1>2, <1>8, <1>13, <1>14, DialSuffices

\* Every step of a dial keeps the invariant.
LEMMA DialDelivers ==
  ASSUME Reliable, OnceInv, DeliverInv, NEW r \in Requests, Dial(r)
  PROVE  DeliverInv'
BY EndsDeliver, ConnectDelivers, RedialDelivers, FirstReplyDelivers, ResumeReplyDelivers,
   DrainedDelivers, ReadRaisesDelivers, IdleDelivers, WriteEosDelivers, ReadDelivers,
   ReceiveDelivers DEF Dial

\* An empty stream delivers.
LEMMA DeliverInit == Init => DeliverInv
<1> SUFFICES ASSUME Init PROVE DeliverInv
  OBVIOUS
<1>1. Len(<<>>) = 0 /\ 1..0 = {}
  OBVIOUS
<1>2. /\ log = <<>> /\ got = <<>> /\ seq = 0 /\ cursor = 0 /\ module = "none"
      /\ \A r \in Requests : dial[r] = Unconnected /\ req[r] = "idle"
  BY DEF Init
<1>3. LogStands(<<>>, 0, "none")
  BY <1>1 DEF LogStands, Rising
<1>4. GotStands(<<>>, <<>>)
  BY <1>1 DEF GotStands, Has, Among, Rising
<1>5. CursorStands(0, <<>>, <<>>, 0, "none")
  BY <1>1 DEF CursorStands, Has, Among, Sent
<1> QED
  BY <1>2, <1>3, <1>4, <1>5, UnconnectedStands DEF DeliverInv

\* Every step keeps the invariant while Redis is reliable.
LEMMA DeliverStep ==
  ASSUME Reliable
  PROVE  FullInv /\ [Next]_vars => FullInv'
<1> SUFFICES ASSUME FullInv, [Next]_vars PROVE FullInv'
  OBVIOUS
<1> USE DEF FullInv
<1>1. OnceInv'
  BY OnceStep
<1>2. CASE UNCHANGED vars
  <2>1. DeliverInv'
    BY <1>2 DEF DeliverInv, vars
  <2> QED
    BY <1>1, <2>1
<1>3. CASE Next
  <2>1. DeliverInv'
    BY <1>3, HandlerDelivers, CancelDelivers, DialDelivers, ModuleDelivers DEF Next
  <2> QED
    BY <1>1, <2>1
<1> QED
  BY <1>2, <1>3

----------------------------------------------------------------------------
(* The invariant and the sequences of the abstract specification: what was *)
(* written is 1, 2, ... up to some output, and so is what was received.    *)

Counting(n) == [k \in 1..n |-> k]

\* Counting(n) is 1, 2, ..., n.
LEMMA CountUp ==
  ASSUME NEW n \in Nat
  PROVE  /\ Counting(n) \in Seq(Nat) /\ Len(Counting(n)) = n
         /\ Counting(n + 1) = Append(Counting(n), n + 1)
         /\ \A i \in 1..n : Counting(n)[i] = i
         /\ Counting(0) = <<>>
<1>1. \A m \in Nat : /\ Counting(m) \in Seq(Nat) /\ Len(Counting(m)) = m
                     /\ \A i \in 1..m : Counting(m)[i] = i
  BY DEF Counting
<1>2. Counting(n + 1) = Append(Counting(n), n + 1)
  <2> DEFINE a == Counting(n + 1)
             b == Append(Counting(n), n + 1)
  <2>1. /\ a \in Seq(Nat) /\ Len(a) = n + 1
        /\ \A i \in 1..(n + 1) : a[i] = i
    BY <1>1
  <2>2. b \in Seq(Nat) /\ Len(b) = n + 1
    BY <1>1
  <2>3. \A i \in 1..(n + 1) : b[i] = i
    BY <1>1
  <2> HIDE DEF a, b
  <2>4. a = b
    BY <2>1, <2>2, <2>3
  <2> QED
    BY <2>4 DEF a, b
<1>3. Counting(0) = <<>>
  BY <1>1
<1> QED
  BY <1>1, <1>2, <1>3

(* Elements of s at the places P whose seq rise and leave none out.        *)
LEMMA Numbered ==
  ASSUME NEW s, NEW P, IsFiniteSet(P), P \subseteq Nat,
         \A i \in P : s[i].seq \in Nat /\ s[i].seq >= 1,
         \A i, j \in P : i < j => s[i].seq < s[j].seq,
         \A i \in P : \A k \in 1..(s[i].seq - 1) : \E j \in P : s[j].seq = k
  PROVE  /\ Cardinality(P) \in Nat
         /\ \A n : (\E i \in P : s[i].seq = n) <=> n \in 1..Cardinality(P)
         /\ SeqsAt(s, P) = Counting(Cardinality(P))
<1> DEFINE q(i) == s[i].seq
           R == {q(i) : i \in P}
           n == Cardinality(P)
<1>1. \A i, j \in P : q(i) = q(j) => i = j
  <2>1. TAKE i, j \in P
  <2>2. i \in Nat /\ j \in Nat /\ q(i) \in Nat /\ q(j) \in Nat
    OBVIOUS
  <2>3. (i < j => q(i) < q(j)) /\ (j < i => q(j) < q(i))
    OBVIOUS
  <2> HIDE DEF q
  <2>4. i < j \/ i = j \/ j < i
    BY <2>2
  <2> QED
    BY <2>2, <2>3, <2>4
<1>2. ASSUME NEW i \in P PROVE Cardinality({j \in P : j <= i}) = q(i)
  <2> DEFINE Q == {j \in P : j <= i}
             M == [j \in Q |-> q(j)]
  <2>1. IsFiniteSet(Q)
    BY FS_Subset
  <2>2. \A j \in Q : q(j) \in 1..q(i)
    <3>1. TAKE j \in Q
    <3>2. j \in P /\ j \in Nat /\ i \in Nat /\ (j = i \/ j < i)
      BY <3>1
    <3>3. q(j) \in Nat /\ q(j) >= 1 /\ q(i) \in Nat
      BY <3>2
    <3>4. q(j) <= q(i)
      BY <3>2, <3>3
    <3> HIDE DEF q
    <3> QED
      BY <3>3, <3>4
  <2>3. \A k \in 1..q(i) : \E j \in Q : q(j) = k
    <3>1. SUFFICES ASSUME NEW k \in 1..q(i) PROVE \E j \in Q : q(j) = k
      OBVIOUS
    <3>2. q(i) \in Nat /\ i \in Nat
      OBVIOUS
    <3>3. CASE k = q(i)
      <4>1. i \in Q
        BY <3>2
      <4> QED
        BY <3>3, <4>1
    <3>4. CASE k # q(i)
      <4>1. k \in 1..(q(i) - 1)
        BY <3>2, <3>4
      <4>2. PICK j \in P : q(j) = k
        BY <4>1
      <4>3. ~(i < j)
        <5>1. i < j => q(i) < q(j)
          OBVIOUS
        <5> HIDE DEF q
        <5> QED
          BY <3>2, <4>1, <4>2, <5>1
      <4>4. j <= i
        BY <3>2, <4>3
      <4> QED
        BY <4>2, <4>4
    <3> QED
      BY <3>3, <3>4
  <2>4. M \in Bijection(Q, 1..q(i))
    <3>1. M \in [Q -> 1..q(i)]
      BY <2>2
    <3>2. \A a, b \in Q : M[a] = M[b] => a = b
      BY <1>1
    <3>3. \A t \in 1..q(i) : \E a \in Q : M[a] = t
      BY <2>3
    <3> HIDE DEF M, Q, q
    <3> QED
      BY <3>1, <3>2, <3>3, Fun_IsBij
  <2>5. Cardinality(1..q(i)) = Cardinality(Q)
    <3>1. ExistsBijection(Q, 1..q(i))
      BY <2>4 DEF ExistsBijection
    <3> HIDE DEF Q, q
    <3> QED
      BY <2>1, <3>1, FS_Bijection
  <2>6. q(i) \in Nat /\ q(i) >= 1
    OBVIOUS
  <2> HIDE DEF q
  <2>7. Cardinality(1..q(i)) = q(i)
    BY <2>6, FS_Interval
  <2> QED
    BY <2>5, <2>7
<1>3. IsFiniteSet(R) /\ Cardinality(R) = n /\ n \in Nat
  <2> DEFINE M == [i \in P |-> q(i)]
  <2>1. M \in Bijection(P, R)
    <3>1. M \in [P -> R]
      OBVIOUS
    <3>2. \A a, b \in P : M[a] = M[b] => a = b
      BY <1>1
    <3>3. \A t \in R : \E a \in P : M[a] = t
      OBVIOUS
    <3> HIDE DEF M, R, q
    <3> QED
      BY <3>1, <3>2, <3>3, Fun_IsBij
  <2>2. ExistsBijection(P, R)
    BY <2>1 DEF ExistsBijection
  <2> HIDE DEF R
  <2> QED
    BY <2>2, FS_Bijection, FS_CardinalityType
<1>4. \A x \in R : x \in Nat /\ x >= 1 /\ \A k \in 1..(x - 1) : k \in R
  OBVIOUS
<1>5. \A x : x \in R <=> \E i \in P : s[i].seq = x
  OBVIOUS
<1> HIDE DEF R, n
<1>6. ASSUME NEW x \in R PROVE x \in 1..n
  <2>1. 1..x \subseteq R
    <3>1. \A k \in 1..x : k \in 1..(x - 1) \/ k = x
      BY <1>4
    <3> QED
      BY <1>4, <3>1
  <2>2. Cardinality(1..x) <= n
    BY <1>3, <2>1, FS_Subset
  <2>3. Cardinality(1..x) = x
    BY <1>4, FS_Interval
  <2> QED
    BY <1>3, <1>4, <2>2, <2>3
<1>7. R = 1..n
  <2>1. IsFiniteSet(1..n) /\ Cardinality(1..n) = n
    BY <1>3, FS_Interval
  <2>2. R \subseteq 1..n
    BY <1>6
  <2> QED
    BY <1>3, <2>1, <2>2, FS_Subset
<1>8. ASSUME NEW k \in 1..n PROVE s[Ranked(P)[k]].seq = k
  <2>1. PICK i \in P : s[i].seq = k
    BY <1>5, <1>7
  <2>2. \E x \in P : Rank(P, x) = k
    BY <1>2, <2>1 DEF Rank
  <2> DEFINE p == CHOOSE x \in P : Rank(P, x) = k
  <2>3. p \in P /\ Cardinality({j \in P : j <= p}) = k
    BY <2>2 DEF Rank
  <2>4. Ranked(P)[k] = p
    BY DEF Ranked, n
  <2> HIDE DEF p
  <2>5. s[p].seq = k
    BY <1>2, <2>3
  <2> QED
    BY <2>4, <2>5
<1>9. SeqsAt(s, P) = Counting(n)
  BY <1>8 DEF SeqsAt, Counting, n
<1> QED
  BY <1>3, <1>5, <1>7, <1>9 DEF n

SentAt(l) == {i \in 1..Len(l) : IsOut(l[i]) /\ Open(l, i)}
HeldAt(g) == {i \in 1..Len(g) : IsOut(g[i])}
Total(l) == Cardinality(SentAt(l))
Arrived(g) == Cardinality(HeldAt(g))

\* The outputs of a stream in order are 1, 2, ... up to their number.
LEMMA WrittenCounts ==
  ASSUME NEW l \in Seq(Entries), NEW s \in Nat, NEW m, LogStands(l, s, m)
  PROVE  /\ Total(l) \in Nat /\ SeqsAt(l, SentAt(l)) = Counting(Total(l))
         /\ \A n : Sent(l, n) <=> n \in 1..Total(l)
<1> DEFINE P == SentAt(l)
<1>1. P \subseteq 1..Len(l) /\ Len(l) \in Nat /\ P \subseteq Nat
  BY DEF SentAt
<1>2. IsFiniteSet(P)
  <2>1. IsFiniteSet(1..Len(l))
    BY <1>1, FS_Interval
  <2> HIDE DEF P
  <2> QED
    BY <1>1, <2>1, FS_Subset
<1>3. \A i \in P : l[i].seq \in Nat /\ l[i].seq >= 1
  BY DEF LogStands, SentAt
<1>4. \A i, j \in P : i < j => l[i].seq < l[j].seq
  BY DEF LogStands, SentAt, Rising
<1>5. ASSUME NEW i \in P, NEW k \in 1..(l[i].seq - 1) PROVE \E j \in P : l[j].seq = k
  <2>1. i \in 1..Len(l) /\ IsOut(l[i]) /\ Open(l, i)
    BY DEF SentAt
  <2>2. PICK j \in 1..(i - 1) : IsOut(l[j]) /\ l[j].seq = k
    BY <2>1 DEF LogStands, Among
  <2>3. j \in 1..Len(l) /\ \A x \in 1..j : x \in 1..i
    BY <1>1, <2>1
  <2>4. Open(l, j)
    BY <2>1, <2>3 DEF Open
  <2> QED
    BY <2>2, <2>3, <2>4 DEF SentAt
<1>6. \A n : Sent(l, n) <=> \E i \in P : l[i].seq = n
  BY DEF Sent, SentAt
<1> HIDE DEF P
<1>7. /\ Cardinality(P) \in Nat /\ SeqsAt(l, P) = Counting(Cardinality(P))
      /\ \A n : (\E i \in P : l[i].seq = n) <=> n \in 1..Cardinality(P)
  BY <1>1, <1>2, <1>3, <1>4, <1>5, Numbered
<1> QED
  BY <1>6, <1>7 DEF Total, P

(* What was received is counted up to the cursor's place, as what is written. *)
LEMMA ReceivedCounts ==
  ASSUME NEW l \in Seq(Entries), NEW s \in Nat, NEW m, LogStands(l, s, m),
         NEW g \in Seq(Frames), NEW c \in Nat,
         CursorStands(c, l, g, s, m), GotStands(g, l)
  PROVE  /\ Arrived(g) \in Nat /\ SeqsAt(g, HeldAt(g)) = Counting(Arrived(g))
         /\ \A n : Has(g, n) <=> n \in 1..Arrived(g)
         /\ Arrived(g) <= Total(l)
<1> DEFINE P == HeldAt(g)
<1>0. Total(l) \in Nat /\ \A n : Sent(l, n) <=> n \in 1..Total(l)
  BY WrittenCounts
<1>1. P \subseteq 1..Len(g) /\ Len(g) \in Nat /\ P \subseteq Nat
  BY DEF HeldAt
<1>2. IsFiniteSet(P)
  <2>1. IsFiniteSet(1..Len(g))
    BY <1>1, FS_Interval
  <2> HIDE DEF P
  <2> QED
    BY <1>1, <2>1, FS_Subset
<1>3. \A n : Has(g, n) <=> \E i \in P : g[i].seq = n
  BY DEF Has, Among, HeldAt
<1>4. \A i \in P : g[i].seq \in Nat
  <2>1. \A i \in P : g[i] \in Frames
    BY DEF HeldAt
  <2> QED
    BY <2>1 DEF Frames
<1>5. \A i \in P : g[i].seq \in 1..Total(l) /\ g[i].seq < c
  BY <1>0, <1>3, <1>4 DEF GotStands, CursorStands
<1>6. \A i, j \in P : i < j => g[i].seq < g[j].seq
  BY DEF GotStands, HeldAt, Rising
<1>7. ASSUME NEW i \in P, NEW k \in 1..(g[i].seq - 1) PROVE \E j \in P : g[j].seq = k
  <2>1. k \in Nat /\ k \in 1..Total(l) /\ k < c
    BY <1>0, <1>5
  <2>2. Has(g, k)
    BY <1>0, <2>1 DEF CursorStands
  <2> QED
    BY <1>3, <2>2
<1> HIDE DEF P
<1>8. \A i \in P : g[i].seq \in Nat /\ g[i].seq >= 1
  BY <1>5
<1>9. /\ Cardinality(P) \in Nat /\ SeqsAt(g, P) = Counting(Cardinality(P))
      /\ \A n : (\E i \in P : g[i].seq = n) <=> n \in 1..Cardinality(P)
  BY <1>1, <1>2, <1>6, <1>7, <1>8, Numbered
<1>10. Cardinality(P) <= Total(l)
  <2>1. CASE Cardinality(P) = 0
    BY <1>0, <2>1
  <2>2. CASE Cardinality(P) # 0
    <3>1. Cardinality(P) \in 1..Cardinality(P)
      BY <1>9, <2>2
    <3>2. PICK i \in P : g[i].seq = Cardinality(P)
      BY <1>9, <3>1
    <3> QED
      BY <1>0, <1>5, <3>2
  <2> QED
    BY <2>1, <2>2
<1> QED
  BY <1>3, <1>9, <1>10 DEF Arrived, P

(* The module takes at most MaxOut seqs, and one more to report a failure. *)
SeqBounded == seq <= MaxOut + 1 /\ (module # "over" => seq <= MaxOut)

(* It begins so, and every step keeps it. *)
LEMMA SeqBoundedInit == Init => SeqBounded
BY ConstantsOK DEF Init, SeqBounded

\* Every step keeps it: past the bound a module is over.
LEMMA SeqBoundedStep == OnceInv /\ SeqBounded /\ [Next]_vars => SeqBounded'
<1> SUFFICES ASSUME OnceInv, SeqBounded, [Next]_vars PROVE SeqBounded'
  OBVIOUS
<1>0. seq \in Nat /\ MaxOut \in Nat
  BY ConstantsOK DEF OnceInv, TypeOK
<1>1. CASE UNCHANGED vars \/ \E r \in Requests : Handler(r) \/ CancelStart(r)
  <2>1. UNCHANGED <<seq, module>>
    BY <1>1 DEF vars, Handler, CancelStart, StartStream, ClaimTask, ClaimRefused, Seed, SeedRaises,
       Release, Unregister, OtherThanStart
  <2> QED
    BY <2>1 DEF SeqBounded
<1>2. ASSUME NEW r \in Requests, Dial(r) PROVE SeqBounded'
  <2>1. seq' = seq
    BY <1>2 DEF Dial, Connect, CannotDial, FirstReply, ResumeReply, Read, Drained,
       ReadRaises, IdleTimeout, WriteEos, HangUp, BreakDown, Redial, Receive, OtherThanDial
  <2>2. module' = module \/ module = "none"
    <3>1. UNCHANGED <<runs, module>> \/ Unheard(dial[r])
      BY <1>2, DialStep DEF OnceInv
    <3> QED
      BY <3>1 DEF OnceInv, RunsCounted
  <2> QED
    BY <2>1, <2>2 DEF SeqBounded
<1>3. CASE Module
  <2>1. CASE Prepared \/ RunnerFails \/ Raises \/ Stop
    <3>1. seq' = seq /\ module # "over"
      BY <2>1 DEF Prepared, RunnerFails, Raises, Stop, Becomes
    <3> QED
      BY <1>0, <3>1 DEF SeqBounded
  <2>2. CASE Output
    <3>1. seq' = seq + 1 /\ seq < MaxOut
      BY <2>2 DEF Output
    <3> QED
      BY <1>0, <3>1 DEF SeqBounded
  <2>3. CASE ReportFailure
    <3>1. seq' = seq + 1 /\ module' = "over" /\ module = "failed"
      BY <2>3 DEF ReportFailure, Becomes
    <3> QED
      BY <1>0, <3>1 DEF SeqBounded
  <2> QED
    BY <1>3, <2>1, <2>2, <2>3 DEF Module
<1> QED
  BY <1>1, <1>2, <1>3 DEF Next

(* A step writes to the stream, or hands a frame to the consumer. *)
LEMMA WritesOrHands ==
  ASSUME Reliable, FullInv, Next
  PROVE  \/ got' = got /\ Grown(log, log', seq, module)
         \/ log' = log /\ \E f \in Frames : got' = Append(got, f)
<1> USE DEF FullInv
<1>0. /\ log \in Seq(Entries) /\ seq \in Nat /\ LogStands(log, seq, module)
      /\ module \in {"none", "starting"} => seq = 0
  BY DEF DeliverInv, LogStands, OnceInv, TypeOK
<1>1. CASE Module
  <2>1. got' = got
    BY <1>1 DEF Module, Prepared, RunnerFails, Output, Raises, ReportFailure, Stop,
       OtherThanModule
  <2> QED
    BY <1>1, <2>1, ModuleWrites
<1>2. ASSUME NEW r \in Requests, Handler(r) \/ CancelStart(r)
      PROVE  got' = got /\ Grown(log, log', seq, module)
  <2>1. got' = got
    BY <1>2 DEF Handler, CancelStart, StartStream, ClaimTask, ClaimRefused, Seed,
       SeedRaises, Release, Unregister, OtherThanStart
  <2>2. log' = log \/ log' = Append(log, Entry("start", 0))
    BY <1>2 DEF Handler, CancelStart, StartStream, ClaimTask, ClaimRefused, Seed,
       SeedRaises, Release, Unregister, Quiet, Append1, AppendRaises, Reliable
  <2>3. Entry("start", 0) \in Entries /\ ~IsOut(Entry("start", 0))
    BY EntryType DEF Entry, IsOut
  <2> QED
    BY <1>0, <2>1, <2>2, <2>3, GrownNot, GrownByOne
<1>3. ASSUME NEW r \in Requests, Dial(r), ~Receive(r)
      PROVE  got' = got /\ Grown(log, log', seq, module)
  <2>1. got' = got
    BY <1>3 DEF Dial, Connect, CannotDial, FirstReply, ResumeReply, Read, Drained,
       ReadRaises, IdleTimeout, WriteEos, HangUp, BreakDown, Redial, ConsumerIdle
  <2>2. \/ log' = log \/ Quiet \/ EmitFatal
        \/ Append1(Error) \/ AppendRaises(Error)
        \/ Append1(Eos) \/ AppendRaises(Eos)
    BY <1>3 DEF Dial, Connect, CannotDial, FirstReply, ResumeReply, Read, Drained,
       ReadRaises, IdleTimeout, WriteEos, HangUp, BreakDown, Redial, Fail
  <2>3. Marked(log, log')
    <3>1. CASE log' = log
      BY <3>1 DEF Marked
    <3> QED
      BY <1>0, <2>2, <3>1, MarkedIs
  <2> QED
    BY <1>0, <2>1, <2>3, MarkedStands
<1>4. ASSUME NEW r \in Requests, Receive(r)
      PROVE  log' = log /\ \E f \in Frames : got' = Append(got, f)
  <2>1. /\ log' = log /\ dial[r].wire # <<>>
        /\ got' = Append(got, Head(dial[r].wire))
    BY <1>4 DEF Receive, Quiet
  <2>2. dial[r].wire \in Seq(Frames)
    BY DEF OnceInv, TypeOK, Dials
  <2>3. Head(dial[r].wire) \in Frames
    BY <2>1, <2>2
  <2> QED
    BY <2>1, <2>3
<1> QED
  BY <1>1, <1>2, <1>3, <1>4 DEF Next

(* What the invariant says of the two sequences. *)
LEMMA FullCounts ==
  ASSUME FullInv
  PROVE  /\ SeqsAt(log, WrittenAt) = Counting(Total(log))
         /\ SeqsAt(got, ReceivedAt) = Counting(Arrived(got))
         /\ Total(log) \in Nat /\ Arrived(got) \in Nat /\ Arrived(got) <= Total(log)
         /\ \A n : Sent(log, n) <=> n \in 1..Total(log)
         /\ \A n : Has(got, n) <=> n \in 1..Arrived(got)
         /\ Total(log) <= seq
<1>1. /\ LogStands(log, seq, module) /\ CursorStands(cursor, log, got, seq, module)
      /\ GotStands(got, log)
  BY DEF FullInv, DeliverInv
<1>2. log \in Seq(Entries) /\ got \in Seq(Frames) /\ cursor \in Nat /\ seq \in Nat
  BY DEF FullInv, OnceInv, TypeOK
<1>3. WrittenAt = SentAt(log) /\ ReceivedAt = HeldAt(got)
  BY DEF WrittenAt, SentAt, ReceivedAt, HeldAt, Readable, Open
<1>4. /\ Total(log) \in Nat /\ SeqsAt(log, SentAt(log)) = Counting(Total(log))
      /\ \A n : Sent(log, n) <=> n \in 1..Total(log)
  BY <1>1, <1>2, WrittenCounts
<1>5. /\ Arrived(got) \in Nat /\ SeqsAt(got, HeldAt(got)) = Counting(Arrived(got))
      /\ \A n : Has(got, n) <=> n \in 1..Arrived(got)
      /\ Arrived(got) <= Total(log)
  BY <1>1, <1>2, ReceivedCounts
<1>6. Total(log) <= seq
  <2>1. CASE Total(log) = 0
    BY <1>2, <2>1
  <2>2. CASE Total(log) # 0
    <3>1. Sent(log, Total(log))
      BY <1>4, <2>2
    <3>2. Total(log) \in 1..seq
      BY <1>1, <1>2, <3>1, SentCounted
    <3> QED
      BY <1>2, <3>2
  <2> QED
    BY <2>1, <2>2
<1> QED
  BY <1>3, <1>4, <1>5, <1>6

(* A received stream.end lies behind every output of the stream. *)
LEMMA FullIsComplete == FullInv => EndIsComplete
<1> SUFFICES ASSUME FullInv, NEW i \in 1..Len(got), got[i].kind = "end", got[i].label > 0
             PROVE  SeqsAt(got, ReceivedAt) = SeqsAt(log, WrittenAt)
  BY DEF EndIsComplete
<1>1. \A n \in Nat : Sent(log, n) => Has(got, n)
  BY DEF FullInv, DeliverInv, GotStands
<1>2. Total(log) <= Arrived(got)
  <2>1. CASE Total(log) = 0
    BY <2>1, FullCounts
  <2>2. CASE Total(log) # 0
    <3>1. Total(log) \in Nat /\ Sent(log, Total(log))
      BY <2>2, FullCounts
    <3>2. Total(log) \in 1..Arrived(got)
      BY <1>1, <3>1, FullCounts
    <3> QED
      BY <3>2, FullCounts
  <2> QED
    BY <2>1, <2>2
<1>3. Total(log) = Arrived(got)
  BY <1>2, FullCounts
<1> QED
  BY <1>3, FullCounts

(* While Redis applies what it answers for and loses no output: whoever    *)
(* has stream.end has every output, over any number of broken connections  *)
(* and re-dials.                                                           *)
THEOREM NothingLost ==
  ASSUME Reliable
  PROVE  Spec => []EndIsComplete
<1>1. Init => FullInv
  BY OnceInit, DeliverInit DEF FullInv
<1>2. FullInv /\ [Next]_vars => FullInv'
  BY DeliverStep
<1> QED
  BY <1>1, <1>2, FullIsComplete, PTL DEF Spec

(* A step of the gateway is a write of the next output, the delivery of the *)
(* next undelivered one, or neither.                                        *)
LEMMA DeliveryStep ==
  ASSUME Reliable, FullInv, FullInv', SeqBounded', Next
  PROVE  [Delivery!Next]_(Delivery!vars)
<1> DEFINE T == Total(log)
           U == Total(log')
           A == Arrived(got)
           B == Arrived(got')
           written == SeqsAt(log, WrittenAt)
           delivered == SeqsAt(got, ReceivedAt)
<1>1. /\ written = Counting(T) /\ delivered = Counting(A)
      /\ T \in Nat /\ A \in Nat /\ A <= T
      /\ \A n : Sent(log, n) <=> n \in 1..T
      /\ \A n : Has(got, n) <=> n \in 1..A
  BY FullCounts
<1>2. /\ written' = Counting(U) /\ delivered' = Counting(B)
      /\ U \in Nat /\ B \in Nat /\ B <= U /\ U <= seq'
      /\ \A n : Sent(log', n) <=> n \in 1..U
      /\ \A n : Has(got', n) <=> n \in 1..B
  <2>1. /\ LogStands(log', seq', module') /\ GotStands(got', log')
        /\ CursorStands(cursor', log', got', seq', module')
    BY DEF FullInv, DeliverInv
  <2>2. log' \in Seq(Entries) /\ got' \in Seq(Frames) /\ cursor' \in Nat /\ seq' \in Nat
    BY DEF FullInv, OnceInv, TypeOK
  <2>3. WrittenAt' = SentAt(log') /\ ReceivedAt' = HeldAt(got')
    BY DEF WrittenAt, SentAt, ReceivedAt, HeldAt, Readable, Open
  <2>4. written' = SeqsAt(log', SentAt(log')) /\ delivered' = SeqsAt(got', HeldAt(got'))
    BY <2>3
  <2>5. /\ U \in Nat /\ SeqsAt(log', SentAt(log')) = Counting(U)
        /\ \A n : Sent(log', n) <=> n \in 1..U
    BY <2>1, <2>2, WrittenCounts
  <2>6. /\ B \in Nat /\ SeqsAt(got', HeldAt(got')) = Counting(B)
        /\ \A n : Has(got', n) <=> n \in 1..B
        /\ B <= U
    BY <2>1, <2>2, ReceivedCounts
  <2>7. U <= seq'
    <3>1. U # 0 => Sent(log', U)
      BY <2>5
    <3>2. U # 0 => U \in 1..seq'
      BY <2>1, <2>2, <3>1, SentCounted
    <3> QED
      BY <2>2, <2>5, <3>2
  <2> QED
    BY <2>4, <2>5, <2>6, <2>7
<1>3. U <= MaxOut + 1
  BY <1>2, ConstantsOK DEF SeqBounded, FullInv, OnceInv, TypeOK
<1> HIDE DEF T, U, A, B, written, delivered
<1>4. CASE got' = got /\ Grown(log, log', seq, module)
  <2>1. B = A
    BY <1>4 DEF A, B
  <2>2. /\ \A n : n \in 1..T => n \in 1..U
        /\ \A n : n \in 1..U => n \in 1..T \/ n = seq + 1
    BY <1>1, <1>2, <1>4, GrownSent
  <2>3. U = T \/ U = T + 1
    <3>1. T <= U
      <4>1. T \in 1..T => T \in 1..U
        BY <2>2
      <4> QED
        BY <1>1, <1>2, <4>1
    <3>2. ~(U >= T + 2)
      <4>1. SUFFICES ASSUME U >= T + 2 PROVE FALSE
        OBVIOUS
      <4>2. T + 1 \in 1..U /\ T + 2 \in 1..U /\ T + 1 \notin 1..T /\ T + 2 \notin 1..T
        BY <1>1, <1>2, <4>1
      <4>3. T + 1 = seq + 1 /\ T + 2 = seq + 1
        BY <2>2, <4>2
      <4> QED
        BY <1>1, <4>3
    <3> QED
      BY <1>1, <1>2, <3>1, <3>2
  <2>4. CASE U = T
    BY <1>1, <1>2, <2>1, <2>4 DEF Delivery!vars, written, delivered
  <2>5. CASE U = T + 1
    <3>1. written' = Append(written, T + 1) /\ delivered' = delivered
      BY <1>1, <1>2, <2>1, <2>5, CountUp
    <3>2. T + 1 \in 1..(MaxOut + 1)
      BY <1>1, <1>3, <2>5, ConstantsOK
    <3> QED
      BY <3>1, <3>2 DEF Delivery!Next, Delivery!Write, written, delivered
  <2> QED
    BY <2>3, <2>4, <2>5
<1>5. CASE log' = log /\ \E f \in Frames : got' = Append(got, f)
  <2>1. U = T
    BY <1>5 DEF T, U
  <2>2. PICK f \in Frames : got' = Append(got, f)
    BY <1>5
  <2>3. \A n : n \in 1..B <=> n \in 1..A \/ (IsOut(f) /\ f.seq = n)
    <3>1. got \in Seq(Frames)
      BY DEF FullInv, OnceInv, TypeOK
    <3> QED
      BY <1>1, <1>2, <2>2, <3>1, AmongAppend
  <2>4. B = A \/ B = A + 1
    <3>1. A <= B
      <4>1. A \in 1..A => A \in 1..B
        BY <2>3
      <4> QED
        BY <1>1, <1>2, <4>1
    <3>2. ~(B >= A + 2)
      <4>1. SUFFICES ASSUME B >= A + 2 PROVE FALSE
        OBVIOUS
      <4>2. A + 1 \in 1..B /\ A + 2 \in 1..B /\ A + 1 \notin 1..A /\ A + 2 \notin 1..A
        BY <1>1, <1>2, <4>1
      <4>3. f.seq = A + 1 /\ f.seq = A + 2
        BY <2>3, <4>2
      <4> QED
        BY <1>1, <4>3
    <3> QED
      BY <1>1, <1>2, <3>1, <3>2
  <2>5. CASE B = A
    BY <1>1, <1>2, <2>1, <2>5 DEF Delivery!vars, written, delivered
  <2>6. CASE B = A + 1
    <3>1. /\ delivered' = Append(delivered, A + 1) /\ written' = written
          /\ Len(delivered) = A /\ Len(written) = T
      BY <1>1, <1>2, <2>1, <2>6, CountUp
    <3>2. A < T /\ A + 1 \in 1..T
      BY <1>1, <1>2, <2>1, <2>6
    <3>3. written[A + 1] = A + 1
      BY <1>1, <3>2, CountUp
    <3> QED
      BY <3>1, <3>2, <3>3 DEF Delivery!Next, Delivery!Deliver, written, delivered
  <2> QED
    BY <2>4, <2>5, <2>6
<1> QED
  BY <1>4, <1>5, WritesOrHands

(* Nothing written, nothing delivered: how OrderedDelivery begins. *)
LEMMA DeliveryInit == Init => Delivery!Init
<1> SUFFICES ASSUME Init PROVE Delivery!Init
  OBVIOUS
<1>1. FullInv
  BY OnceInit, DeliverInit DEF FullInv
<1>2. log = <<>> /\ Len(<<>>) = 0
  BY DEF Init
<1>3. \A n : ~Sent(log, n)
  BY <1>2 DEF Sent
<1>4. Total(log) = 0 /\ Arrived(got) = 0
  <2>1. Total(log) \in Nat /\ (Total(log) # 0 => Total(log) \in 1..Total(log))
    BY <1>1, FullCounts
  <2>2. Total(log) = 0
    BY <1>1, <1>3, <2>1, FullCounts
  <2> QED
    BY <1>1, <2>2, FullCounts
<1>5. SeqsAt(log, WrittenAt) = Counting(0) /\ SeqsAt(got, ReceivedAt) = Counting(0)
  BY <1>1, <1>4, FullCounts
<1> QED
  BY <1>5, CountUp DEF Delivery!Init

(* Under the same assumption, the gateway implements ordered delivery:      *)
(* however often the connection breaks and the dial resumes, the consumer   *)
(* receives the outputs each once, none missing, in the order of writing.   *)
THEOREM GatewayImplementsDelivery ==
  ASSUME Reliable
  PROVE  Spec => ImplementsDelivery
<1>1. Init => FullInv /\ SeqBounded
  BY OnceInit, DeliverInit, SeqBoundedInit DEF FullInv
<1>2. FullInv /\ SeqBounded /\ [Next]_vars => FullInv' /\ SeqBounded'
  BY DeliverStep, SeqBoundedStep DEF FullInv
<1>3. FullInv /\ FullInv' /\ SeqBounded' /\ [Next]_vars => [Delivery!Next]_(Delivery!vars)
  <2> SUFFICES ASSUME FullInv, FullInv', SeqBounded', [Next]_vars
               PROVE  [Delivery!Next]_(Delivery!vars)
    OBVIOUS
  <2>1. CASE UNCHANGED vars
    BY <2>1 DEF vars, Delivery!vars, SeqsAt, WrittenAt, ReceivedAt, Readable
  <2>2. CASE Next
    BY <2>2, DeliveryStep
  <2> QED
    BY <2>1, <2>2
<1> QED
  BY <1>1, <1>2, <1>3, DeliveryInit, PTL DEF Spec, Delivery!Spec, ImplementsDelivery
=============================================================================
