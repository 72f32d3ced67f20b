------------------------- MODULE TaskManager_proofs -------------------------
(* Proofs about TaskManager, for every value of its constants. *)
EXTENDS TaskManager, TLAPS, FiniteSetTheorems

----------------------------------------------------------------------------
(* Type correctness                                                        *)

AdmissionTyped ==
  /\ slot \in Int /\ active \in Int /\ gate \in Int /\ waiting \in Int
  /\ pc \in [Calls -> {"idle", "gate", "slot", "in", "refused"}]

TableTyped ==
  /\ sessions \in [Keys -> Owners \cup {NoOne}]
  /\ tasks \in [Keys -> Calls \cup {NoOne}]
  /\ cleaner \in [Owners -> Agents \cup {NoOne}]

RunTyped ==
  /\ run \in [Calls -> {"none", "created", "running", "acking", "draining",
                        "cleaning", "done"}]
  /\ cancelReq \in [Calls -> BOOLEAN]
  /\ aborted \in [Calls -> BOOLEAN]
  /\ refs \in [Ids -> Calls \cup {NoOne}]

SessTyped ==
  sess \in [Calls -> [status : Statuses, reason : Reasons,
                      pending : Actions \cup {""},
                      acked : {"", "ack_cancel", "ack_stop"}, heard : BOOLEAN]]

OpRecords ==
  [pc : {"idle", "start", "signal", "wait", "forced", "sweep", "cleaning", "done"},
   key : Keys \cup {NoOne}, call : Calls \cup {NoOne}, ok : BOOLEAN]

OpTyped ==
  op \in [Ops -> [pc : {"idle", "start", "signal", "wait", "forced", "sweep",
                        "cleaning", "done"},
                  key : Keys \cup {NoOne}, call : Calls \cup {NoOne}, ok : BOOLEAN]]

PhaseTyped ==
  /\ sd \in {"idle", "cancelling", "sweeping", "done"}
  /\ conf \in [ConfigJobs -> {"new", "live", "answered", "evicted"}]

SignalsTyped ==
  /\ wire \subseteq [key : Ids, action : Actions]
  /\ budget \in 0 .. MaxSignals

\* TypeOK, in the parts that the steps disturb one at a time.
LEMMA TypeParts ==
  TypeOK <=> /\ AdmissionTyped /\ TableTyped /\ RunTyped /\ SessTyped
             /\ OpTyped /\ PhaseTyped /\ SignalsTyped
BY DEF TypeOK, AdmissionTyped, TableTyped, RunTyped, SessTyped, OpTyped,
       PhaseTyped, SignalsTyped

(* What TypeOK needs to be inductive: only calls have an asyncio task, and *)
(* an operation that publishes or waits knows the id and the call.         *)
OnlyCallsRun == \A k \in ConfigJobs : tasks[k] = NoOne

OpsKnowTheirTask ==
  /\ \A o \in Ops : op[o].pc \in {"signal", "wait", "forced"} =>
                      op[o].key \in Ids /\ op[o].call \in Calls
  /\ \A k \in ConfigJobs : op[k].pc # "start"

TypeInv ==
  /\ AdmissionTyped /\ TableTyped /\ RunTyped /\ SessTyped /\ OpTyped
  /\ PhaseTyped /\ SignalsTyped
  /\ OnlyCallsRun /\ OpsKnowTheirTask

\* The limits are numbers, and one task may run.
LEMMA Bounds ==
  MaxConc \in Nat /\ MaxConc > 0 /\ MaxQueued \in Nat /\ MaxSignals \in Nat
BY ConstantsOK DEF ConstantsOK

\* At the start every variable has its type.
LEMMA TypeInit == Init => TypeInv
<1> SUFFICES ASSUME Init PROVE TypeInv
  OBVIOUS
<1>a. /\ slot = MaxConc /\ active = 0 /\ gate = MaxConc + MaxQueued /\ waiting = 0
      /\ pc = [c \in Calls |-> "idle"]
      /\ sd = "idle" /\ conf = [k \in ConfigJobs |-> "new"]
      /\ wire = {} /\ budget = MaxSignals
  BY DEF Init
<1>1. AdmissionTyped
  BY <1>a, Bounds DEF AdmissionTyped
<1>6. SignalsTyped /\ PhaseTyped
  BY <1>a, Bounds DEF SignalsTyped, PhaseTyped
<1> USE DEF Init, Owners, Keys, Ops, Agents
<1>2. TableTyped /\ OnlyCallsRun
  BY DEF TableTyped, OnlyCallsRun
<1>3. RunTyped
  BY DEF RunTyped
<1>4. SessTyped
  BY DEF SessTyped, Statuses, Reasons
<1>5. OpTyped /\ OpsKnowTheirTask
  BY DEF OpTyped, OpsKnowTheirTask
<1> QED
  BY <1>1, <1>2, <1>3, <1>4, <1>5, <1>6 DEF TypeInv

(* The names of the constants are kept apart. *)
LEMMA Names ==
  /\ \A c \in Calls : /\ Id[c] \in Ids /\ Id[c] \in Keys /\ Id[c] \notin ConfigJobs
                      /\ c \in Owners /\ c \in Agents /\ c \notin ConfigJobs /\ c # NoOne
  /\ \A o \in Ops : o \in Agents /\ o \notin Calls /\ o # NoOne
  /\ \A i \in Ids : i \in Keys /\ i \in Ops /\ i \notin ConfigJobs
  /\ \A k \in ConfigJobs : k \in Keys /\ k \in Owners /\ k \in Ops /\ k # NoOne
  /\ \A k \in Keys : k \in Ops
  /\ Keys = Ids \cup ConfigJobs
  /\ Owners = Calls \cup ConfigJobs
  /\ \A o \in Cancellers : o \in Ops
BY ConstantsOK DEF ConstantsOK, Owners, Keys, Ops, Agents

(* Steps of the pieces: popping a session keeps the tables typed.          *)
LEMMA EvictTyped ==
  ASSUME TableTyped, OnlyCallsRun, NEW k \in Keys, NEW a \in Agents, Evict(k, a)
  PROVE  TableTyped' /\ OnlyCallsRun'
BY Names DEF TableTyped, OnlyCallsRun, Evict

\* A cleanup that comes back returns one admission.
LEMMA FinishTyped ==
  ASSUME TypeInv, NEW a \in Agents, FinishCleanup(a)
  PROVE  AdmissionTyped' /\ TableTyped' /\ OnlyCallsRun' /\ conf' \in [ConfigJobs -> {"new", "live", "answered", "evicted"}]
BY Names DEF TypeInv, AdmissionTyped, TableTyped, OnlyCallsRun, FinishCleanup, ReturnAdmission,
       PhaseTyped

\* A task that is over leaves the listener.
LEMMA OverTyped ==
  ASSUME RunTyped, NEW c \in Calls, Over(c)
  PROVE  /\ run' \in [Calls -> {"none", "created", "running", "acking", "draining",
                                "cleaning", "done"}]
         /\ refs' \in [Ids -> Calls \cup {NoOne}]
BY DEF RunTyped, Over

\* The finally of a task keeps the types, whatever it finds in the table.
LEMMA FinallyTyped ==
  ASSUME RunTyped, TableTyped, OnlyCallsRun, NEW c \in Calls, Finally(c) \/ Finalize(c)
  PROVE  /\ run' \in [Calls -> {"none", "created", "running", "acking", "draining",
                                "cleaning", "done"}]
         /\ refs' \in [Ids -> Calls \cup {NoOne}]
         /\ TableTyped' /\ OnlyCallsRun'
<1>1. CASE Finalize(c)
  BY <1>1, Names, EvictTyped, OverTyped DEF Finalize, RunTyped
<1>2. CASE Finally(c)
  <2>1. CASE DrainYields
    BY <1>2, <2>1 DEF Finally, RunTyped, TableTyped, OnlyCallsRun, table
  <2> QED
    BY <1>1, <1>2, <2>1 DEF Finally
<1> QED
  BY <1>1, <1>2

(* A session whose status or reason changes stays a session.               *)
LEMMA SessUpdateTyped ==
  ASSUME SessTyped, NEW c \in Calls, NEW st \in Statuses, NEW why \in Reasons,
         sess' = [sess EXCEPT ![c].status = st, ![c].reason = why]
  PROVE  SessTyped'
<1>1. sess' = [sess EXCEPT ![c] = [sess[c] EXCEPT !.status = st, !.reason = why]]
  OBVIOUS
<1>2. sess[c] \in [status : Statuses, reason : Reasons, pending : Actions \cup {""},
                  acked : {"", "ack_cancel", "ack_stop"}, heard : BOOLEAN]
  BY DEF SessTyped
<1>3. [sess[c] EXCEPT !.status = st, !.reason = why] \in
        [status : Statuses, reason : Reasons, pending : Actions \cup {""},
         acked : {"", "ack_cancel", "ack_stop"}, heard : BOOLEAN]
  BY <1>2
<1> QED
  BY <1>1, <1>3 DEF SessTyped

\* A session stays one when its acknowledgement is written,
LEMMA SessAckTyped ==
  ASSUME SessTyped, NEW c \in Calls, NEW e \in {"ack_cancel", "ack_stop"},
         sess' = [sess EXCEPT ![c].acked = e]
  PROVE  SessTyped'
BY DEF SessTyped

\* when it registers with the listener,
LEMMA SessHeardTyped ==
  ASSUME SessTyped, NEW c \in Calls, sess' = [sess EXCEPT ![c].heard = TRUE]
  PROVE  SessTyped'
BY DEF SessTyped

\* when its reason is refined,
LEMMA SessReasonTyped ==
  ASSUME SessTyped, NEW c \in Calls, NEW why \in Reasons,
         sess' = [sess EXCEPT ![c].reason = why]
  PROVE  SessTyped'
BY DEF SessTyped

\* and when nothing happens to it.
LEMMA SessKept ==
  ASSUME SessTyped, UNCHANGED sess
  PROVE  SessTyped'
BY DEF SessTyped

\* The admission of a call keeps the types.
LEMMA TypeAdmission ==
  ASSUME TypeInv, NEW c \in Calls, CreateTask(c) \/ AdmissionStep(c)
  PROVE  TypeInv'
<1> USE DEF TypeInv, admission, table, executor, control, signals
<1>1. CASE ~Register(c)
  <2>1. AdmissionTyped'
    BY <1>1 DEF AdmissionStep, AdmissionTyped, CreateTask, EnterGate, RefuseAtGate, GiveUpSlot,
                RefuseDuplicate
  <2>2. UNCHANGED <<table, executor, control, signals>>
    BY <1>1 DEF AdmissionStep, CreateTask, EnterGate, RefuseAtGate, GiveUpSlot, RefuseDuplicate
  <2> QED
    BY <2>1, <2>2 DEF TableTyped, RunTyped, SessTyped, OpTyped, PhaseTyped, SignalsTyped,
                      OnlyCallsRun, OpsKnowTheirTask
<1>2. CASE Register(c)
  <2>1. AdmissionTyped'
    BY <1>2 DEF Register, AdmissionTyped
  <2>2. TableTyped' /\ OnlyCallsRun'
    BY <1>2, Names DEF Register, TableTyped, OnlyCallsRun
  <2>3. RunTyped'
    BY <1>2, Names DEF Register, RunTyped
  <2>4. SessTyped'
    <3>1. SessTyped
      OBVIOUS
    <3>2. sess' = [sess EXCEPT ![c].heard = TRUE] \/ UNCHANGED sess
      BY <1>2 DEF Register
    <3> HIDE DEF TypeInv
    <3> QED
      BY <3>1, <3>2, SessHeardTyped, SessKept
  <2> QED
    BY <1>2, <2>1, <2>2, <2>3, <2>4
       DEF Register, OpTyped, PhaseTyped, SignalsTyped, OpsKnowTheirTask
<1> QED
  BY <1>1, <1>2

\* So does a step of its task,
LEMMA TypeRun ==
  ASSUME TypeInv, NEW c \in Calls, CoroEnds(c) \/ RunStep(c)
  PROVE  TypeInv'
<1> USE DEF TypeInv, admission, table, executor, control, signals
<1>a. ASSUME UNCHANGED <<control, signals>> PROVE OpTyped' /\ OpsKnowTheirTask' /\ PhaseTyped' /\ SignalsTyped'
  BY <1>a DEF OpTyped, OpsKnowTheirTask, PhaseTyped, SignalsTyped
<1>b. ASSUME UNCHANGED admission PROVE AdmissionTyped'
  BY <1>b DEF AdmissionTyped
<1>c. ASSUME UNCHANGED table PROVE TableTyped' /\ OnlyCallsRun'
  BY <1>c DEF TableTyped, OnlyCallsRun
<1>d. ASSUME UNCHANGED sess PROVE SessTyped'
  BY <1>d DEF SessTyped
<1>1. CASE Begin(c)
  <2>1. RunTyped' /\ UNCHANGED <<admission, table, control, signals>>
    BY <1>1 DEF Begin, RunTyped
  <2>2. SessTyped'
    BY <1>1 DEF Begin, SessTyped, Statuses
  <2> QED
    BY <2>1, <2>2, <1>a, <1>b, <1>c
<1>2. CASE DropUnstarted(c)
  <2>1. RunTyped' /\ UNCHANGED <<admission, table, control, signals, sess>>
    BY <1>2, OverTyped DEF DropUnstarted, RunTyped
  <2> QED
    BY <2>1, <1>a, <1>b, <1>c, <1>d
<1>3. CASE CoroEnds(c)
  <2>1. RunTyped' /\ TableTyped' /\ OnlyCallsRun' /\ UNCHANGED <<admission, control, signals>>
    BY <1>3, FinallyTyped DEF CoroEnds, RunTyped
  <2>2. SessTyped'
    <3>1. CASE sess' = [sess EXCEPT ![c].status = "completed", ![c].reason = "completed"]
      <4>1. SessTyped
        OBVIOUS
      <4>2. "completed" \in Statuses /\ "completed" \in Reasons
        BY DEF Statuses, Reasons
      <4> HIDE DEF TypeInv
      <4> QED
        BY <3>1, <4>1, <4>2, SessUpdateTyped
    <3>2. CASE sess' = [sess EXCEPT ![c].status = "failed"]
      <4>1. SessTyped /\ "failed" \in Statuses
        BY DEF Statuses
      <4> HIDE DEF TypeInv
      <4> QED
        BY <3>2, <4>1 DEF SessTyped
    <3> QED
      BY <1>3, <3>1, <3>2 DEF CoroEnds
  <2> QED
    BY <2>1, <2>2, <1>a, <1>b
<1>4. CASE CoroCancelled(c)
  <2>1. RunTyped' /\ UNCHANGED <<admission, table, control, signals>>
    BY <1>4 DEF CoroCancelled, RunTyped
  <2>2. PICK why \in Reasons :
          sess' = [sess EXCEPT ![c].pending = "", ![c].status = "cancelled", ![c].reason = why]
    <3>1. sess[c].reason \in Reasons
      BY DEF SessTyped
    <3> QED
      BY <1>4, <3>1 DEF CoroCancelled, Reasons
  <2>3. sess' = [sess EXCEPT ![c] = [sess[c] EXCEPT !.pending = "", !.status = "cancelled",
                                                    !.reason = why]]
    BY <2>2
  <2>5. [sess[c] EXCEPT !.pending = "", !.status = "cancelled", !.reason = why] \in
          [status : Statuses, reason : Reasons, pending : Actions \cup {""},
           acked : {"", "ack_cancel", "ack_stop"}, heard : BOOLEAN]
    <3>1. sess[c] \in [status : Statuses, reason : Reasons, pending : Actions \cup {""},
                      acked : {"", "ack_cancel", "ack_stop"}, heard : BOOLEAN]
      BY DEF SessTyped
    <3>2. "cancelled" \in Statuses /\ "" \in Actions \cup {""}
      BY DEF Statuses
    <3> HIDE DEF TypeInv
    <3> QED
      BY <3>1, <3>2, <2>2
  <2>4. SessTyped'
    BY <2>3, <2>5 DEF SessTyped
  <2> QED
    BY <2>1, <2>4, <1>a, <1>b, <1>c
<1>5. CASE AckReturns(c)
  <2>1. RunTyped' /\ TableTyped' /\ OnlyCallsRun' /\ UNCHANGED <<admission, control, signals>>
    BY <1>5, FinallyTyped DEF AckReturns, RunTyped
  <2>2. SessTyped'
    <3>1. SessTyped
      OBVIOUS
    <3>2. \/ \E e \in {"ack_cancel", "ack_stop"} : sess' = [sess EXCEPT ![c].acked = e]
          \/ UNCHANGED sess
      <4>1. CASE sess[c].reason = "stop"
        BY <1>5, <4>1 DEF AckReturns
      <4>2. CASE sess[c].reason # "stop"
        BY <1>5, <4>2 DEF AckReturns
      <4> QED
        BY <4>1, <4>2
    <3> HIDE DEF TypeInv
    <3> QED
      BY <3>1, <3>2, SessAckTyped, SessKept
  <2> QED
    BY <2>1, <2>2, <1>a, <1>b
<1>6. CASE AckInterrupted(c)
  <2>1. RunTyped' /\ TableTyped' /\ OnlyCallsRun' /\ UNCHANGED <<admission, control, signals, sess>>
    BY <1>6, FinallyTyped DEF AckInterrupted, RunTyped
  <2> QED
    BY <2>1, <1>a, <1>b, <1>d
<1>7. CASE DrainReturns(c)
  <2>1. RunTyped' /\ TableTyped' /\ OnlyCallsRun' /\ UNCHANGED <<admission, control, signals, sess>>
    BY <1>7, FinallyTyped DEF DrainReturns, RunTyped
  <2> QED
    BY <2>1, <1>a, <1>b, <1>d
<1>8. CASE DrainInterrupted(c)
  <2>1. RunTyped' /\ UNCHANGED <<admission, table, control, signals, sess>>
    BY <1>8, OverTyped DEF DrainInterrupted, RunTyped
  <2> QED
    BY <2>1, <1>a, <1>b, <1>c, <1>d
<1>9. CASE CleanupReturns(c)
  <2>1. RunTyped' /\ UNCHANGED <<signals, sess, op, sd>>
    BY <1>9, OverTyped DEF CleanupReturns, RunTyped
  <2>2. AdmissionTyped' /\ TableTyped' /\ OnlyCallsRun' /\ PhaseTyped'
    BY <1>9, <2>1, FinishTyped, Names DEF CleanupReturns, PhaseTyped
  <2> QED
    BY <2>1, <2>2, <1>d DEF OpTyped, OpsKnowTheirTask, SignalsTyped
<1> QED
  BY <1>1, <1>2, <1>3, <1>4, <1>5, <1>6, <1>7, <1>8, <1>9 DEF RunStep

\* a signal sent or dispatched,
LEMMA TypeSignal ==
  ASSUME TypeInv,
         \/ \E i \in Ids, a \in Actions : SendSignal(i, a)
         \/ \E m \in wire : DispatchSignal(m)
  PROVE  TypeInv'
<1> USE DEF TypeInv, admission, table, executor, control, signals
<1>1. ASSUME NEW i \in Ids, NEW a \in Actions, SendSignal(i, a) PROVE TypeInv'
  <2>1. SignalsTyped'
    <3>1. Signal(i, a) \in [key : Ids, action : Actions]
      BY DEF Signal
    <3>2. budget' \in 0 .. MaxSignals
      BY <1>1, ConstantsOK DEF SendSignal, SignalsTyped, ConstantsOK
    <3> QED
      BY <1>1, <3>1, <3>2 DEF SendSignal, SignalsTyped
  <2> QED
    BY <1>1, <2>1 DEF SendSignal, AdmissionTyped, TableTyped, RunTyped, SessTyped, OpTyped,
                      PhaseTyped, OnlyCallsRun, OpsKnowTheirTask
<1>2. ASSUME NEW m \in wire, DispatchSignal(m) PROVE TypeInv'
  <2>1. m.key \in Ids /\ m.action \in Actions
    BY DEF SignalsTyped
  <2>2. refs[m.key] \in Calls \cup {NoOne}
    BY <2>1 DEF RunTyped
  <2>3. SessTyped' /\ RunTyped'
    <3>1. CASE refs[m.key] = NoOne
      BY <1>2, <3>1 DEF DispatchSignal, SessTyped, RunTyped
    <3>2. CASE refs[m.key] # NoOne
      <4>1. /\ sess' = [sess EXCEPT ![refs[m.key]].pending = m.action]
            /\ cancelReq' = [cancelReq EXCEPT ![refs[m.key]] = TRUE]
            /\ UNCHANGED <<run, aborted, refs>>
        BY <1>2, <3>2 DEF DispatchSignal
      <4>2. SessTyped'
        BY <4>1, <2>1 DEF SessTyped
      <4>3. RunTyped'
        BY <4>1 DEF RunTyped
      <4> QED
        BY <4>2, <4>3
    <3> QED
      BY <3>1, <3>2
  <2>4. SignalsTyped'
    BY <1>2 DEF DispatchSignal, SignalsTyped
  <2> QED
    BY <1>2, <2>3, <2>4 DEF DispatchSignal, AdmissionTyped, TableTyped, OpTyped,
                            PhaseTyped, OnlyCallsRun, OpsKnowTheirTask
<1> QED
  BY <1>1, <1>2

(* The pop of an operation and what it leaves in op. *)
LEMMA LeaveTyped ==
  ASSUME TypeInv, NEW o \in Ops, NEW k \in Keys, NEW ok \in BOOLEAN, Leave(o, k, ok)
  PROVE  TableTyped' /\ OnlyCallsRun' /\ OpTyped' /\ OpsKnowTheirTask'
<1>1. TableTyped' /\ OnlyCallsRun'
  BY Names, EvictTyped DEF TypeInv, Leave
<1>2. PICK p \in {"done", "cleaning"} :
        op' = [op EXCEPT ![o] = [@ EXCEPT !.pc = p, !.key = k, !.ok = ok]]
  BY DEF Leave
<1>3. op[o] \in [pc : {"idle", "start", "signal", "wait", "forced", "sweep", "cleaning", "done"},
                key : Keys \cup {NoOne}, call : Calls \cup {NoOne}, ok : BOOLEAN]
  BY DEF TypeInv, OpTyped
<1>4. [op[o] EXCEPT !.pc = p, !.key = k, !.ok = ok] \in
        [pc : {"idle", "start", "signal", "wait", "forced", "sweep", "cleaning", "done"},
         key : Keys \cup {NoOne}, call : Calls \cup {NoOne}, ok : BOOLEAN]
  BY <1>2, <1>3
<1>5. OpTyped'
  BY <1>2, <1>4 DEF TypeInv, OpTyped
<1>6. OpsKnowTheirTask'
  BY <1>2, <1>3 DEF TypeInv, OpTyped, OpsKnowTheirTask
<1> QED
  BY <1>1, <1>5, <1>6

\* the beginning of a cancel_task,
LEMMA BeginCancelTyped ==
  ASSUME TypeInv, NEW o \in Ops, NEW k \in Keys, BeginCancel(o, k)
  PROVE  TypeInv'
<1> USE DEF TypeInv, admission, table, executor, control, signals
<1>1. TableTyped' /\ OnlyCallsRun' /\ OpTyped' /\ OpsKnowTheirTask'
  <2>1. CASE tasks[k] = NoOne
    BY <2>1, LeaveTyped DEF BeginCancel
  <2>2. CASE tasks[k] # NoOne
    <3>1. k \in Ids /\ tasks[k] \in Calls
      BY <2>2, Names DEF OnlyCallsRun, TableTyped
    <3>2. op' = [op EXCEPT ![o] = [pc |-> "signal", key |-> k, call |-> tasks[k], ok |-> TRUE]]
      BY <2>2 DEF BeginCancel
    <3>3. OpTyped'
      BY <3>1, <3>2 DEF OpTyped
    <3>4. OpsKnowTheirTask'
      BY <3>1, <3>2 DEF OpTyped, OpsKnowTheirTask
    <3> QED
      BY <2>2, <3>3, <3>4 DEF BeginCancel, TableTyped, OnlyCallsRun
  <2> QED
    BY <2>1, <2>2
<1> QED
  BY <1>1 DEF BeginCancel, AdmissionTyped, RunTyped, SessTyped, PhaseTyped, SignalsTyped

\* each of its later steps,
LEMMA TypeOp ==
  ASSUME TypeInv, NEW o \in Ops, OpStep(o)
  PROVE  TypeInv'
<1> USE DEF TypeInv, admission, table, executor, control, signals
<1>a. op[o].pc \in {"signal", "wait", "forced"} =>
        op[o].key \in Ids /\ op[o].key \in Keys /\ op[o].call \in Calls
  BY Names DEF OpsKnowTheirTask
<1>b. \A p \in {"wait", "forced", "done"} : SetOp(o, p) /\ op[o].pc \in {"signal", "wait", "cleaning"} /\ (p = "done" \/ op[o].pc # "cleaning")
        => OpTyped' /\ OpsKnowTheirTask'
  BY <1>a DEF SetOp, OpTyped, OpsKnowTheirTask
<1>1. CASE PublishCancel(o)
  <2>1. SignalsTyped'
    <3>1. Signal(op[o].key, "cancel") \in [key : Ids, action : Actions]
      BY <1>1, <1>a DEF PublishCancel, Signal, Actions
    <3> QED
      BY <1>1, <3>1 DEF PublishCancel, SignalsTyped
  <2>2. OpTyped' /\ OpsKnowTheirTask'
    BY <1>1, <1>b DEF PublishCancel
  <2> QED
    BY <1>1, <2>1, <2>2 DEF PublishCancel, AdmissionTyped, TableTyped, RunTyped, SessTyped,
                            PhaseTyped, OnlyCallsRun
<1>2. CASE PublishFails(o)
  <2>1. TableTyped' /\ OnlyCallsRun' /\ OpTyped' /\ OpsKnowTheirTask'
    BY <1>2, <1>a, LeaveTyped DEF PublishFails
  <2> QED
    BY <1>2, <2>1 DEF PublishFails, AdmissionTyped, RunTyped, SessTyped, PhaseTyped, SignalsTyped
<1>3. CASE WaitReturns(o)
  <2>1. (~aborted[op[o].call]) \in BOOLEAN
    OBVIOUS
  <2>2. TableTyped' /\ OnlyCallsRun' /\ OpTyped' /\ OpsKnowTheirTask'
    BY <1>3, <1>a, <2>1, LeaveTyped DEF WaitReturns
  <2> QED
    BY <1>3, <2>2 DEF WaitReturns, AdmissionTyped, RunTyped, SessTyped, PhaseTyped, SignalsTyped
<1>4. CASE WaitTimesOut(o)
  <2>1. OpTyped' /\ OpsKnowTheirTask'
    BY <1>4, <1>b DEF WaitTimesOut
  <2>2. RunTyped'
    BY <1>4, <1>a DEF WaitTimesOut, RunTyped
  <2> QED
    BY <1>4, <2>1, <2>2 DEF WaitTimesOut, AdmissionTyped, TableTyped, SessTyped,
                            PhaseTyped, SignalsTyped, OnlyCallsRun
<1>5. CASE ForcedReturns(o)
  <2>1. TableTyped' /\ OnlyCallsRun' /\ OpTyped' /\ OpsKnowTheirTask'
    BY <1>5, <1>a, LeaveTyped DEF ForcedReturns
  <2>2. SessTyped'
    <3>1. SessTyped
      OBVIOUS
    <3>2. "timeout" \in Reasons
      BY DEF Reasons
    <3>3. \/ \E x \in Calls : sess' = [sess EXCEPT ![x].reason = "timeout"]
          \/ UNCHANGED sess
      BY <1>5 DEF ForcedReturns
    <3> HIDE DEF TypeInv
    <3> QED
      BY <3>1, <3>2, <3>3, SessReasonTyped, SessKept
  <2> QED
    BY <1>5, <2>1, <2>2 DEF ForcedReturns, AdmissionTyped, RunTyped, PhaseTyped, SignalsTyped
<1>6. CASE OpCleanupReturns(o)
  <2>1. AdmissionTyped' /\ TableTyped' /\ OnlyCallsRun' /\ PhaseTyped'
    BY <1>6, FinishTyped, Names DEF OpCleanupReturns, PhaseTyped
  <2>2. OpTyped' /\ OpsKnowTheirTask'
    BY <1>6, <1>b DEF OpCleanupReturns
  <2> QED
    BY <1>6, <2>1, <2>2 DEF OpCleanupReturns, RunTyped, SessTyped, SignalsTyped
<1> QED
  BY <1>1, <1>2, <1>3, <1>4, <1>5, <1>6 DEF OpStep

\* shutdown(),
LEMMA TypeShutdown ==
  ASSUME TypeInv, Shutdown \/ ShutdownStep
  PROVE  TypeInv'
<1> USE DEF TypeInv, admission, table, executor, control, signals
<1>1. CASE Shutdown
  <2>1. SessTyped'
    <3>1. \A c \in Calls : /\ sess[c] \in [status : Statuses, reason : Reasons,
                                          pending : Actions \cup {""},
                                          acked : {"", "ack_cancel", "ack_stop"}, heard : BOOLEAN]
                           /\ [sess[c] EXCEPT !.reason = "shutdown"] \in
                                [status : Statuses, reason : Reasons, pending : Actions \cup {""},
                                 acked : {"", "ack_cancel", "ack_stop"}, heard : BOOLEAN]
      <4>1. SessTyped /\ "shutdown" \in Reasons
        BY DEF Reasons
      <4> HIDE DEF TypeInv
      <4> QED
        BY <4>1 DEF SessTyped
    <3>2. sess' = [c \in Calls |-> IF sessions[Id[c]] = c /\ sess[c].reason = "unknown"
                                   THEN [sess[c] EXCEPT !.reason = "shutdown"] ELSE sess[c]]
      BY <1>1 DEF Shutdown
    <3> HIDE DEF TypeInv
    <3> QED
      BY <3>1, <3>2 DEF SessTyped
  <2>2. OpTyped' /\ OpsKnowTheirTask'
    BY <1>1, Names DEF Shutdown, OpTyped, OpsKnowTheirTask
  <2> QED
    BY <1>1, <2>1, <2>2 DEF Shutdown, AdmissionTyped, TableTyped, RunTyped, PhaseTyped,
                            SignalsTyped, OnlyCallsRun
<1>2. CASE StartSweep
  <2>1. OpTyped' /\ OpsKnowTheirTask'
    <3>1. op' = [o \in Ops |-> IF o \in Keys /\ sessions[o] # NoOne
                              THEN [op[o] EXCEPT !.pc = "sweep", !.call = NoOne] ELSE op[o]]
      BY <1>2 DEF StartSweep
    <3>2. \A o \in Ops : /\ op[o] \in OpRecords
                         /\ [op[o] EXCEPT !.pc = "sweep", !.call = NoOne] \in OpRecords
      <4>1. \A o \in Ops : op[o] \in OpRecords
        BY DEF OpTyped, OpRecords
      <4> HIDE DEF TypeInv
      <4> QED
        BY <4>1 DEF OpRecords
    <3>3. OpTyped'
      BY <3>1, <3>2 DEF OpTyped, OpRecords
    <3>4. OpsKnowTheirTask'
      <4>1. \A o \in Ops : op'[o] = op[o] \/ op'[o].pc = "sweep"
        BY <3>1, <3>2 DEF OpRecords
      <4> QED
        BY <4>1, Names DEF OpsKnowTheirTask
    <3> QED
      BY <3>3, <3>4
  <2> QED
    BY <1>2, <2>1 DEF StartSweep, AdmissionTyped, TableTyped, RunTyped, SessTyped, PhaseTyped,
                      SignalsTyped, OnlyCallsRun
<1>3. CASE ShutdownReturns
  BY <1>3 DEF ShutdownReturns, AdmissionTyped, TableTyped, RunTyped, SessTyped, OpTyped,
              PhaseTyped, SignalsTyped, OnlyCallsRun, OpsKnowTheirTask
<1>4. ASSUME NEW i \in Ids, StartGathered(i) PROVE TypeInv'
  BY <1>4, Names, BeginCancelTyped DEF StartGathered
<1>5. ASSUME NEW k \in Keys, Sweep(k) PROVE TypeInv'
  <2>1. TableTyped' /\ OnlyCallsRun' /\ OpTyped' /\ OpsKnowTheirTask'
    BY <1>5, Names, LeaveTyped DEF Sweep
  <2> QED
    BY <1>5, <2>1 DEF Sweep, AdmissionTyped, RunTyped, SessTyped, PhaseTyped, SignalsTyped
<1> QED
  BY <1>1, <1>2, <1>3, <1>4, <1>5 DEF ShutdownStep

\* and a request from outside.
LEMMA TypeRequest ==
  ASSUME TypeInv,
         \/ \E o \in Cancellers, k \in Keys : CancelTask(o, k) \/ CleanSession(o, k)
         \/ \E k \in ConfigJobs : StartConfig(k) \/ EndConfig(k)
  PROVE  TypeInv'
<1> USE DEF TypeInv, admission, table, executor, control, signals
<1>1. ASSUME NEW o \in Cancellers, NEW k \in Keys, CancelTask(o, k) \/ CleanSession(o, k)
      PROVE  TypeInv'
  <2>1. CASE BeginCancel(o, k)
    BY <2>1, Names, BeginCancelTyped
  <2>2. CASE Leave(o, k, TRUE) /\ UNCHANGED <<admission, executor, sd, conf, signals>>
    <3>1. TableTyped' /\ OnlyCallsRun' /\ OpTyped' /\ OpsKnowTheirTask'
      BY <2>2, Names, LeaveTyped
    <3> QED
      BY <2>2, <3>1 DEF AdmissionTyped, RunTyped, SessTyped, PhaseTyped, SignalsTyped
  <2> QED
    BY <1>1, <2>1, <2>2 DEF CancelTask, CleanSession
<1>2. ASSUME NEW k \in ConfigJobs, StartConfig(k) \/ EndConfig(k) PROVE TypeInv'
  <2>1. TableTyped' /\ OnlyCallsRun'
    BY <1>2, Names DEF StartConfig, EndConfig, TableTyped, OnlyCallsRun
  <2>2. PhaseTyped'
    BY <1>2 DEF StartConfig, EndConfig, PhaseTyped
  <2> QED
    BY <1>2, <2>1, <2>2 DEF StartConfig, EndConfig, AdmissionTyped, RunTyped, SessTyped, OpTyped,
                            SignalsTyped, OpsKnowTheirTask
<1> QED
  BY <1>1, <1>2

\* Every step keeps the types.
LEMMA TypeStep == TypeInv /\ [Next]_vars => TypeInv'
<1> SUFFICES ASSUME TypeInv, [Next]_vars PROVE TypeInv'
  OBVIOUS
<1>1. CASE UNCHANGED vars
  BY <1>1 DEF vars, admission, table, executor, control, signals, TypeInv, AdmissionTyped,
              TableTyped, RunTyped, SessTyped, OpTyped, PhaseTyped, SignalsTyped, OnlyCallsRun,
              OpsKnowTheirTask
<1>2. CASE Next
  BY <1>2, TypeAdmission, TypeRun, TypeSignal, TypeOp, TypeShutdown, TypeRequest DEF Next
<1> QED
  BY <1>1, <1>2

(* Every reachable state is well typed.                                    *)
THEOREM TypeCorrect == Spec => []TypeOK
<1>1. TypeInv => TypeOK
  BY TypeParts DEF TypeInv
<1> QED
  BY <1>1, TypeInit, TypeStep, PTL DEF Spec

----------------------------------------------------------------------------
(* Conservation of permits                                                 *)

\* At the start every permit is there.
LEMMA PermitsInit == Init => PermitsConserved
<1> SUFFICES ASSUME Init PROVE PermitsConserved
  OBVIOUS
<1>1. slot = MaxConc /\ active = 0 /\ gate = MaxConc + MaxQueued /\ waiting = 0
  BY DEF Init
<1> QED
  BY <1>1, Bounds DEF PermitsConserved

\* Every step that takes or returns a permit counts it.
LEMMA PermitsStep == TypeInv /\ PermitsConserved /\ [Next]_vars => PermitsConserved'
<1> SUFFICES ASSUME TypeInv, PermitsConserved, [Next]_vars PROVE PermitsConserved'
  OBVIOUS
<1>t. slot \in Int /\ active \in Int /\ gate \in Int /\ waiting \in Int
  BY DEF TypeInv, AdmissionTyped
<1>u. ASSUME UNCHANGED <<slot, active, gate, waiting>> PROVE PermitsConserved'
  BY <1>u DEF PermitsConserved
<1>f. ASSUME NEW a, FinishCleanup(a) PROVE PermitsConserved'
  BY <1>f, <1>t, Bounds DEF FinishCleanup, ReturnAdmission, PermitsConserved
<1>1. CASE UNCHANGED vars
  BY <1>1, <1>u DEF vars, admission
<1>2. ASSUME NEW c \in Calls, CreateTask(c) \/ AdmissionStep(c) PROVE PermitsConserved'
  <2>1. CASE CreateTask(c) \/ RefuseAtGate(c)
    BY <2>1, <1>u DEF CreateTask, RefuseAtGate
  <2>2. CASE EnterGate(c)
    BY <2>2, <1>t, Bounds DEF EnterGate, PermitsConserved
  <2>3. CASE GiveUpSlot(c)
    BY <2>3, <1>t, Bounds DEF GiveUpSlot, PermitsConserved
  <2>4. CASE Register(c)
    BY <2>4, <1>t, Bounds DEF Register, PermitsConserved
  <2>5. CASE RefuseDuplicate(c)
    BY <2>5, <1>t, Bounds DEF RefuseDuplicate, PermitsConserved
  <2> QED
    BY <1>2, <2>1, <2>2, <2>3, <2>4, <2>5 DEF AdmissionStep
<1>3. ASSUME NEW c \in Calls, CoroEnds(c) \/ RunStep(c) PROVE PermitsConserved'
  <2>1. CASE CleanupReturns(c)
    BY <2>1, <1>f DEF CleanupReturns
  <2>2. CASE ~CleanupReturns(c)
    BY <1>3, <2>2, <1>u DEF RunStep, CoroEnds, Begin, DropUnstarted, CoroCancelled, AckReturns,
       AckInterrupted, DrainReturns, DrainInterrupted, admission
  <2> QED
    BY <2>1, <2>2
<1>4. ASSUME NEW o \in Ops, OpStep(o) PROVE PermitsConserved'
  <2>1. CASE OpCleanupReturns(o)
    BY <2>1, <1>f DEF OpCleanupReturns
  <2>2. CASE ~OpCleanupReturns(o)
    BY <1>4, <2>2, <1>u DEF OpStep, PublishCancel, PublishFails, WaitReturns, WaitTimesOut,
       ForcedReturns, admission
  <2> QED
    BY <2>1, <2>2
<1>5. CASE \/ \E i \in Ids, a \in Actions : SendSignal(i, a)
           \/ \E m \in wire : DispatchSignal(m)
           \/ \E o \in Cancellers, k \in Keys : CancelTask(o, k) \/ CleanSession(o, k)
           \/ Shutdown \/ ShutdownStep
           \/ \E k \in ConfigJobs : StartConfig(k) \/ EndConfig(k)
  BY <1>5, <1>u DEF SendSignal, DispatchSignal, CancelTask, CleanSession, BeginCancel, Shutdown,
     ShutdownStep, StartSweep, ShutdownReturns, StartGathered, Sweep, StartConfig, EndConfig, admission
<1> QED
  BY <1>1, <1>2, <1>3, <1>4, <1>5 DEF Next

(* The semaphores and counters always add up to their initial values.      *)
THEOREM PermitsNeverLost == Spec => []PermitsConserved
BY TypeInit, TypeStep, PermitsInit, PermitsStep, PTL DEF Spec

----------------------------------------------------------------------------
(* Exactness of the counters                                               *)

Queued == {c \in Calls : pc[c] = "slot"}

(* A session stands under the id it was created for, a call that holds an  *)
(* admission was admitted, and a popped session is no longer in the table: *)
(* what makes one pop one admission.                                       *)
HoldersConsistent ==
  /\ \A k \in Keys : sessions[k] \in Calls => Id[sessions[k]] = k
  /\ \A k \in Keys : sessions[k] \in ConfigJobs => sessions[k] = k
  /\ \A c \in Calls : pc[c] = "gate" => MaxQueued > 0
  /\ \A c \in Calls : sessions[Id[c]] = c => pc[c] = "in"
  /\ \A c \in Calls : cleaner[c] # NoOne => pc[c] = "in" /\ sessions[Id[c]] # c
  /\ \A k \in ConfigJobs : sessions[k] = k => conf[k] = "live"
  /\ \A k \in ConfigJobs : cleaner[k] # NoOne => conf[k] = "live" /\ sessions[k] # k

CountersInv == TypeInv /\ HoldersConsistent /\ CountersExact

\* The counters count finite sets,
LEMMA FinitePopulations ==
  /\ IsFiniteSet(Holders) /\ Cardinality(Holders) \in Nat
  /\ IsFiniteSet(Evicted) /\ Cardinality(Evicted) \in Nat
  /\ IsFiniteSet(Queued) /\ Cardinality(Queued) \in Nat
<1>1. Holders \subseteq Calls /\ Evicted \subseteq ConfigJobs /\ Queued \subseteq Calls
  BY DEF Holders, Evicted, Queued
<1> QED
  BY <1>1, ConstantsOK, FS_Subset, FS_CardinalityType DEF ConstantsOK

\* after a step as well as before it.
LEMMA FinitePopulationsNext ==
  /\ IsFiniteSet(Holders') /\ IsFiniteSet(Evicted') /\ IsFiniteSet(Queued')
<1>1. Holders' \subseteq Calls /\ Evicted' \subseteq ConfigJobs /\ Queued' \subseteq Calls
  BY DEF Holders, Evicted, Queued
<1> QED
  BY <1>1, ConstantsOK, FS_Subset DEF ConstantsOK

(* Counting one element in or out.                                         *)
LEMMA CountIn ==
  ASSUME NEW S, NEW T, NEW x, IsFiniteSet(S), x \notin S, T = S \cup {x}
  PROVE  Cardinality(T) = Cardinality(S) + 1
BY FS_AddElement

\* One that leaves a set makes it smaller by one.
LEMMA CountOut ==
  ASSUME NEW S, NEW T, NEW x, IsFiniteSet(S), x \in S, T = S \ {x}
  PROVE  Cardinality(T) = Cardinality(S) - 1
BY FS_RemoveElement

\* At the start nobody is in, and both counters are zero.
LEMMA CountersInit == Init => CountersInv
<1> SUFFICES ASSUME Init PROVE CountersInv
  OBVIOUS
<1>1. TypeInv
  BY TypeInit
<1>a. /\ active = 0 /\ waiting = 0
      /\ pc = [c \in Calls |-> "idle"]
      /\ sessions = [k \in Keys |-> NoOne]
      /\ cleaner = [x \in Owners |-> NoOne]
      /\ conf = [k \in ConfigJobs |-> "new"]
  BY DEF Init
<1>2. HoldersConsistent
  BY <1>a, Names DEF HoldersConsistent
<1>3. Holders = {} /\ Evicted = {} /\ Queued = {}
  BY <1>a, Names DEF Holders, Evicted, Queued
<1>4. CountersExact
  BY <1>a, <1>3, FS_EmptySet DEF CountersExact, Queued
<1> QED
  BY <1>1, <1>2, <1>4 DEF CountersInv

(* Popping a session moves its call from the table to the cleaners: nobody *)
(* starts or stops holding an admission.                                   *)
LEMMA EvictKeepsHolders ==
  ASSUME CountersInv, NEW k \in Keys, NEW a \in Agents, Evict(k, a),
         UNCHANGED <<active, waiting, pc, conf>>
  PROVE  HoldersConsistent' /\ CountersExact' /\ Holders' = Holders
<1> USE DEF CountersInv, TypeInv, TableTyped
<1>0. a # NoOne
  BY ConstantsOK DEF ConstantsOK, Agents, Ops, Keys
<1>1. CASE sessions[k] = NoOne
  <2>1. sessions' = sessions /\ cleaner' = cleaner
    BY <1>1 DEF Evict
  <2> QED
    BY <2>1 DEF HoldersConsistent, CountersExact, Holders, Evicted
<1>2. CASE sessions[k] # NoOne
  <2>1. /\ sessions[k] \in Owners
        /\ sessions' = [sessions EXCEPT ![k] = NoOne]
        /\ cleaner' = [cleaner EXCEPT ![sessions[k]] = a]
    BY <1>2 DEF Evict
  <2>2. Holders' = Holders
    BY <2>1, <1>0, Names DEF HoldersConsistent, Holders
  <2>3. HoldersConsistent'
    BY <2>1, <1>0, Names DEF HoldersConsistent
  <2> QED
    BY <2>2, <2>3 DEF CountersExact, Evicted
<1> QED
  BY <1>1, <1>2

(* The finally of _cleanup_task returns one admission: the one of the call *)
(* whose session was popped, or, for a config-setup job, nobody's.         *)
LEMMA FinishReturnsOne ==
  ASSUME CountersInv, NEW a \in Agents, FinishCleanup(a)
  PROVE  /\ HoldersConsistent' /\ CountersExact'
         /\ ConfigJobs = {} => \E c \in Holders : Holders' = Holders \ {c}
<1> USE DEF CountersInv, TypeInv, TableTyped, PhaseTyped
<1>0. a # NoOne /\ active \in Int
  BY ConstantsOK DEF ConstantsOK, Agents, Ops, Keys, AdmissionTyped
<1>1. PICK x \in Owners :
        /\ cleaner[x] = a
        /\ cleaner' = [cleaner EXCEPT ![x] = NoOne]
        /\ conf' = IF x \in ConfigJobs THEN [conf EXCEPT ![x] = "evicted"] ELSE conf
        /\ active' = active - 1
        /\ UNCHANGED <<waiting, pc, sessions>>
  BY DEF FinishCleanup, ReturnAdmission
<1>2. HoldersConsistent'
  BY <1>0, <1>1, Names DEF HoldersConsistent
<1>3. CASE x \in Calls
  <2>1. x \in Holders /\ Holders' = Holders \ {x}
    BY <1>0, <1>1, <1>3, Names DEF HoldersConsistent, Holders
  <2>2. Evicted' = Evicted
    BY <1>1, <1>3, Names DEF Evicted
  <2>3. Cardinality(Holders') = Cardinality(Holders) - 1
    BY <2>1, FinitePopulations, CountOut
  <2>4. CountersExact'
    BY <1>0, <1>1, <2>2, <2>3, FinitePopulations DEF CountersExact
  <2> QED
    BY <1>2, <2>1, <2>4
<1>4. CASE x \in ConfigJobs
  <2>1. Holders' = Holders
    BY <1>1, <1>4, Names DEF Holders
  <2>2. x \notin Evicted /\ Evicted' = Evicted \cup {x}
    BY <1>0, <1>1, <1>4 DEF HoldersConsistent, Evicted
  <2>3. Cardinality(Evicted') = Cardinality(Evicted) + 1
    BY <2>2, FinitePopulations, CountIn
  <2>4. CountersExact'
    BY <1>0, <1>1, <2>1, <2>3, FinitePopulations DEF CountersExact
  <2> QED
    BY <1>2, <1>4, <2>4
<1> QED
  BY <1>3, <1>4, Names

(* Every step leaves the populations alone, pops a session, ends a         *)
(* cleanup, moves a call on its way in, or moves a config-setup job.       *)
LEMMA StepKinds ==
  ASSUME TypeInv, [Next]_vars
  PROVE  \/ UNCHANGED <<sessions, cleaner, pc, conf, active, waiting>>
         \/ \E k \in Keys, a \in Agents : Evict(k, a) /\ UNCHANGED <<active, waiting, pc, conf>>
         \/ \E a \in Agents : FinishCleanup(a)
         \/ \E c \in Calls : CreateTask(c) \/ AdmissionStep(c)
         \/ \E k \in ConfigJobs : StartConfig(k) \/ EndConfig(k)
<1> DEFINE Quiet == UNCHANGED <<sessions, cleaner, pc, conf, active, waiting>>
           Pops  == \E k \in Keys, a \in Agents : Evict(k, a) /\ UNCHANGED <<active, waiting, pc, conf>>
           Ends  == \E a \in Agents : FinishCleanup(a)
<1> USE DEF admission, table, control
<1>f. ASSUME NEW c \in Calls, Finalize(c) \/ Finally(c), UNCHANGED <<admission, control>>
      PROVE  Quiet \/ Pops
  <2>1. CASE Finalize(c)
    BY <1>f, <2>1, Names DEF Finalize
  <2>2. CASE DrainYields /\ Finally(c)
    BY <1>f, <2>2 DEF Finally
  <2> QED
    BY <1>f, <2>1, <2>2 DEF Finally
<1>l. ASSUME NEW o \in Ops, NEW k \in Keys, NEW ok, Leave(o, k, ok), UNCHANGED <<admission, conf>>
      PROVE  Pops
  BY <1>l, Names DEF Leave
<1>b. ASSUME NEW o \in Ops, NEW k \in Keys, BeginCancel(o, k)
      PROVE  Quiet \/ Pops
  BY <1>b, <1>l DEF BeginCancel
<1>1. CASE UNCHANGED vars
  BY <1>1 DEF vars
<1>2. ASSUME NEW c \in Calls, CoroEnds(c) \/ RunStep(c) PROVE Quiet \/ Pops \/ Ends
  <2>1. CASE Begin(c) \/ DropUnstarted(c) \/ CoroCancelled(c) \/ DrainInterrupted(c)
    BY <2>1 DEF Begin, DropUnstarted, CoroCancelled, DrainInterrupted
  <2>2. CASE CoroEnds(c) \/ AckReturns(c) \/ AckInterrupted(c) \/ DrainReturns(c)
    BY <2>2, <1>f DEF CoroEnds, AckReturns, AckInterrupted, DrainReturns
  <2>3. CASE CleanupReturns(c)
    BY <2>3, Names DEF CleanupReturns
  <2> QED
    BY <1>2, <2>1, <2>2, <2>3 DEF RunStep
<1>3. ASSUME NEW o \in Ops, OpStep(o) PROVE Quiet \/ Pops \/ Ends
  <2>1. CASE PublishCancel(o) \/ WaitTimesOut(o)
    BY <2>1 DEF PublishCancel, WaitTimesOut
  <2>2. CASE PublishFails(o) \/ WaitReturns(o) \/ ForcedReturns(o)
    <3>1. op[o].key \in Keys
      BY <2>2, Names DEF PublishFails, WaitReturns, ForcedReturns, TypeInv, OpsKnowTheirTask
    <3> QED
      BY <2>2, <3>1, <1>l DEF PublishFails, WaitReturns, ForcedReturns
  <2>3. CASE OpCleanupReturns(o)
    BY <2>3, Names DEF OpCleanupReturns
  <2> QED
    BY <1>3, <2>1, <2>2, <2>3 DEF OpStep
<1>4. CASE \/ \E i \in Ids, a \in Actions : SendSignal(i, a)
           \/ \E m \in wire : DispatchSignal(m)
           \/ Shutdown \/ StartSweep \/ ShutdownReturns
  BY <1>4 DEF SendSignal, DispatchSignal, Shutdown, StartSweep, ShutdownReturns
<1>5. ASSUME NEW o \in Cancellers, NEW k \in Keys, CancelTask(o, k) \/ CleanSession(o, k)
      PROVE  Quiet \/ Pops
  BY <1>5, <1>l, <1>b, Names DEF CancelTask, CleanSession
<1>6. CASE \/ \E i \in Ids : StartGathered(i)
           \/ \E k \in Keys : Sweep(k)
  BY <1>6, <1>l, <1>b, Names DEF StartGathered, Sweep
<1> QED
  BY <1>1, <1>2, <1>3, <1>4, <1>5, <1>6 DEF Next, ShutdownStep

(* The calls on their way in.                                              *)
LEMMA CountersAdmission ==
  ASSUME CountersInv, NEW c \in Calls, CreateTask(c) \/ AdmissionStep(c)
  PROVE  HoldersConsistent' /\ CountersExact'
<1> USE DEF CountersInv, TypeInv, AdmissionTyped, TableTyped, table, control
<1>1. CASE Register(c)
  <2>0. /\ pc[c] = "slot"
        /\ sessions[Id[c]] = NoOne
        /\ active' = active + 1
        /\ waiting' = IF MaxQueued > 0 THEN waiting - 1 ELSE waiting
        /\ pc' = [pc EXCEPT ![c] = "in"]
        /\ sessions' = [sessions EXCEPT ![Id[c]] = c]
        /\ UNCHANGED <<cleaner, conf>>
    BY <1>1 DEF Register
  <2>1. HoldersConsistent'
    BY <2>0, Names DEF HoldersConsistent
  <2>2. c \notin Holders /\ Holders' = Holders \cup {c} /\ Evicted' = Evicted
    BY <2>0, Names DEF HoldersConsistent, Holders, Evicted
  <2>3. c \in Queued /\ Queued' = Queued \ {c}
    BY <2>0 DEF Queued
  <2>4. /\ Cardinality(Holders') = Cardinality(Holders) + 1
        /\ Cardinality(Queued') = Cardinality(Queued) - 1
    BY <2>2, <2>3, FinitePopulations, CountIn, CountOut
  <2> QED
    BY <2>0, <2>1, <2>2, <2>4, FinitePopulations, Bounds DEF CountersExact, Queued
<1>2. CASE ~Register(c)
  <2>0. /\ pc[c] \in {"idle", "gate", "slot"}
        /\ UNCHANGED <<active, sessions, cleaner, conf>>
    BY <1>2 DEF AdmissionStep, CreateTask, EnterGate, RefuseAtGate, GiveUpSlot, RefuseDuplicate
  <2>1. PICK p \in {"gate", "slot", "refused"} :
          /\ pc' = [pc EXCEPT ![c] = p]
          /\ p = "gate" => MaxQueued > 0
    BY <1>2 DEF AdmissionStep, CreateTask, EnterGate, RefuseAtGate, GiveUpSlot, RefuseDuplicate
  <2>2. HoldersConsistent'
    BY <2>0, <2>1, Names DEF HoldersConsistent
  <2>3. Holders' = Holders /\ Evicted' = Evicted
    BY <2>0 DEF Holders, Evicted
  <2>4. MaxQueued > 0 => waiting' = Cardinality(Queued')
    <3>1. SUFFICES ASSUME MaxQueued > 0 PROVE waiting' = Cardinality(Queued')
      OBVIOUS
    <3>2. waiting = Cardinality(Queued)
      BY <3>1 DEF CountersExact, Queued
    <3>3. CASE CreateTask(c) \/ RefuseAtGate(c)
      <4>1. waiting' = waiting /\ Queued' = Queued
        BY <3>1, <3>3 DEF CreateTask, RefuseAtGate, Queued
      <4> QED
        BY <3>2, <4>1
    <3>4. CASE EnterGate(c)
      <4>1. waiting' = waiting + 1 /\ c \notin Queued /\ Queued' = Queued \cup {c}
        BY <3>4 DEF EnterGate, Queued
      <4> QED
        BY <3>2, <4>1, FinitePopulations, CountIn
    <3>5. CASE GiveUpSlot(c) \/ RefuseDuplicate(c)
      <4>1. waiting' = waiting - 1 /\ c \in Queued /\ Queued' = Queued \ {c}
        BY <3>1, <3>5 DEF GiveUpSlot, RefuseDuplicate, Queued
      <4> QED
        BY <3>2, <4>1, FinitePopulations, CountOut
    <3> QED
      BY <1>2, <3>3, <3>4, <3>5 DEF AdmissionStep
  <2> QED
    BY <2>0, <2>2, <2>3, <2>4 DEF CountersExact, Queued
<1> QED
  BY <1>1, <1>2

\* A config job enters and leaves the table without an admission.
LEMMA CountersConfig ==
  ASSUME CountersInv, NEW k \in ConfigJobs, StartConfig(k) \/ EndConfig(k)
  PROVE  HoldersConsistent' /\ CountersExact'
<1> USE DEF CountersInv, TypeInv, TableTyped, PhaseTyped, admission
<1>0. /\ UNCHANGED <<active, waiting, pc, cleaner>>
      /\ conf[k] \in {"new", "live"}
      /\ \E x \in {k, NoOne} : sessions' = [sessions EXCEPT ![k] = x]
      /\ \/ conf[k] = "new" /\ sessions' = [sessions EXCEPT ![k] = k] /\ conf' = [conf EXCEPT ![k] = "live"]
         \/ sessions[k] = k /\ sessions' = [sessions EXCEPT ![k] = NoOne] /\ conf' = [conf EXCEPT ![k] = "answered"]
  BY Names DEF StartConfig, EndConfig, HoldersConsistent
<1>1. HoldersConsistent'
  BY <1>0, Names DEF HoldersConsistent
<1>2. Holders' = Holders /\ Evicted' = Evicted
  BY <1>0, Names DEF Holders, Evicted
<1> QED
  BY <1>0, <1>1, <1>2 DEF CountersExact

\* Every step keeps the counters exact.
LEMMA CountersStep == CountersInv /\ [Next]_vars => CountersInv'
<1> SUFFICES ASSUME CountersInv, [Next]_vars PROVE CountersInv'
  OBVIOUS
<1>1. TypeInv /\ TypeInv'
  BY TypeStep DEF CountersInv
<1>2. CASE UNCHANGED <<sessions, cleaner, pc, conf, active, waiting>>
  BY <1>1, <1>2 DEF CountersInv, HoldersConsistent, CountersExact, Holders, Evicted
<1> QED
  BY <1>1, <1>2, StepKinds, EvictKeepsHolders, FinishReturnsOne, CountersAdmission, CountersConfig
     DEF CountersInv

(* _active_slots is the number of admissions out, _waiting_count the       *)
(* number of calls between gate and slot, whatever fails on the way.       *)
THEOREM CountersAlwaysExact == Spec => []CountersExact
<1>1. CountersInv => CountersExact
  BY DEF CountersInv
<1> QED
  BY <1>1, CountersInit, CountersStep, PTL DEF Spec

(* Where the slots are: semaphores and counters add up, and the counters   *)
(* count the admissions that are out and the calls in the queue.           *)
THEOREM SlotsAlwaysAccounted == Spec => []SlotsAccounted
<1>1. PermitsConserved /\ CountersExact => SlotsAccounted
  BY DEF SlotsAccounted
<1> QED
  BY <1>1, PermitsNeverLost, CountersAlwaysExact, PTL

----------------------------------------------------------------------------
(* The manager implements Admission                                        *)

(* Admission counts with the Cardinality it extends. *)
LEMMA SameCount == \A S : Queue!Cardinality(S) = Cardinality(S)
BY DEF Queue!Cardinality, Cardinality

\* What the abstract queue holds are the manager's holders and its queue.
LEMMA StandingPopulations ==
  ASSUME CountersInv
  PROVE  /\ Queue!Held = Holders
         /\ MaxQueued > 0 => Queue!Inside = Holders \cup Queued
         /\ Holders \cap Queued = {}
BY Names DEF CountersInv, HoldersConsistent, Queue!Held, Queue!Inside, Standing, Holders, Queued

\* The initial states of the manager are initial states of the queue.
LEMMA AdmissionInit == Init => Queue!Init
<1> SUFFICES ASSUME Init PROVE Queue!Init
  OBVIOUS
<1>1. /\ pc = [c \in Calls |-> "idle"]
      /\ sessions = [k \in Keys |-> NoOne]
      /\ cleaner = [x \in Owners |-> NoOne]
  BY DEF Init
<1> QED
  BY <1>1, Names DEF Queue!Init, Standing, Holders

\* Every step of the manager is a step of the queue or a stutter.
LEMMA AdmissionRefinement ==
  ASSUME ConfigJobs = {}, CountersInv, CountersInv', PermitsConserved, [Next]_vars
  PROVE  [Queue!Next]_Standing
<1> USE DEF CountersInv
<1>t. /\ pc \in [Calls -> {"idle", "gate", "slot", "in", "refused"}]
      /\ slot \in Int /\ active \in Int /\ gate \in Int /\ waiting \in Int
  BY DEF TypeInv, AdmissionTyped
<1>c. /\ active = Cardinality(Holders)
      /\ MaxQueued > 0 => waiting = Cardinality(Queued)
  <2>1. Evicted = {}
    BY DEF Evicted
  <2>2. active = Cardinality(Holders) - 0
    BY <2>1, FS_EmptySet DEF CountersExact
  <2> QED
    BY <2>2, FinitePopulations DEF CountersExact, Queued
<1>1. CASE UNCHANGED <<sessions, cleaner, pc, conf, active, waiting>>
  <2>1. Holders' = Holders
    BY <1>1 DEF Holders
  <2> QED
    BY <1>1, <2>1 DEF Standing
<1>2. ASSUME NEW k \in Keys, NEW a \in Agents, Evict(k, a), UNCHANGED <<active, waiting, pc, conf>>
      PROVE  Standing' = Standing
  BY <1>2, EvictKeepsHolders DEF Standing
<1>3. ASSUME NEW a \in Agents, FinishCleanup(a) PROVE Queue!Next
  <2>1. PICK c \in Holders : Holders' = Holders \ {c}
    BY <1>3, FinishReturnsOne
  <2>2. c \in Calls /\ pc[c] = "in" /\ pc' = pc
    BY <1>3, <2>1 DEF Holders, HoldersConsistent, FinishCleanup
  <2>3. Queue!Return(c)
    BY <2>1, <2>2 DEF Queue!Return, Queue!Move, Standing
  <2> QED
    BY <2>2, <2>3 DEF Queue!Next
<1>4. ASSUME NEW c \in Calls, CreateTask(c) \/ AdmissionStep(c) PROVE [Queue!Next]_Standing
  <2>0. pc[c] \in {"idle", "gate", "slot"} /\ c \notin Holders
    BY <1>4 DEF AdmissionStep, CreateTask, EnterGate, RefuseAtGate, GiveUpSlot, RefuseDuplicate,
                Register, HoldersConsistent, Holders
  <2>h. ASSUME UNCHANGED table PROVE Holders' = Holders
    BY <2>h DEF Holders, table
  <2>1. CASE CreateTask(c)
    <3>1. Standing' = Standing
      BY <1>t, <2>0, <2>1, <2>h DEF CreateTask, Standing
    <3> QED
      BY <3>1
  <2>2. CASE EnterGate(c)
    <3>1. MaxQueued > 0
      BY <2>2 DEF EnterGate, HoldersConsistent
    <3>2. Queue!Move(c, {"outside"}, "queued")
      BY <1>t, <2>0, <2>2, <2>h, <3>1 DEF EnterGate, Queue!Move, Standing
    <3>3. Cardinality(Queue!Inside) = Cardinality(Holders) + Cardinality(Queued)
      <4>1. Cardinality(Holders \cup Queued) =
              Cardinality(Holders) + Cardinality(Queued) - Cardinality(Holders \cap Queued)
        BY FinitePopulations, FS_Union
      <4>2. Cardinality(Holders \cap Queued) = 0
        BY StandingPopulations, FS_EmptySet
      <4> QED
        <5>1. Queue!Inside = Holders \cup Queued
          BY <3>1, StandingPopulations
        <5> QED
          BY <4>1, <4>2, <5>1, FinitePopulations
    <3>4. Cardinality(Queue!Inside) < MaxConc + MaxQueued
      BY <1>t, <1>c, <2>2, <3>1, <3>3, Bounds, FinitePopulations DEF EnterGate, PermitsConserved
    <3>5. Queue!Enter(c)
      BY <3>1, <3>2, <3>4, SameCount DEF Queue!Enter
    <3> QED
      BY <3>5 DEF Queue!Next
  <2>3. CASE RefuseAtGate(c) \/ GiveUpSlot(c) \/ RefuseDuplicate(c)
    <3>1. /\ pc' = [pc EXCEPT ![c] = "refused"]
          /\ UNCHANGED table
      BY <2>3 DEF RefuseAtGate, GiveUpSlot, RefuseDuplicate
    <3>2. Queue!TurnAway(c)
      BY <1>t, <2>0, <2>h, <3>1 DEF Queue!TurnAway, Queue!Move, Standing
    <3> QED
      BY <3>2 DEF Queue!Next
  <2>4. CASE Register(c)
    <3>1. pc[c] = "slot" /\ pc' = [pc EXCEPT ![c] = "in"] /\ Holders' = Holders \cup {c}
      BY <2>4, Names DEF Register, Holders, TypeInv, TableTyped
    <3>2. Queue!Move(c, IF MaxQueued > 0 THEN {"queued"} ELSE {"outside"}, "held")
      BY <1>t, <2>0, <3>1 DEF Queue!Move, Standing
    <3>3. Cardinality(Queue!Held) < MaxConc
      BY <1>t, <1>c, <2>4, Bounds, StandingPopulations, FinitePopulations DEF Register,
         PermitsConserved
    <3>4. Queue!Take(c)
      BY <3>2, <3>3, SameCount DEF Queue!Take
    <3> QED
      BY <3>4 DEF Queue!Next
  <2> QED
    BY <1>4, <2>1, <2>2, <2>3, <2>4 DEF AdmissionStep
<1> QED
  BY <1>1, <1>2, <1>3, <1>4, StepKinds

(* Without config-setup jobs, which share the table but take no slot, the  *)
(* manager never gives or returns a slot outside the rules of the queue.   *)
THEOREM ManagerImplementsAdmission ==
  ASSUME ConfigJobs = {}
  PROVE  Spec => ImplementsAdmission
<1>1. CountersInv /\ PermitsConserved /\ CountersInv' /\ [Next]_vars => [Queue!Next]_Standing
  BY AdmissionRefinement
<1>2. CountersInv => TypeInv
  BY DEF CountersInv
<1> QED
  BY <1>1, <1>2, AdmissionInit, CountersInit, CountersStep, PermitsInit, PermitsStep, PTL
     DEF Spec, Queue!Spec, ImplementsAdmission

----------------------------------------------------------------------------
(* The outcome of a session                                                *)

(* The task of call c leaves its handlers: it is past the point where its  *)
(* outcome is written.                                                     *)
Past == {"draining", "cleaning", "done"}

(* The outcome fields of a session, which signals do not touch.            *)
SameFate(c) ==
  /\ sess'[c].status = sess[c].status
  /\ sess'[c].reason = sess[c].reason
  /\ sess'[c].acked = sess[c].acked

\* Registering with the listener and taking a signal leave the outcome of a session.
LEMMA SessMarked ==
  ASSUME SessTyped, NEW c \in Calls, NEW d \in Calls,
         \/ UNCHANGED sess
         \/ sess' = [sess EXCEPT ![d].heard = TRUE]
         \/ \E a \in Actions : sess' = [sess EXCEPT ![d].pending = a]
  PROVE  SameFate(c)
<1>1. CASE UNCHANGED sess
  BY <1>1 DEF SameFate
<1>2. CASE sess' = [sess EXCEPT ![d].heard = TRUE]
  BY <1>2 DEF SameFate, SessTyped
<1>3. ASSUME NEW a \in Actions, sess' = [sess EXCEPT ![d].pending = a] PROVE SameFate(c)
  <2>1. sess' = [sess EXCEPT ![d] = [sess[d] EXCEPT !.pending = a]]
    BY <1>3
  <2>2. sess[d] \in [status : Statuses, reason : Reasons, pending : Actions \cup {""},
                    acked : {"", "ack_cancel", "ack_stop"}, heard : BOOLEAN]
    BY DEF SessTyped
  <2> QED
    BY <2>1, <2>2 DEF SameFate, SessTyped
<1> QED
  BY <1>1, <1>2, <1>3

\* Refining a reason changes that reason alone.
LEMMA SessRefined ==
  ASSUME SessTyped, NEW c \in Calls, NEW d \in Calls, NEW why \in Reasons,
         sess' = [sess EXCEPT ![d].reason = why]
  PROVE  /\ sess'[c].status = sess[c].status /\ sess'[c].acked = sess[c].acked
         /\ sess'[c].reason = IF c = d THEN why ELSE sess[c].reason
BY DEF SessTyped

\* An acknowledgement changes the acknowledgement alone.
LEMMA SessAcked ==
  ASSUME SessTyped, NEW c \in Calls, NEW e \in {"ack_cancel", "ack_stop"},
         sess' = [sess EXCEPT ![c].acked = e]
  PROVE  sess'[c].status = sess[c].status /\ sess'[c].acked = e /\ sess'[c].reason = sess[c].reason
BY DEF SessTyped

\* A cancelled session says so, and why.
LEMMA SessCancelled ==
  ASSUME SessTyped, NEW c \in Calls, NEW why \in Reasons,
         sess' = [sess EXCEPT ![c].pending = "", ![c].status = "cancelled", ![c].reason = why]
  PROVE  sess'[c].status = "cancelled" /\ sess'[c].acked = sess[c].acked /\ sess'[c].reason = why
BY DEF SessTyped

(* What one step may do to the fate of call c.                             *)
FateStep(c) ==
  \/ run'[c] = run[c] /\ pc'[c] # "in" /\ pc[c] # "in" /\ SameFate(c) 
  \/ run'[c] = run[c] /\ pc'[c] = pc[c] /\ SameFate(c) 
  \/ /\ run'[c] = run[c] /\ pc'[c] = pc[c]
     /\ sess[c].reason = "unknown" /\ sess'[c].reason \in {"shutdown", "timeout"}
     /\ sess'[c].status = sess[c].status /\ sess'[c].acked = sess[c].acked
  \/ pc[c] = "slot" /\ pc'[c] = "in" /\ run'[c] = "created" /\ SameFate(c)
  \/ /\ pc'[c] = pc[c]
     /\ \/ /\ run[c] = "created" /\ run'[c] = "running" /\ sess'[c].status = "running"
           /\ sess'[c].reason = sess[c].reason /\ sess'[c].acked = sess[c].acked
        \/ /\ run[c] \in {"created", "acking", "draining", "cleaning"} /\ run'[c] \in Past
           /\ run[c] = "cleaning" => run'[c] = "done"
           /\ SameFate(c)
        \/ /\ run[c] = "running" /\ run'[c] \in Past /\ sess'[c].acked = sess[c].acked
           /\ \/ sess'[c].status = "completed" /\ sess'[c].reason = "completed"
              \/ sess'[c].status = "failed" /\ sess'[c].reason = sess[c].reason
        \/ /\ run[c] = "running" /\ run'[c] = "acking" /\ sess'[c].acked = sess[c].acked
           /\ sess'[c].status = "cancelled"
           /\ \/ sess'[c].reason = "stop"
              \/ sess[c].reason = "unknown" /\ sess'[c].reason = "cancel"
              \/ sess[c].reason # "unknown" /\ sess'[c].reason = sess[c].reason
        \/ /\ run[c] = "acking" /\ run'[c] \in Past
           /\ sess'[c].acked = (IF sess[c].reason = "stop" THEN "ack_stop" ELSE "ack_cancel")
           /\ sess'[c].status = sess[c].status /\ sess'[c].reason = sess[c].reason

(* The finally of a task takes it past its handlers, and no other task.    *)
LEMMA FinallyRuns ==
  ASSUME TypeInv, NEW c \in Calls, Over(c) \/ Finalize(c) \/ Finally(c)
  PROVE  \E p \in Past : run' = [run EXCEPT ![c] = p]
BY DEF TypeInv, RunTyped, Over, Finalize, Finally, Past

\* An admission settles no fate.
LEMMA FateAdmission ==
  ASSUME TypeInv, NEW d \in Calls, CreateTask(d) \/ AdmissionStep(d), NEW c \in Calls
  PROVE  FateStep(c)
<1> USE DEF TypeInv, AdmissionTyped, RunTyped, executor
<1>1. CASE ~Register(d)
  <2>1. /\ pc[d] # "in"
        /\ \E p \in {"gate", "slot", "refused"} : pc' = [pc EXCEPT ![d] = p]
        /\ UNCHANGED <<run, sess>>
    BY <1>1 DEF AdmissionStep, CreateTask, EnterGate, RefuseAtGate, GiveUpSlot, RefuseDuplicate
  <2> QED
    BY <2>1 DEF FateStep, SameFate
<1>2. CASE Register(d)
  <2>1. /\ pc[d] = "slot" /\ pc' = [pc EXCEPT ![d] = "in"]
        /\ run' = [run EXCEPT ![d] = "created"]
        /\ sess' = [sess EXCEPT ![d].heard = TRUE] \/ sess' = sess
    BY <1>2 DEF Register
  <2>2. SameFate(c)
    BY <2>1, SessMarked
  <2> QED
    BY <2>1, <2>2 DEF FateStep
<1> QED
  BY <1>1, <1>2

\* A step of a task does to a fate what FateStep says, to its own or to none.
LEMMA FateRun ==
  ASSUME TypeInv, NEW d \in Calls, CoroEnds(d) \/ RunStep(d), NEW c \in Calls
  PROVE  FateStep(c)
<1> USE DEF TypeInv, AdmissionTyped, RunTyped, SessTyped, admission
<1>p. pc' = pc
  BY DEF RunStep, CoroEnds, Begin, DropUnstarted, CoroCancelled, AckReturns, AckInterrupted,
         DrainReturns, DrainInterrupted, CleanupReturns, FinishCleanup
<1>o. ASSUME c # d PROVE run'[c] = run[c] /\ SameFate(c)
  <2>1. CASE Begin(d)
    BY <1>o, <2>1 DEF Begin, SameFate
  <2>4. CASE CoroCancelled(d)
    <3>1. run'[c] = run[c]
      BY <1>o, <2>4 DEF CoroCancelled
    <3>2. PICK s : sess' = [sess EXCEPT ![d] = s]
      BY <2>4 DEF CoroCancelled
    <3> QED
      BY <1>o, <3>1, <3>2 DEF SameFate
  <2>2. CASE DropUnstarted(d) \/ AckInterrupted(d) \/ DrainReturns(d) \/ DrainInterrupted(d) \/ CleanupReturns(d)
    <3>1. sess' = sess
      BY <2>2 DEF DropUnstarted, AckInterrupted, DrainReturns, DrainInterrupted, CleanupReturns
    <3>2. \E p \in Past : run' = [run EXCEPT ![d] = p]
      BY <2>2, FinallyRuns DEF DropUnstarted, AckInterrupted, DrainReturns, DrainInterrupted,
         CleanupReturns
    <3> QED
      BY <1>o, <3>1, <3>2 DEF SameFate
  <2>3. CASE CoroEnds(d) \/ AckReturns(d)
    <3>1. PICK s : sess' = [sess EXCEPT ![d] = s]
      BY <2>3 DEF CoroEnds, AckReturns
    <3>2. run'[c] = run[c]
      BY <1>o, <2>3, FinallyRuns DEF CoroEnds, AckReturns
    <3> QED
      BY <1>o, <3>1, <3>2 DEF SameFate
  <2> QED
    BY <2>1, <2>2, <2>3, <2>4 DEF RunStep
<1>1. CASE c # d
  BY <1>p, <1>o, <1>1 DEF FateStep
<1>2. CASE c = d
  <2>1. CASE Begin(c)
    BY <1>p, <2>1 DEF Begin, FateStep
  <2>2. CASE DropUnstarted(c) \/ AckInterrupted(c) \/ DrainReturns(c) \/ DrainInterrupted(c) \/ CleanupReturns(c)
    <3>1. SameFate(c) /\ run[c] \in {"created", "acking", "draining", "cleaning"}
      BY <2>2 DEF DropUnstarted, AckInterrupted, DrainReturns, DrainInterrupted, CleanupReturns,
         SameFate
    <3>2. run'[c] \in Past
      BY <2>2, FinallyRuns DEF DropUnstarted, AckInterrupted, DrainReturns, DrainInterrupted,
         CleanupReturns
    <3>3. run[c] = "cleaning" => run'[c] = "done"
      BY <2>2 DEF DropUnstarted, AckInterrupted, DrainReturns, DrainInterrupted, CleanupReturns,
         Over
    <3> QED
      BY <1>p, <3>1, <3>2, <3>3 DEF FateStep
  <2>3. CASE CoroEnds(c)
    <3>1. run[c] = "running" /\ run'[c] \in Past
      BY <2>3, FinallyRuns DEF CoroEnds
    <3>2. /\ sess'[c].acked = sess[c].acked
          /\ \/ sess'[c].status = "completed" /\ sess'[c].reason = "completed"
             \/ sess'[c].status = "failed" /\ sess'[c].reason = sess[c].reason
      <4>0. c \in DOMAIN sess /\ {"status", "reason", "acked"} \subseteq DOMAIN sess[c]
        BY DEF TypeInv, SessTyped
      <4>1. CASE sess' = [sess EXCEPT ![c].status = "completed", ![c].reason = "completed"]
        BY <4>0, <4>1
      <4>2. CASE sess' = [sess EXCEPT ![c].status = "failed"]
        BY <4>0, <4>2
      <4> QED
        BY <2>3, <4>1, <4>2 DEF CoroEnds
    <3> QED
      BY <1>p, <3>1, <3>2 DEF FateStep
  <2>4. CASE CoroCancelled(c)
    <3> DEFINE why == IF sess[c].pending = "stop" THEN "stop"
                      ELSE IF sess[c].reason = "unknown" THEN "cancel" ELSE sess[c].reason
    <3>1. why \in Reasons
      BY DEF Reasons
    <3>2. /\ run[c] = "running" /\ run' = [run EXCEPT ![c] = "acking"]
          /\ sess' = [sess EXCEPT ![c].pending = "", ![c].status = "cancelled", ![c].reason = why]
      BY <2>4 DEF CoroCancelled
    <3> HIDE DEF why
    <3>3. sess'[c].status = "cancelled" /\ sess'[c].acked = sess[c].acked /\ sess'[c].reason = why
      BY <3>1, <3>2, SessCancelled
    <3>4. run'[c] = "acking"
      BY <3>2
    <3> QED
      BY <1>p, <3>2, <3>3, <3>4 DEF FateStep, why
  <2>5. CASE AckReturns(c)
    <3>1. run[c] = "acking" /\ run'[c] \in Past
      BY <2>5, FinallyRuns DEF AckReturns
    <3> DEFINE e == IF sess[c].reason = "stop" THEN "ack_stop" ELSE "ack_cancel"
    <3>2. /\ sess'[c].acked = e \/ sess'[c].acked = sess[c].acked
          /\ sess'[c].status = sess[c].status /\ sess'[c].reason = sess[c].reason
      <4>1. sess' = [sess EXCEPT ![c].acked = e] \/ sess' = sess
        BY <2>5 DEF AckReturns
      <4> QED
        BY <4>1, SessAcked
    <3> QED
      BY <1>p, <3>1, <3>2 DEF FateStep, SameFate
  <2> QED
    BY <1>2, <2>1, <2>2, <2>3, <2>4, <2>5 DEF RunStep
<1> QED
  BY <1>1, <1>2

(* Every other step leaves the tasks alone and at most marks a session     *)
(* whose outcome nobody decided yet.                                       *)
LEMMA FateOther ==
  ASSUME TypeInv, NEW c \in Calls,
         \/ UNCHANGED vars
         \/ \E i \in Ids, a \in Actions : SendSignal(i, a)
         \/ \E m \in wire : DispatchSignal(m)
         \/ \E o \in Cancellers, k \in Keys : CancelTask(o, k) \/ CleanSession(o, k)
         \/ \E o \in Ops : OpStep(o)
         \/ Shutdown \/ ShutdownStep
         \/ \E k \in ConfigJobs : StartConfig(k) \/ EndConfig(k)
  PROVE  FateStep(c)
<1> USE DEF TypeInv, SessTyped, RunTyped, SignalsTyped, vars, admission, executor
<1>1. pc' = pc /\ run' = run
  BY DEF SendSignal, DispatchSignal, CancelTask, CleanSession, BeginCancel, OpStep,
     PublishCancel, PublishFails,
         WaitReturns, WaitTimesOut, ForcedReturns, OpCleanupReturns, FinishCleanup, Shutdown, ShutdownStep, StartSweep,
         ShutdownReturns, StartGathered, Sweep, StartConfig, EndConfig
<1>2. CASE \E m \in wire : DispatchSignal(m)
  <2>1. PICK m \in wire : DispatchSignal(m)
    BY <1>2
  <2>2. refs[m.key] \in Calls \cup {NoOne} /\ m.action \in Actions
    OBVIOUS
  <2>3. \/ sess' = sess
        \/ refs[m.key] \in Calls /\ sess' = [sess EXCEPT ![refs[m.key]].pending = m.action]
    BY <2>1, <2>2 DEF DispatchSignal
  <2>4. SameFate(c)
    BY <2>2, <2>3, SessMarked
  <2> QED
    BY <1>1, <2>4 DEF FateStep
<1>3. CASE Shutdown
  BY <1>1, <1>3 DEF Shutdown, FateStep, SameFate
<1>4. CASE \E o \in Ops : ForcedReturns(o)
  <2>1. \/ sess' = sess
        \/ \E x \in Calls : sess[x].reason = "unknown" /\ sess' = [sess EXCEPT ![x].reason = "timeout"]
    BY <1>4 DEF ForcedReturns
  <2>2. \A x \in Calls : sess' = [sess EXCEPT ![x].reason = "timeout"] =>
          /\ sess'[c].status = sess[c].status /\ sess'[c].acked = sess[c].acked
          /\ sess'[c].reason = IF c = x THEN "timeout" ELSE sess[c].reason
    BY SessRefined DEF Reasons
  <2> QED
    BY <1>1, <2>1, <2>2 DEF FateStep, SameFate
<1>5. CASE UNCHANGED sess
  BY <1>1, <1>5 DEF FateStep, SameFate
<1> QED
  BY <1>2, <1>3, <1>4, <1>5
     DEF SendSignal, CancelTask, CleanSession, BeginCancel, OpStep, PublishCancel, PublishFails,
         WaitReturns, WaitTimesOut, OpCleanupReturns, ShutdownStep, StartSweep,
         ShutdownReturns, StartGathered, Sweep, StartConfig, EndConfig

\* So does every other step.
LEMMA FateSteps ==
  ASSUME TypeInv, [Next]_vars, NEW c \in Calls
  PROVE  FateStep(c)
BY FateAdmission, FateRun, FateOther DEF Next

(* What the session records at each point of the task's life: nothing is   *)
(* decided before the handlers, and a cancellation always has a reason.    *)
FateSettled(c) ==
  /\ pc[c] = "in" <=> run[c] # "none"
  /\ run[c] \in {"none", "created", "running"} =>
       /\ sess[c].status \in {"pending", "running"} /\ sess[c].acked = ""
       /\ sess[c].reason \in {"unknown", "shutdown", "timeout"}
  /\ run[c] = "acking" =>
       /\ sess[c].status = "cancelled" /\ sess[c].acked = ""
       /\ sess[c].reason \in {"cancel", "stop", "timeout", "shutdown"}
  /\ sess[c].status = "cancelled" => sess[c].reason # "unknown"

FatesSettled == \A c \in Calls : FateSettled(c)

FateInv == TypeInv /\ FatesSettled /\ AckAgreesWithOutcome

\* At the start no fate is settled.
LEMMA FateInit == Init => FateInv
<1> SUFFICES ASSUME Init PROVE FatesSettled /\ AckAgreesWithOutcome
  BY TypeInit DEF FateInv
<1> QED
  BY DEF Init, FatesSettled, FateSettled, AckAgreesWithOutcome

\* Fates stay settled, and an acknowledgement agrees with the outcome.
LEMMA FateKept == FateInv /\ [Next]_vars => FateInv'
<1> SUFFICES ASSUME FateInv, [Next]_vars PROVE FateInv'
  OBVIOUS
<1>1. TypeInv /\ FatesSettled /\ AckAgreesWithOutcome /\ TypeInv'
  BY TypeStep DEF FateInv
<1>2. FatesSettled'
  <2> SUFFICES ASSUME NEW c \in Calls PROVE FateSettled(c)'
    BY DEF FatesSettled
  <2>1. FateStep(c) /\ FateSettled(c)
    BY <1>1, FateSteps DEF FatesSettled
  <2> QED
    BY <2>1 DEF FateSettled, FateStep, SameFate, Past
<1>3. AckAgreesWithOutcome'
  <2> SUFFICES ASSUME NEW c \in Calls
               PROVE  /\ sess'[c].acked = "ack_stop" =>
                           sess'[c].status = "cancelled" /\ sess'[c].reason = "stop"
                      /\ sess'[c].acked = "ack_cancel" =>
                           /\ sess'[c].status = "cancelled"
                           /\ sess'[c].reason \in {"cancel", "timeout", "shutdown"}
    BY DEF AckAgreesWithOutcome
  <2>1. FateStep(c) /\ FateSettled(c)
    BY <1>1, FateSteps DEF FatesSettled
  <2> QED
    BY <1>1, <2>1 DEF AckAgreesWithOutcome, FateSettled, FateStep, SameFate, Past
<1> QED
  BY <1>1, <1>2, <1>3 DEF FateInv

(* What is acknowledged to the sender of a cancel or stop is what the      *)
(* session records, for ever.                                              *)
THEOREM AcksAgree == Spec => []AckAgreesWithOutcome
<1>1. FateInv => AckAgreesWithOutcome
  BY DEF FateInv
<1> QED
  BY <1>1, FateInit, FateKept, PTL DEF Spec

Final(c) ==
  sess[c].status \in {"completed", "failed", "cancelled"} =>
    /\ sess'[c].status = sess[c].status
    /\ sess'[c].reason = sess[c].reason \/ sess[c].reason = "unknown"

(* The outcome of a session is written once.                               *)
THEOREM OutcomesAreFinal == Spec => TerminalIsFinal
<1>1. ASSUME FateInv, [Next]_vars, NEW c \in Calls PROVE Final(c)
  <2>1. FateStep(c) /\ FateSettled(c)
    BY <1>1, FateSteps DEF FateInv, FatesSettled
  <2> QED
    BY <2>1 DEF FateSettled, FateStep, SameFate, Final
<1>2. FateInv /\ [Next]_vars => [\A c \in Calls : Final(c)]_vars
  BY <1>1
<1>3. [][\A c \in Calls : Final(c)]_vars => TerminalIsFinal
  BY DEF TerminalIsFinal, Final
<1> QED
  BY <1>2, <1>3, FateInit, FateKept, PTL DEF Spec

----------------------------------------------------------------------------
(* Signals reach the task                                                  *)

(* Every call of create_task comes with a task id of its own: what the     *)
(* idempotency claim of StartStream gives the gateway.                     *)
OneCallPerId == \A c, d \in Calls : Id[c] = Id[d] => c = d

(* What one step may do to the registration of call c with the listener.   *)
ListenStep(c) ==
  \/ /\ pc[c] = "slot" /\ run'[c] = "created"
     /\ sess'[c].heard => sess[c].heard \/ refs'[Id[c]] = c
  \/ (sess'[c].heard <=> sess[c].heard) /\ run'[c] = run[c] /\ refs'[Id[c]] = refs[Id[c]]
  \/ /\ (sess'[c].heard <=> sess[c].heard) /\ run[c] \in {"created", "running", "acking"}
     /\ run'[c] \in {"running", "acking", "draining"} /\ refs'[Id[c]] = refs[Id[c]]
  \/ (sess'[c].heard <=> sess[c].heard) /\ run[c] # "none" /\ run'[c] \in {"cleaning", "done"}

(* Only the registration with the listener writes that mark of a session.  *)
LEMMA HeardKept ==
  ASSUME SessTyped, [Next]_vars, NEW c \in Calls, ~Register(c)
  PROVE  sess'[c].heard <=> sess[c].heard
<1>1. ASSUME NEW d \in Calls, Begin(d) PROVE sess'[c].heard <=> sess[c].heard
  BY <1>1 DEF Begin, SessTyped
<1>2. ASSUME NEW d \in Calls, CoroEnds(d) PROVE sess'[c].heard <=> sess[c].heard
  <2>1. CASE sess' = [sess EXCEPT ![d].status = "completed", ![d].reason = "completed"]
    BY <2>1 DEF SessTyped
  <2>2. CASE sess' = [sess EXCEPT ![d].status = "failed"]
    BY <2>2 DEF SessTyped
  <2> QED
    BY <1>2, <2>1, <2>2 DEF CoroEnds
<1>3. ASSUME NEW d \in Calls, CoroCancelled(d) PROVE sess'[c].heard <=> sess[c].heard
  <2>1. PICK why : sess' = [sess EXCEPT ![d].pending = "", ![d].status = "cancelled", ![d].reason = why]
    BY <1>3 DEF CoroCancelled
  <2> QED
    BY <2>1 DEF SessTyped
<1>4. ASSUME NEW d \in Calls, AckReturns(d) PROVE sess'[c].heard <=> sess[c].heard
  <2>1. \/ sess' = sess
        \/ \E e \in {"ack_cancel", "ack_stop"} : sess' = [sess EXCEPT ![d].acked = e]
    BY <1>4 DEF AckReturns
  <2> QED
    BY <2>1 DEF SessTyped
<1>5. ASSUME NEW m \in wire, DispatchSignal(m) PROVE sess'[c].heard <=> sess[c].heard
  <2>1. sess' = sess \/ sess' = [sess EXCEPT ![refs[m.key]].pending = m.action]
    BY <1>5 DEF DispatchSignal
  <2> DEFINE x == refs[m.key]
  <2>2. CASE sess' = [sess EXCEPT ![x].pending = m.action]
    BY <2>2 DEF SessTyped
  <2> QED
    BY <2>1, <2>2
<1>6. ASSUME NEW o \in Ops, ForcedReturns(o) PROVE sess'[c].heard <=> sess[c].heard
  <2>1. \/ sess' = sess
        \/ \E x \in Calls : sess' = [sess EXCEPT ![x].reason = "timeout"]
    BY <1>6 DEF ForcedReturns
  <2> QED
    BY <2>1 DEF SessTyped
<1>7. CASE Shutdown
  BY <1>7 DEF Shutdown, SessTyped
<1>8. ASSUME NEW d \in Calls, Register(d) PROVE sess'[c].heard <=> sess[c].heard
  BY <1>8 DEF Register, SessTyped
<1>9. CASE UNCHANGED sess
  BY <1>9
<1> QED
  BY <1>1, <1>2, <1>3, <1>4, <1>5, <1>6, <1>7, <1>8, <1>9
     DEF Next, vars, executor, AdmissionStep, CreateTask, EnterGate, RefuseAtGate, GiveUpSlot, RefuseDuplicate,
         RunStep, DropUnstarted, AckInterrupted, DrainReturns, DrainInterrupted, CleanupReturns,
         SendSignal, CancelTask, CleanSession, BeginCancel, OpStep, PublishCancel, PublishFails,
         WaitReturns, WaitTimesOut, OpCleanupReturns, ShutdownStep, StartSweep,
         ShutdownReturns, StartGathered, Sweep, StartConfig, EndConfig

\* With one call per id, every step is one of these for every call.
LEMMA ListenSteps ==
  ASSUME OneCallPerId, TypeInv, [Next]_vars, NEW c \in Calls
  PROVE  ListenStep(c)
<1> USE DEF TypeInv, RunTyped
<1>o. ASSUME NEW d \in Calls, Over(d) PROVE /\ run' = [run EXCEPT ![d] = "done"]
                                            /\ c # d => refs'[Id[c]] = refs[Id[c]]
  BY <1>o, Names DEF Over, OneCallPerId
<1>f. ASSUME NEW d \in Calls, Finally(d) \/ Finalize(d)
      PROVE  \/ run' = [run EXCEPT ![d] = "draining"] /\ refs' = refs
             \/ /\ \E p \in {"cleaning", "done"} : run' = [run EXCEPT ![d] = p]
                /\ c # d => refs'[Id[c]] = refs[Id[c]]
  BY <1>f, <1>o DEF Finally, Finalize
<1>1. CASE Register(c)
  <2>1. /\ pc[c] = "slot" /\ run'[c] = "created"
        /\ sess' = sess \/ refs'[Id[c]] = c
    BY <1>1, Names DEF Register
  <2> QED
    BY <2>1 DEF ListenStep
<1>h. ~Register(c) => (sess'[c].heard <=> sess[c].heard)
  BY HeardKept
<1> SUFFICES ASSUME ~Register(c), (sess'[c].heard <=> sess[c].heard) PROVE ListenStep(c)
  BY <1>1, <1>h
<1>2. ASSUME NEW d \in Calls, d # c, Register(d) PROVE ListenStep(c)
  BY <1>2, Names DEF Register, ListenStep, OneCallPerId
<1>3. ASSUME NEW d \in Calls, Begin(d) \/ CoroCancelled(d) PROVE ListenStep(c)
  BY <1>3 DEF Begin, CoroCancelled, ListenStep
<1>4. ASSUME NEW d \in Calls, DropUnstarted(d) \/ DrainInterrupted(d) \/ CleanupReturns(d) PROVE ListenStep(c)
  <2>1. Over(d) /\ run[d] # "none"
    BY <1>4 DEF DropUnstarted, DrainInterrupted, CleanupReturns
  <2> QED
    BY <1>o, <2>1 DEF ListenStep
<1>5. ASSUME NEW d \in Calls, CoroEnds(d) \/ AckReturns(d) \/ AckInterrupted(d) \/ DrainReturns(d) PROVE ListenStep(c)
  <2>1. \/ run[d] \in {"running", "acking"} /\ Finally(d)
        \/ run[d] = "draining" /\ Finalize(d)
    BY <1>5 DEF CoroEnds, AckReturns, AckInterrupted, DrainReturns
  <2> QED
    BY <1>f, <2>1 DEF ListenStep
<1>6. CASE UNCHANGED <<run, refs>>
  BY <1>6 DEF ListenStep
<1> QED
  BY <1>2, <1>3, <1>4, <1>5, <1>6
     DEF Next, vars, executor, AdmissionStep, CreateTask, EnterGate, RefuseAtGate, GiveUpSlot, RefuseDuplicate,
         RunStep, SendSignal, DispatchSignal, CancelTask, CleanSession, BeginCancel, OpStep, PublishCancel, PublishFails,
         WaitReturns, WaitTimesOut, ForcedReturns, OpCleanupReturns, Shutdown, ShutdownStep, StartSweep,
         ShutdownReturns, StartGathered, Sweep, StartConfig, EndConfig

Unheard == \A c \in Calls : run[c] = "none" => ~sess[c].heard

\* A task that registered stays registered until it is over.
LEMMA ListenKept ==
  ASSUME OneCallPerId
  PROVE  FateInv /\ Unheard /\ SignalsReachTask /\ [Next]_vars => Unheard' /\ SignalsReachTask'
<1> SUFFICES ASSUME FateInv, Unheard, SignalsReachTask, [Next]_vars, NEW c \in Calls
             PROVE  /\ run'[c] = "none" => ~sess'[c].heard
                    /\ c \in Executing' /\ sess'[c].heard => refs'[Id[c]] = c
  BY DEF Unheard, SignalsReachTask, Executing
<1>1. ListenStep(c)
  BY ListenSteps DEF FateInv
<1>2. pc[c] = "slot" => run[c] = "none"
  BY DEF FateInv, FatesSettled, FateSettled
<1> QED
  BY <1>1, <1>2 DEF ListenStep, Unheard, SignalsReachTask, Executing

(* A signal for a task that executes and is registered with the listener   *)
(* finds it, when no two calls share a task id.                            *)
THEOREM SignalsAlwaysReach ==
  ASSUME OneCallPerId
  PROVE  Spec => []SignalsReachTask
<1>1. Init => Unheard /\ SignalsReachTask
  <2> SUFFICES ASSUME Init, NEW c \in Calls PROVE run[c] = "none" /\ ~sess[c].heard
    BY DEF Unheard, SignalsReachTask, Executing
  <2> QED
    BY DEF Init
<1>2. FateInv /\ Unheard /\ SignalsReachTask /\ [Next]_vars => Unheard' /\ SignalsReachTask'
  BY ListenKept
<1> QED
  BY <1>1, <1>2, FateInit, FateKept, PTL DEF Spec

----------------------------------------------------------------------------
(* What a step may be, for the proofs about tasks, sessions and operations *)

(* What neither a task nor an operation on it touches. *)
Elsewhere == <<pc, wire, budget, sd>>

(* A task moves on between its start and its finally. *)
Moves(c) ==
  /\ run[c] \in {"created", "running", "acking"}
  /\ \E p \in {"running", "acking", "draining"} : run' = [run EXCEPT ![c] = p]
  /\ \E b \in BOOLEAN : cancelReq' = [cancelReq EXCEPT ![c] = cancelReq[c] /\ b]
  /\ UNCHANGED <<table, refs, op, Elsewhere>>

(* A cancelled task ends without its on_finalize. *)
Dies(c) ==
  /\ run[c] \in {"created", "draining"}
  /\ cancelReq[c]
  /\ Over(c)
  /\ cancelReq' = [cancelReq EXCEPT ![c] = FALSE]
  /\ UNCHANGED <<table, op, Elsewhere>>

(* A task reaches its on_finalize. *)
Finalizes(c) ==
  /\ run[c] \in {"running", "acking", "draining"}
  /\ Finalize(c)
  /\ \E b \in BOOLEAN : cancelReq' = [cancelReq EXCEPT ![c] = cancelReq[c] /\ b]
  /\ UNCHANGED <<op, Elsewhere>>

\* A step of a task is one of four kinds.
LEMMA RunKinds ==
  ASSUME TypeInv, NEW c \in Calls, CoroEnds(c) \/ RunStep(c)
  PROVE  Moves(c) \/ Dies(c) \/ Finalizes(c) \/ CleanupReturns(c)
<1> USE DEF Elsewhere, admission, control, signals
<1>k. UNCHANGED cancelReq => \E b \in BOOLEAN : cancelReq' = [cancelReq EXCEPT ![c] = cancelReq[c] /\ b]
  <2>1. cancelReq = [cancelReq EXCEPT ![c] = cancelReq[c] /\ TRUE]
    BY DEF TypeInv, RunTyped
  <2> QED
    BY <2>1
<1>r. cancelReq' = [cancelReq EXCEPT ![c] = FALSE] =>
        \E b \in BOOLEAN : cancelReq' = [cancelReq EXCEPT ![c] = cancelReq[c] /\ b]
  OBVIOUS
<1>1. CASE Begin(c) \/ CoroCancelled(c)
  <2>1. \/ UNCHANGED cancelReq
        \/ cancelReq' = [cancelReq EXCEPT ![c] = FALSE]
    BY <1>1 DEF Begin, CoroCancelled
  <2> QED
    BY <1>1, <1>k, <1>r, <2>1 DEF Begin, CoroCancelled, Moves
<1>2. CASE DropUnstarted(c) \/ DrainInterrupted(c)
  BY <1>2 DEF DropUnstarted, DrainInterrupted, Dies
<1>3. CASE CoroEnds(c) \/ AckReturns(c) \/ AckInterrupted(c)
  <2>1. /\ run[c] \in {"running", "acking"} /\ Finally(c)
        /\ UNCHANGED <<op, Elsewhere>>
        /\ UNCHANGED cancelReq \/ cancelReq' = [cancelReq EXCEPT ![c] = FALSE]
    BY <1>3 DEF CoroEnds, AckReturns, AckInterrupted
  <2> QED
    BY <1>k, <1>r, <2>1 DEF Finally, Moves, Finalizes
<1>4. CASE DrainReturns(c)
  BY <1>4, <1>r DEF DrainReturns, Finalizes
<1> QED
  BY <1>1, <1>2, <1>3, <1>4 DEF RunStep

(* An operation starts by itself, or shutdown() has created it. *)
Begins(o) == op[o].pc = "start" \/ (op[o].pc = "idle" /\ o \in Cancellers)

(* Why operation o may pop what stands under k. *)
Cause(o, k, ok) ==
  \/ Begins(o) /\ (tasks[k] = NoOne \/ run[tasks[k]] = "done")
  \/ op[o].pc = "signal" /\ k = op[o].key /\ ~ok /\ SignalFaults
  \/ op[o].pc \in {"wait", "forced"} /\ k = op[o].key /\ run[op[o].call] = "done"
  \/ op[o].pc = "sweep"

Pops(o, k, ok) ==
  /\ Leave(o, k, ok)
  /\ Cause(o, k, ok)
  /\ UNCHANGED <<run, cancelReq, refs, Elsewhere>>

(* Operation o finds a task under k and is about to cancel it. *)
Opens(o, k) ==
  /\ Begins(o)
  /\ tasks[k] # NoOne
  /\ op' = [op EXCEPT ![o] = [pc |-> "signal", key |-> k, call |-> tasks[k], ok |-> TRUE]]
  /\ UNCHANGED <<table, run, cancelReq, refs, Elsewhere>>

(* One step of operation o. *)
Operates(o) ==
  \/ \E k \in Keys, ok \in BOOLEAN : Pops(o, k, ok)
  \/ \E k \in Keys : Opens(o, k)
  \/ PublishCancel(o) \/ WaitTimesOut(o) \/ OpCleanupReturns(o)

\* A step of an operation, or one that starts it, is a step of an operation.
LEMMA OpKinds ==
  ASSUME TypeInv,
         \/ \E o \in Ops : OpStep(o)
         \/ \E o \in Cancellers, k \in Keys : CancelTask(o, k) \/ CleanSession(o, k)
         \/ \E i \in Ids : StartGathered(i)
         \/ \E k \in Keys : Sweep(k)
  PROVE  \E o \in Ops : Operates(o)
<1> USE DEF Elsewhere, admission, executor, control, signals
<1>b. ASSUME NEW o \in Ops, NEW k \in Keys, Begins(o), BeginCancel(o, k)
      PROVE  Pops(o, k, TRUE) \/ Opens(o, k)
  BY <1>b DEF BeginCancel, Pops, Cause, Opens
<1>1. ASSUME NEW o \in Ops, OpStep(o) PROVE
         \/ \E k \in Keys, ok \in BOOLEAN : Pops(o, k, ok)
         \/ PublishCancel(o) \/ WaitTimesOut(o) \/ OpCleanupReturns(o)
  <2>k. op[o].pc \in {"signal", "wait", "forced"} => op[o].key \in Keys
    BY Names DEF TypeInv, OpsKnowTheirTask
  <2>1. CASE PublishFails(o)
    <3>1. Pops(o, op[o].key, FALSE) /\ op[o].key \in Keys
      BY <2>1, <2>k DEF PublishFails, Pops, Cause
    <3> QED
      BY <3>1
  <2>2. CASE WaitReturns(o)
    <3>1. Pops(o, op[o].key, ~aborted[op[o].call]) /\ op[o].key \in Keys
      BY <2>2, <2>k DEF WaitReturns, Pops, Cause
    <3> QED
      BY <3>1
  <2>3. CASE ForcedReturns(o)
    <3>1. Pops(o, op[o].key, TRUE) /\ op[o].key \in Keys
      BY <2>3, <2>k DEF ForcedReturns, Pops, Cause
    <3> QED
      BY <3>1
  <2> QED
    BY <1>1, <2>1, <2>2, <2>3 DEF OpStep
<1>2. ASSUME NEW o \in Cancellers, NEW k \in Keys, CancelTask(o, k) \/ CleanSession(o, k)
      PROVE  Pops(o, k, TRUE) \/ Opens(o, k)
  <2>1. CASE CancelTask(o, k)
    BY <2>1, <1>b, Names DEF CancelTask, Begins
  <2>2. CASE CleanSession(o, k)
    BY <2>2, <1>b, Names DEF CleanSession, Pops, Cause, Begins
  <2> QED
    BY <1>2, <2>1, <2>2
<1>3. ASSUME NEW i \in Ids, StartGathered(i) PROVE Pops(i, i, TRUE) \/ Opens(i, i)
  <2>1. Begins(i) /\ BeginCancel(i, i) /\ i \in Ops /\ i \in Keys
    BY <1>3, Names DEF StartGathered, Begins
  <2> QED
    BY <2>1, <1>b
<1>4. ASSUME NEW k \in Keys, Sweep(k) PROVE Pops(k, k, TRUE)
  BY <1>4, Names DEF Sweep, Pops, Cause
<1> QED
  BY <1>1, <1>2, <1>3, <1>4, Names DEF Operates

(* The steps that concern no task and no operation.                        *)
Aside ==
  UNCHANGED <<tasks, cleaner, run, cancelReq, refs, op, wire, sd>>

\* Every step of the system, by what it does to the tables and the tasks.
LEMMA TaskSteps ==
  ASSUME TypeInv, [Next]_vars
  PROVE  \/ /\ Aside /\ UNCHANGED <<pc, budget>> 
            /\ \/ UNCHANGED sessions
               \/ \E k \in ConfigJobs : StartConfig(k) \/ EndConfig(k)
         \/ \E c \in Calls, p \in {"gate", "slot", "refused"} :
               pc[c] # "in" /\ pc' = [pc EXCEPT ![c] = p] /\ Aside /\ UNCHANGED <<sessions, budget>>
         \/ \E c \in Calls : \/ Register(c) \/ CleanupReturns(c)
                             \/ Moves(c) \/ Dies(c) \/ Finalizes(c)
         \/ \E i \in Ids, a \in Actions : SendSignal(i, a)
         \/ \E m \in wire : DispatchSignal(m)
         \/ \E o \in Ops : Operates(o)
         \/ Shutdown \/ StartSweep \/ ShutdownReturns
<1> USE DEF admission, table, executor, control, signals
<1>1. CASE UNCHANGED vars
  BY <1>1 DEF vars, Aside
<1>2. ASSUME NEW c \in Calls, CreateTask(c) \/ AdmissionStep(c), ~Register(c)
      PROVE  \E p \in {"gate", "slot", "refused"} :
               pc[c] # "in" /\ pc' = [pc EXCEPT ![c] = p] /\ Aside /\ UNCHANGED <<sessions, budget>>
  BY <1>2 DEF AdmissionStep, CreateTask, EnterGate, RefuseAtGate, GiveUpSlot, RefuseDuplicate,
     Aside
<1>3. ASSUME NEW k \in ConfigJobs, StartConfig(k) \/ EndConfig(k)
      PROVE  Aside /\ UNCHANGED <<pc, budget>>
  BY <1>3 DEF StartConfig, EndConfig, Aside
<1> QED
  BY <1>1, <1>2, <1>3, RunKinds, OpKinds DEF Next, ShutdownStep

----------------------------------------------------------------------------
(* The tables and the operations on them                                   *)

(* tasks_sessions and tasks go together, the listener knows admitted calls *)
(* under their own id, and only an admitted call can be cancelled.         *)
TablesAgree ==
  /\ \A k \in Ids : sessions[k] = tasks[k]
  /\ \A i \in Ids : refs[i] # NoOne => Id[refs[i]] = i /\ pc[refs[i]] = "in"
  /\ \A c \in Calls : cancelReq[c] => pc[c] = "in"

(* An operation waits for the call that stood under its key when it began; *)
(* one that says it succeeded for that call left it over and popped.       *)
OpSound(o) ==
  /\ op[o].pc \in {"signal", "wait", "forced"} =>
       Id[op[o].call] = op[o].key /\ pc[op[o].call] = "in"
  /\ op[o].pc \in {"idle", "start", "sweep"} => op[o].call = NoOne
  /\ op[o].pc \in {"cleaning", "done"} /\ op[o].ok /\ op[o].call # NoOne =>
       run[op[o].call] = "done" /\ sessions[Id[op[o].call]] # op[o].call
  /\ sd = "idle" /\ o \in Keys => op[o].pc = "idle"

(* An operation is at one cleanup at a time.                               *)
CleanersApart ==
  /\ \A x \in Owners : cleaner[x] \in Ops => op[cleaner[x]].pc = "cleaning"
  /\ \A x, y \in Owners : cleaner[x] \in Ops /\ cleaner[x] = cleaner[y] => x = y

OpInv ==
  CountersInv /\ FateInv /\ TablesAgree /\ CleanersApart /\ \A o \in Ops : OpSound(o)

\* At the start there are no operations and nothing in the tables.
LEMMA OpInit == Init => OpInv
<1> SUFFICES ASSUME Init PROVE TablesAgree /\ CleanersApart /\ \A o \in Ops : OpSound(o)
  BY FateInit, CountersInit DEF OpInv
<1>1. TablesAgree
  BY Names DEF Init, TablesAgree
<1>2. CleanersApart
  <2>1. \A x \in Owners : cleaner[x] = NoOne
    BY DEF Init
  <2> QED
    BY <2>1, Names DEF CleanersApart
<1>3. ASSUME NEW o \in Ops PROVE OpSound(o)
  <2>1. op[o].pc = "idle" /\ op[o].call = NoOne
    BY DEF Init
  <2> QED
    BY <2>1 DEF OpSound
<1> QED
  BY <1>1, <1>2, <1>3

(* What an operation writes about itself.                                  *)
LEMMA LeaveEffect ==
  ASSUME OpTyped, NEW o \in Ops, NEW k \in Keys, NEW ok \in BOOLEAN, Leave(o, k, ok)
  PROVE  /\ op'[o].pc = IF sessions[k] = NoOne THEN "done" ELSE "cleaning"
         /\ op'[o].key = k /\ op'[o].call = op[o].call /\ (op'[o].ok <=> ok)
         /\ \A q \in Ops \ {o} : op'[q] = op[q]
<1>1. op[o] \in OpRecords
  BY DEF OpTyped, OpRecords
<1>2. PICK p \in {"done", "cleaning"} :
        /\ op' = [op EXCEPT ![o] = [@ EXCEPT !.pc = p, !.key = k, !.ok = ok]]
        /\ p = IF sessions[k] = NoOne THEN "done" ELSE "cleaning"
  BY DEF Leave
<1>3. [op[o] EXCEPT !.pc = p, !.key = k, !.ok = ok].ok <=> ok
  BY <1>1 DEF OpRecords
<1>4. op'[o] = [op[o] EXCEPT !.pc = p, !.key = k, !.ok = ok]
  BY <1>2 DEF OpTyped
<1> QED
  BY <1>1, <1>2, <1>3, <1>4 DEF OpTyped, OpRecords

\* An operation that moves on changes nothing else of itself, and no other one.
LEMMA SetOpEffect ==
  ASSUME OpTyped, NEW o \in Ops, NEW p, SetOp(o, p)
  PROVE  /\ op'[o].pc = p /\ op'[o].key = op[o].key /\ op'[o].call = op[o].call
         /\ (op'[o].ok <=> op[o].ok)
         /\ \A q \in Ops \ {o} : op'[q] = op[q]
<1>1. op[o] \in OpRecords
  BY DEF OpTyped, OpRecords
<1>2. op'[o] = [op[o] EXCEPT !.pc = p]
  BY DEF SetOp, OpTyped
<1>3. [op[o] EXCEPT !.pc = p].ok <=> op[o].ok
  BY <1>1 DEF OpRecords
<1> QED
  BY <1>1, <1>2, <1>3 DEF OpTyped, OpRecords, SetOp

(* The sessions an eviction leaves in the tables and at the cleaners.      *)
LEMMA EvictEffect ==
  ASSUME TableTyped, NEW k \in Keys, NEW a \in Agents, Evict(k, a)
  PROVE  /\ sessions'[k] = NoOne /\ tasks'[k] = NoOne
         /\ \A j \in Keys \ {k} : sessions'[j] = sessions[j] /\ tasks'[j] = tasks[j]
         /\ \A x \in Owners : cleaner'[x] = IF x = sessions[k] THEN a ELSE cleaner[x]
BY Names, ConstantsOK DEF TableTyped, Evict, ConstantsOK

\* Both tables are written together, so they agree.
LEMMA TablesKept ==
  ASSUME OpInv, [Next]_vars
  PROVE  TablesAgree'
<1> USE DEF OpInv, TablesAgree
<1>t. TypeInv /\ TableTyped /\ RunTyped /\ AdmissionTyped /\ OpTyped
  BY DEF CountersInv, TypeInv
<1>o. ASSUME NEW c \in Calls, Over(c), pc' = pc
      PROVE  \A i \in Ids : refs'[i] # NoOne => Id[refs'[i]] = i /\ pc'[refs'[i]] = "in"
  BY <1>o, <1>t DEF Over, RunTyped
<1>e. ASSUME NEW k \in Keys, NEW a \in Agents, Evict(k, a)
      PROVE  \A j \in Ids : sessions'[j] = tasks'[j]
  BY <1>e, <1>t, EvictEffect, Names
<1>r. ASSUME NEW c \in Calls, NEW b \in BOOLEAN, cancelReq' = [cancelReq EXCEPT ![c] = cancelReq[c] /\ b], pc' = pc
      PROVE  \A d \in Calls : cancelReq'[d] => pc'[d] = "in"
  BY <1>r, <1>t DEF RunTyped
<1>1. ASSUME Aside, sessions' = sessions \/ \E k \in ConfigJobs : StartConfig(k) \/ EndConfig(k), pc' = pc
      PROVE  TablesAgree'
  <2>1. \A k \in Ids : sessions'[k] = sessions[k]
    <3>1. ASSUME NEW j \in ConfigJobs, StartConfig(j) \/ EndConfig(j), NEW k \in Ids
          PROVE  sessions'[k] = sessions[k]
      <4>1. k # j /\ k \in Keys
        BY Names
      <4> QED
        BY <1>t, <3>1, <4>1 DEF StartConfig, EndConfig, TableTyped
    <3> QED
      BY <1>1, <3>1
  <2> QED
    BY <1>1, <2>1 DEF Aside
<1>2. ASSUME NEW c \in Calls, NEW p, pc[c] # "in", pc' = [pc EXCEPT ![c] = p], Aside, sessions' = sessions
      PROVE  TablesAgree'
  BY <1>2, <1>t DEF Aside, AdmissionTyped, RunTyped
<1>3. ASSUME NEW c \in Calls, Register(c) PROVE TablesAgree'
  BY <1>3, <1>t, Names DEF Register, AdmissionTyped, TableTyped, RunTyped
<1>4. ASSUME NEW c \in Calls, CleanupReturns(c) PROVE TablesAgree'
  <2>1. pc' = pc /\ sessions' = sessions /\ tasks' = tasks
    BY <1>4 DEF CleanupReturns, FinishCleanup
  <2>2. Over(c) /\ cancelReq' = [cancelReq EXCEPT ![c] = cancelReq[c] /\ FALSE]
    BY <1>4 DEF CleanupReturns
  <2> QED
    BY <1>o, <1>r, <2>1, <2>2
<1>5. ASSUME NEW c \in Calls, Moves(c) \/ Dies(c) PROVE TablesAgree'
  <2>1. pc' = pc /\ sessions' = sessions /\ tasks' = tasks
    BY <1>5 DEF Moves, Dies, table, Elsewhere
  <2>2. \E b \in BOOLEAN : cancelReq' = [cancelReq EXCEPT ![c] = cancelReq[c] /\ b]
    BY <1>5 DEF Moves, Dies
  <2>3. refs' = refs \/ Over(c)
    BY <1>5 DEF Moves, Dies
  <2> QED
    BY <1>o, <1>r, <2>1, <2>2, <2>3
<1>6. ASSUME NEW c \in Calls, Finalizes(c) PROVE TablesAgree'
  <2>1. pc' = pc /\ Evict(Id[c], c) /\ (refs' = refs \/ Over(c))
    BY <1>6 DEF Finalizes, Finalize, Elsewhere
  <2>2. \E b \in BOOLEAN : cancelReq' = [cancelReq EXCEPT ![c] = cancelReq[c] /\ b]
    BY <1>6 DEF Finalizes
  <2> QED
    BY <1>o, <1>r, <1>e, <2>1, <2>2, Names
<1>7. ASSUME NEW i \in Ids, NEW a \in Actions, SendSignal(i, a) PROVE TablesAgree'
  BY <1>7 DEF SendSignal, admission, table, executor
<1>8. ASSUME NEW m \in wire, DispatchSignal(m) PROVE TablesAgree'
  <2>1. m.key \in Ids
    BY <1>t DEF TypeInv, SignalsTyped
  <2>2. /\ UNCHANGED <<pc, sessions, tasks, refs>>
        /\ \/ cancelReq' = cancelReq
           \/ refs[m.key] # NoOne /\ cancelReq' = [cancelReq EXCEPT ![refs[m.key]] = TRUE]
    BY <1>8 DEF DispatchSignal, admission, table
  <2>3. refs[m.key] # NoOne => pc[refs[m.key]] = "in"
    BY <2>1
  <2> QED
    BY <1>t, <2>2, <2>3 DEF RunTyped
<1>9. ASSUME NEW o \in Ops, NEW k \in Keys, NEW ok \in BOOLEAN, Pops(o, k, ok) PROVE TablesAgree'
  <2>1. Evict(k, o) /\ pc' = pc /\ cancelReq' = cancelReq /\ refs' = refs
    BY <1>9 DEF Pops, Leave, Elsewhere
  <2> QED
    BY <1>e, <2>1, Names
<1>10. ASSUME NEW o \in Ops, WaitTimesOut(o) PROVE TablesAgree'
  <2>1. OpSound(o) /\ op[o].call \in Calls
    BY <1>10, <1>t DEF WaitTimesOut, TypeInv, OpsKnowTheirTask
  <2> QED
    BY <1>10, <1>t, <2>1 DEF WaitTimesOut, RunTyped, OpSound, admission, table
<1>11. ASSUME NEW o \in Ops, OpCleanupReturns(o) PROVE TablesAgree'
  BY <1>11 DEF OpCleanupReturns, FinishCleanup, executor
<1>12. ASSUME NEW o \in Ops, \/ \E k \in Keys : Opens(o, k)
                             \/ PublishCancel(o)
       PROVE TablesAgree'
  BY <1>12 DEF Opens, PublishCancel, Elsewhere, admission, table, executor
<1>13. CASE Shutdown \/ StartSweep \/ ShutdownReturns
  BY <1>13 DEF Shutdown, StartSweep, ShutdownReturns, admission, table, executor
<1> QED
  BY <1>t, TaskSteps, <1>1, <1>2, <1>3, <1>4, <1>5, <1>6, <1>7, <1>8, <1>9, <1>10, <1>11, <1>12,
     <1>13 DEF Operates

(* The end of a task's life: nothing un-ends a task, and nothing puts an   *)
(* admitted call's session back.                                           *)
LEMMA DoneForever ==
  ASSUME OpInv, [Next]_vars, NEW c \in Calls
  PROVE  /\ run[c] = "done" => run'[c] = "done"
         /\ pc[c] = "in" => pc'[c] = "in"
         /\ pc[c] = "in" /\ sessions[Id[c]] # c => sessions'[Id[c]] # c
<1>t. TypeInv /\ TableTyped /\ RunTyped /\ AdmissionTyped
  BY DEF OpInv, CountersInv, TypeInv
<1>1. FateStep(c) /\ FateSettled(c)
  BY <1>t, FateSteps DEF OpInv, FateInv, FatesSettled
<1>2. /\ run[c] = "done" => run'[c] = "done"
      /\ pc[c] = "in" => pc'[c] = "in"
  BY <1>1 DEF FateStep, FateSettled
<1>3. ASSUME pc[c] = "in", sessions[Id[c]] # c PROVE sessions'[Id[c]] # c
  <2>1. CASE UNCHANGED sessions
    BY <1>3, <2>1
  <2>2. ASSUME NEW k \in Keys, NEW a \in Agents, Evict(k, a) PROVE sessions'[Id[c]] # c
    BY <1>3, <1>t, <2>2, EvictEffect, Names
  <2>3. ASSUME NEW d \in Calls, Register(d) PROVE sessions'[Id[c]] # c
    BY <1>3, <1>t, <2>3, Names DEF Register, TableTyped
  <2>4. ASSUME NEW k \in ConfigJobs, StartConfig(k) \/ EndConfig(k) PROVE sessions'[Id[c]] # c
    BY <1>3, <1>t, <2>4, Names DEF StartConfig, EndConfig, TableTyped
  <2>5. ASSUME NEW d \in Calls, CreateTask(d) \/ AdmissionStep(d), ~Register(d) PROVE UNCHANGED sessions
    BY <2>5 DEF AdmissionStep, CreateTask, EnterGate, RefuseAtGate, GiveUpSlot, RefuseDuplicate,
       table
  <2>6. ASSUME NEW a \in Agents, FinishCleanup(a) PROVE UNCHANGED sessions
    BY <2>6 DEF FinishCleanup
  <2> QED
    BY <1>t, <2>1, <2>2, <2>3, <2>4, <2>5, <2>6, StepKinds
<1> QED
  BY <1>2, <1>3

(* The operations the step does not touch.                                 *)
LEMMA OpSoundKept ==
  ASSUME OpInv, [Next]_vars, NEW o \in Ops, op'[o] = op[o], sd = "idle" \/ sd' # "idle"
  PROVE  OpSound(o)'
<1>1. OpSound(o) /\ op[o].call \in Calls \cup {NoOne}
  BY DEF OpInv, CountersInv, TypeInv, OpTyped
<1>2. op[o].pc \in {"signal", "wait", "forced"} => op[o].call \in Calls
  BY DEF OpInv, CountersInv, TypeInv, OpsKnowTheirTask
<1>3. op[o].call \in Calls =>
        /\ run[op[o].call] = "done" => run'[op[o].call] = "done"
        /\ pc[op[o].call] = "in" => pc'[op[o].call] = "in"
        /\ pc[op[o].call] = "in" /\ sessions[Id[op[o].call]] # op[o].call =>
             sessions'[Id[op[o].call]] # op[o].call
  BY DoneForever
<1>4. op[o].call \in Calls /\ run[op[o].call] = "done" => pc[op[o].call] = "in"
  BY DEF OpInv, FateInv, FatesSettled, FateSettled
<1> QED
  BY <1>1, <1>2, <1>3, <1>4 DEF OpSound

\* shutdown() is called once: it never becomes idle again.
LEMMA ShutdownGoesOn ==
  ASSUME TypeInv, [Next]_vars
  PROVE  sd = "idle" \/ sd' # "idle"
<1>1. CASE Shutdown \/ StartSweep \/ ShutdownReturns
  BY <1>1 DEF Shutdown, StartSweep, ShutdownReturns
<1>2. CASE UNCHANGED sd
  BY <1>2
<1> QED
  BY <1>1, <1>2, TaskSteps DEF Aside, Elsewhere, Register, CleanupReturns, Moves, Dies,
     Finalizes, SendSignal,
     DispatchSignal, Operates, Pops, Opens, PublishCancel, WaitTimesOut, OpCleanupReturns, control

\* What an operation says of its call stays true.
LEMMA OpSoundNext ==
  ASSUME OpInv, [Next]_vars, NEW q \in Ops
  PROVE  OpSound(q)'
<1>t. /\ TypeInv /\ TableTyped /\ OpTyped /\ OpSound(q) /\ TablesAgree /\ HoldersConsistent
      /\ sd = "idle" \/ sd' # "idle"
  BY ShutdownGoesOn DEF OpInv, CountersInv, TypeInv
<1>n. Begins(q) => op[q].call = NoOne /\ (sd = "idle" => q \notin Keys)
  BY <1>t, Names, ConstantsOK DEF Begins, OpSound, ConstantsOK
<1>1. CASE op'[q] = op[q]
  BY <1>t, <1>1, OpSoundKept
<1>2. ASSUME NEW k \in Keys, NEW ok \in BOOLEAN, Pops(q, k, ok) PROVE OpSound(q)'
  <2>1. /\ op'[q].pc \in {"done", "cleaning"}
        /\ op'[q].call = op[q].call /\ (op'[q].ok <=> ok) /\ sd' = sd
        /\ run' = run /\ Evict(k, q)
    BY <1>t, <1>2, LeaveEffect DEF Pops, Leave, Elsewhere
  <2>2. ASSUME ok, op[q].call # NoOne PROVE run[op[q].call] = "done" /\ sessions'[Id[op[q].call]] # op[q].call
    <3>1. op[q].pc \in {"wait", "forced"} /\ k = op[q].key /\ run[op[q].call] = "done" 
      BY <1>t, <1>n, <1>2, <2>2 DEF Pops, Cause, OpSound
    <3>2. Id[op[q].call] = k
      BY <1>t, <3>1 DEF OpSound
    <3>3. sessions'[k] = NoOne
      BY <1>t, <2>1, EvictEffect, Names
    <3> QED
      BY <2>2, <3>1, <3>2, <3>3
  <2>3. sd = "idle" => q \notin Keys
    BY <1>t, <1>n, <1>2 DEF Pops, Cause, OpSound
  <2> QED
    BY <2>1, <2>2, <2>3 DEF OpSound
<1>3. ASSUME NEW k \in Keys, Opens(q, k) PROVE OpSound(q)'
  <2>1. /\ op'[q] = [pc |-> "signal", key |-> k, call |-> tasks[k], ok |-> TRUE]
        /\ sd' = sd /\ pc' = pc
    BY <1>t, <1>3 DEF Opens, Elsewhere, OpTyped
  <2>2. tasks[k] \in Calls /\ k \in Ids
    BY <1>t, <1>3, Names DEF Opens, TypeInv, OnlyCallsRun, TableTyped
  <2>3. Id[tasks[k]] = k /\ pc[tasks[k]] = "in"
    BY <1>t, <2>2 DEF TablesAgree, HoldersConsistent
  <2> QED
    BY <1>n, <1>3, <2>1, <2>3 DEF OpSound, Opens
<1>4. CASE PublishCancel(q) \/ WaitTimesOut(q)
  <2>1. /\ op'[q].pc \in {"wait", "forced"} /\ op'[q].key = op[q].key /\ op'[q].call = op[q].call
        /\ op[q].pc \in {"signal", "wait"} /\ sd' = sd /\ pc' = pc
    BY <1>t, <1>4, SetOpEffect DEF PublishCancel, WaitTimesOut, admission
  <2> QED
    BY <1>t, <2>1 DEF OpSound
<1>5. CASE OpCleanupReturns(q)
  <2>1. /\ op'[q].pc = "done" /\ op'[q].call = op[q].call /\ (op'[q].ok <=> op[q].ok)
        /\ op[q].pc = "cleaning" /\ sd' = sd /\ run' = run /\ sessions' = sessions
    BY <1>t, <1>5, SetOpEffect DEF OpCleanupReturns, executor, FinishCleanup
  <2> QED
    BY <1>t, <2>1 DEF OpSound
<1>6. CASE Shutdown
  <2>1. sd = "idle" /\ sd' = "cancelling"
    BY <1>6 DEF Shutdown
  <2>2. op'[q] = op[q] \/ (q \in Ids /\ op'[q] = [op[q] EXCEPT !.pc = "start"])
    BY <1>6 DEF Shutdown
  <2>3. CASE q \in Ids /\ op'[q] = [op[q] EXCEPT !.pc = "start"]
    <3>1. op[q].call = NoOne
      BY <1>t, <2>1, <2>3, Names DEF OpSound
    <3>2. op'[q].pc = "start" /\ op'[q].call = NoOne
      BY <1>t, <2>3, <3>1 DEF OpTyped
    <3> QED
      BY <2>1, <3>2 DEF OpSound
  <2> QED
    BY <1>1, <2>2, <2>3
<1>7. CASE StartSweep
  <2>1. sd' = "sweeping"
    BY <1>7 DEF StartSweep
  <2>2. op'[q] = op[q] \/ op'[q] = [op[q] EXCEPT !.pc = "sweep", !.call = NoOne]
    BY <1>7 DEF StartSweep
  <2>3. CASE op'[q] = [op[q] EXCEPT !.pc = "sweep", !.call = NoOne]
    <3>1. op'[q].pc = "sweep" /\ op'[q].call = NoOne
      BY <1>t, <2>3 DEF OpTyped
    <3> QED
      BY <2>1, <3>1 DEF OpSound
  <2> QED
    BY <1>1, <2>2, <2>3
<1>8. ASSUME NEW o \in Ops, o # q, Operates(o) PROVE op'[q] = op[q]
  BY <1>t, <1>8 DEF Operates, Pops, Leave, Opens, PublishCancel, WaitTimesOut, OpCleanupReturns,
     SetOp, OpTyped
<1>9. ASSUME NEW o \in Ops, Operates(o) PROVE OpSound(q)'
  <2>1. CASE o # q
    BY <1>1, <1>8, <1>9, <2>1
  <2>2. CASE o = q
    BY <1>2, <1>3, <1>4, <1>5, <1>9, <2>2 DEF Operates
  <2> QED
    BY <2>1, <2>2
<1>10. CASE op' = op
  BY <1>1, <1>10
<1>11. CASE \/ Aside
            \/ \E c \in Calls : \/ Register(c) \/ CleanupReturns(c)
                                 \/ Moves(c) \/ Dies(c) \/ Finalizes(c)
            \/ \E i \in Ids, a \in Actions : SendSignal(i, a)
            \/ \E m \in wire : DispatchSignal(m)
            \/ ShutdownReturns
  <2>1. op' = op
    BY <1>11 DEF Aside, Register, CleanupReturns, Moves, Dies, Finalizes, SendSignal,
                 DispatchSignal, ShutdownReturns, control
  <2> QED
    BY <1>10, <2>1
<1> QED
  BY <1>t, TaskSteps, <1>6, <1>7, <1>9, <1>11

\* No operation is ever at two cleanups.
LEMMA CleanersNext ==
  ASSUME OpInv, [Next]_vars
  PROVE  CleanersApart'
<1>t. TypeInv /\ TableTyped /\ OpTyped /\ CleanersApart
  BY DEF OpInv, CountersInv, TypeInv
<1>1. ASSUME UNCHANGED cleaner,
             \A o \in Ops : op[o].pc = "cleaning" => op'[o].pc = "cleaning"
      PROVE  CleanersApart'
  BY <1>t, <1>1 DEF CleanersApart
<1>2. ASSUME NEW c \in Calls, Finalizes(c) PROVE CleanersApart'
  <2>1. op' = op /\ \A x \in Owners : cleaner'[x] = c \/ cleaner'[x] = cleaner[x]
    BY <1>t, <1>2, EvictEffect, Names DEF Finalizes, Finalize
  <2> QED
    BY <1>t, <2>1, Names DEF CleanersApart
<1>3. ASSUME NEW c \in Calls, CleanupReturns(c) PROVE CleanersApart'
  <2>1. op' = op /\ \A x \in Owners : cleaner'[x] = NoOne \/ cleaner'[x] = cleaner[x]
    BY <1>t, <1>3 DEF CleanupReturns, FinishCleanup, TableTyped
  <2> QED
    BY <1>t, <2>1, Names DEF CleanersApart
<1>4. ASSUME NEW o \in Ops, NEW k \in Keys, NEW ok \in BOOLEAN, Pops(o, k, ok) PROVE CleanersApart'
  <2>1. /\ op'[o].pc = IF sessions[k] = NoOne THEN "done" ELSE "cleaning"
        /\ \A q \in Ops \ {o} : op'[q] = op[q]
        /\ \A x \in Owners : cleaner'[x] = IF x = sessions[k] THEN o ELSE cleaner[x]
    <3>1. Leave(o, k, ok) /\ Evict(k, o) /\ o \in Agents
      BY <1>4, Names DEF Pops, Leave
    <3> QED
      BY <1>t, <3>1, LeaveEffect, EvictEffect
  <2>2. op[o].pc # "cleaning"
    BY <1>4 DEF Pops, Cause, Begins
  <2>3. \A x \in Owners : cleaner[x] # o
    BY <1>t, <2>2 DEF CleanersApart
  <2> QED
    BY <1>t, <2>1, <2>3, Names DEF CleanersApart
<1>5. ASSUME NEW o \in Ops, OpCleanupReturns(o) PROVE CleanersApart'
  <2>1. PICK x \in Owners : cleaner[x] = o /\ cleaner' = [cleaner EXCEPT ![x] = NoOne]
    BY <1>5 DEF OpCleanupReturns, FinishCleanup
  <2>2. \A y \in Owners : y # x => cleaner[y] # o
    BY <1>t, <2>1 DEF CleanersApart
  <2>3. \A q \in Ops \ {o} : op'[q] = op[q]
    BY <1>t, <1>5, SetOpEffect DEF OpCleanupReturns
  <2> QED
    BY <1>t, <2>1, <2>2, <2>3, Names DEF CleanersApart, TableTyped
<1>6. ASSUME NEW o \in Ops, (\E k \in Keys : Opens(o, k)) \/ PublishCancel(o) \/ WaitTimesOut(o) PROVE CleanersApart'
  <2>1. /\ cleaner' = cleaner /\ op[o].pc # "cleaning" /\ \A q \in Ops \ {o} : op'[q] = op[q]
    BY <1>t, <1>6 DEF Opens, Begins, PublishCancel, WaitTimesOut, SetOp, table, OpTyped
  <2> QED
    BY <1>1, <2>1
<1>7. CASE Shutdown \/ StartSweep
  <2>1. cleaner' = cleaner
    BY <1>7 DEF Shutdown, StartSweep, table
  <2>2. ASSUME NEW o \in Ops, op[o].pc = "cleaning" PROVE op'[o].pc = "cleaning"
    <3>1. o \in Keys => op'[o] = op[o]
      <4>1. sd = "idle" /\ o \in Keys => op[o].pc = "idle"
        BY DEF OpInv, OpSound
      <4>2. CASE Shutdown
        BY <4>1, <4>2, <2>2, Names DEF Shutdown
      <4>3. CASE StartSweep
        BY <4>3, <2>2 DEF StartSweep, Settled
      <4> QED
        BY <1>7, <4>2, <4>3
    <3>2. o \notin Keys => op'[o] = op[o]
      BY <1>7, Names DEF Shutdown, StartSweep
    <3> QED
      BY <2>2, <3>1, <3>2
  <2> QED
    BY <1>1, <2>1, <2>2
<1>8. CASE UNCHANGED <<cleaner, op>>
  BY <1>1, <1>8
<1> QED
  BY <1>t, TaskSteps, <1>2, <1>3, <1>4, <1>5, <1>6, <1>7, <1>8
     DEF Operates, Aside, Register, Moves, Dies, SendSignal, DispatchSignal, ShutdownReturns, table, control

\* Every step keeps the invariant.
LEMMA OpKept == OpInv /\ [Next]_vars => OpInv'
<1> SUFFICES ASSUME OpInv, [Next]_vars PROVE OpInv'
  OBVIOUS
<1>1. CountersInv' /\ FateInv'
  BY CountersStep, FateKept DEF OpInv
<1> QED
  BY <1>1, TablesKept, CleanersNext, OpSoundNext DEF OpInv

(* cancel_task that answers True for a task it found leaves that task      *)
(* over, its admission back or at the cleanup of somebody else.            *)
THEOREM CancelTaskIsHonest == Spec => []CancelTaskHonest
<1>1. OpInv => CancelTaskHonest
  <2> SUFFICES ASSUME OpInv, NEW o \in Ops, op[o].pc = "done", op[o].ok, op[o].call # NoOne
               PROVE  /\ run[op[o].call] = "done"
                      /\ op[o].call \in Holders => cleaner[op[o].call] \notin {NoOne, o}
    BY DEF CancelTaskHonest
  <2>1. run[op[o].call] = "done" /\ sessions[Id[op[o].call]] # op[o].call
    BY DEF OpInv, OpSound
  <2>2. \A x \in Owners : cleaner[x] # o
    BY DEF OpInv, CleanersApart
  <2> QED
    BY <2>1, <2>2, Names DEF Holders
<1> QED
  BY <1>1, OpInit, OpKept, PTL DEF Spec

----------------------------------------------------------------------------
(* One module per task id                                                  *)

(* While nobody calls cancel_task, clean_session or shutdown(), a session  *)
(* stays in the table until its task is through.                           *)
LeftAlone ==
  /\ sd = "idle"
  /\ \A o \in Ops : op[o].pc = "idle"
  /\ \A c \in Executing : sessions[Id[c]] = c

\* Every step keeps it.
LEMMA LeftAloneKept ==
  ASSUME Cancellers = {}, ~ShutdownCalled, OpInv, LeftAlone, [Next]_vars
  PROVE  LeftAlone'
<1>t. TypeInv /\ TableTyped /\ RunTyped /\ OpTyped
  BY DEF OpInv, CountersInv, TypeInv
<1>s. ASSUME NEW c \in Calls PROVE FateStep(c) /\ FateSettled(c)
  BY <1>t, FateSteps DEF OpInv, FateInv, FatesSettled
(* Nothing but the task's own steps and the jobs' reach the table.         *)
<1>n. /\ ~Shutdown /\ ~StartSweep /\ ~ShutdownReturns
      /\ \A o \in Ops : ~Operates(o)
  <2>1. ~Shutdown /\ ~StartSweep /\ ~ShutdownReturns
    BY DEF LeftAlone, Shutdown, StartSweep, ShutdownReturns
  <2>2. ASSUME NEW o \in Ops PROVE ~Operates(o)
    <3>1. op[o].pc = "idle" /\ ~Begins(o)
      BY DEF LeftAlone, Begins
    <3> QED
      BY <3>1 DEF Operates, Pops, Cause, Opens, PublishCancel, WaitTimesOut, OpCleanupReturns
  <2> QED
    BY <2>1, <2>2
<1>o. sd' = sd /\ op' = op
  BY <1>t, <1>n, TaskSteps DEF Aside, Register, CleanupReturns, Moves, Dies, Finalizes,
     SendSignal,
     DispatchSignal, control, Elsewhere
<1>1. ASSUME NEW c \in Calls, run'[c] \in {"created", "running", "acking", "draining"}
      PROVE  sessions'[Id[c]] = c
  <2>1. CASE Register(c)
    BY <1>t, <2>1, Names DEF Register, TableTyped
  <2>0. ~Register(c) => run[c] # "none"
    <3>1. SUFFICES ASSUME run[c] = "none", ~Register(c) PROVE FALSE
      OBVIOUS
    <3>2. pc[c] = "slot" /\ pc'[c] = "in"
      BY <1>1, <1>s, <3>1 DEF FateStep, FateSettled
    <3>3. ~\E d \in Calls : Register(d)
      BY <1>t, <3>1, <3>2 DEF Register, TypeInv, AdmissionTyped
    <3> QED
      BY <1>t, <1>n, <3>2, <3>3, TaskSteps
         DEF TypeInv, AdmissionTyped, Aside, CleanupReturns, FinishCleanup, Moves, Dies, Finalizes, SendSignal,
             DispatchSignal, Elsewhere, admission
  <2>2. CASE ~Register(c)
    <3>1. c \in Executing
      BY <1>1, <1>s, <2>0, <2>2 DEF FateStep, FateSettled, Past, Executing, TypeInv, RunTyped
    <3>2. sessions[Id[c]] = c
      BY <3>1 DEF LeftAlone
    <3>3. ASSUME NEW d \in Calls, Register(d) PROVE sessions'[Id[c]] = c
      BY <1>t, <3>2, <3>3, Names DEF Register, TableTyped
    <3>4. ASSUME NEW d \in Calls, Finalizes(d) PROVE sessions'[Id[c]] = c
      <4>1. sessions[Id[d]] = d
        BY <3>4 DEF Finalizes, LeftAlone, Executing
      <4>2. run' = [run EXCEPT ![d] = "cleaning"] /\ Evict(Id[d], d)
        BY <3>4, <4>1, Names DEF Finalizes, Finalize
      <4>3. c # d
        BY <1>1, <1>t, <4>2 DEF RunTyped
      <4> QED
        BY <1>t, <3>2, <4>1, <4>2, <4>3, EvictEffect, Names
    <3>5. ASSUME NEW k \in ConfigJobs, StartConfig(k) \/ EndConfig(k) PROVE sessions'[Id[c]] = c
      BY <1>t, <3>2, <3>5, Names DEF StartConfig, EndConfig, TableTyped
    <3>6. CASE UNCHANGED sessions
      BY <3>2, <3>6
    <3> QED
      BY <1>t, <1>n, <3>3, <3>4, <3>5, <3>6, TaskSteps
         DEF CleanupReturns, FinishCleanup, Moves, Dies, SendSignal, DispatchSignal, table
  <2> QED
    BY <2>1, <2>2
<1> QED
  BY <1>o, <1>1 DEF LeftAlone, Executing

(* Two tasks never execute under one id, however many calls ask for it, as *)
(* long as signals are what cancels them: an operation that waits for a    *)
(* task evicts whoever stands under its id by then.                        *)
THEOREM OneModulePerId ==
  ASSUME Cancellers = {}, ~ShutdownCalled
  PROVE  Spec => []OneRunPerId
<1>1. Init => LeftAlone
  <2> SUFFICES ASSUME Init PROVE LeftAlone
    OBVIOUS
  <2>1. sd = "idle" /\ (\A o \in Ops : op[o].pc = "idle") /\ \A c \in Calls : run[c] = "none"
    BY DEF Init
  <2> QED
    BY <2>1 DEF LeftAlone, Executing
<1>2. OpInv /\ LeftAlone /\ [Next]_vars => LeftAlone'
  BY LeftAloneKept
<1>3. LeftAlone => OneRunPerId
  BY DEF LeftAlone, OneRunPerId
<1> QED
  BY <1>1, <1>2, <1>3, OpInit, OpKept, PTL DEF Spec

----------------------------------------------------------------------------
(* No admission comes back before its task is over                         *)

(* A task at its cleanup cleans its own session, and tasks clean nothing   *)
(* else.                                                                   *)
SelfCleaned ==
  /\ \A c \in Calls : run[c] = "cleaning" => cleaner[c] = c
  /\ \A x \in Owners : cleaner[x] \in Calls => cleaner[x] = x /\ run[x] = "cleaning"

(* With an id to itself, what stands under the id of a call is that call.  *)
LEMMA OwnSession ==
  ASSUME OneCallPerId, OpInv, NEW k \in Ids
  PROVE  /\ sessions[k] = tasks[k] /\ sessions[k] \in Calls \cup {NoOne}
         /\ \A c \in Calls : Id[c] = k => sessions[k] \in {c, NoOne}
BY Names DEF OneCallPerId, OpInv, CountersInv, TypeInv, TableTyped, HoldersConsistent, TablesAgree

\* Every step keeps it.
LEMMA SelfCleanedKept ==
  ASSUME OneCallPerId, OpInv, SelfCleaned, [Next]_vars
  PROVE  SelfCleaned'
<1>t. TypeInv /\ TableTyped /\ RunTyped /\ HoldersConsistent
  BY DEF OpInv, CountersInv, TypeInv
<1>1. ASSUME NEW c \in Calls, NEW p \in {"created", "running", "acking", "draining", "done"},
             run[c] # "cleaning", run' = [run EXCEPT ![c] = p], cleaner' = cleaner
      PROVE  SelfCleaned'
  BY <1>t, <1>1 DEF SelfCleaned, RunTyped
<1>2. ASSUME NEW c \in Calls, Register(c) PROVE SelfCleaned'
  <2>1. run[c] = "none" /\ run' = [run EXCEPT ![c] = "created"] /\ cleaner' = cleaner
    BY <1>2 DEF Register, OpInv, FateInv, FatesSettled, FateSettled
  <2> QED
    BY <1>1, <2>1
<1>3. ASSUME NEW c \in Calls, Moves(c) \/ Dies(c) PROVE SelfCleaned'
  <2>1. /\ run[c] # "cleaning" /\ cleaner' = cleaner
        /\ \E p \in {"running", "acking", "draining", "done"} : run' = [run EXCEPT ![c] = p]
    BY <1>3 DEF Moves, Dies, Over, table
  <2> QED
    BY <1>1, <2>1
<1>4. ASSUME NEW c \in Calls, Finalizes(c) PROVE SelfCleaned'
  <2>1. run[c] # "cleaning" /\ Evict(Id[c], c) /\ sessions[Id[c]] \in {c, NoOne}
    BY <1>4, OwnSession, Names DEF Finalizes, Finalize
  <2>2. CASE sessions[Id[c]] = NoOne
    <3>1. run' = [run EXCEPT ![c] = "done"] /\ cleaner' = cleaner
      BY <1>4, <2>2 DEF Finalizes, Finalize, Evict, Over
    <3> QED
      BY <1>1, <2>1, <3>1
  <2>3. CASE sessions[Id[c]] = c
    <3>1. run' = [run EXCEPT ![c] = "cleaning"]
      BY <1>4, <2>3, Names DEF Finalizes, Finalize
    <3>2. \A x \in Owners : cleaner'[x] = IF x = c THEN c ELSE cleaner[x]
      BY <1>t, <2>1, <2>3, EvictEffect, Names
    <3> QED
      BY <1>t, <3>1, <3>2, Names DEF SelfCleaned, RunTyped
  <2> QED
    BY <2>1, <2>2, <2>3
<1>5. ASSUME NEW c \in Calls, CleanupReturns(c) PROVE SelfCleaned'
  <2>1. PICK x \in Owners : cleaner[x] = c /\ cleaner' = [cleaner EXCEPT ![x] = NoOne]
    BY <1>5 DEF CleanupReturns, FinishCleanup
  <2>2. x = c /\ run' = [run EXCEPT ![c] = "done"]
    BY <1>5, <2>1 DEF SelfCleaned, CleanupReturns, Over
  <2> QED
    BY <1>t, <2>1, <2>2, Names DEF SelfCleaned, RunTyped, TableTyped
<1>6. ASSUME NEW o \in Ops, NEW k \in Keys, NEW ok \in BOOLEAN, Pops(o, k, ok) PROVE SelfCleaned'
  <2>1. /\ \A x \in Owners : cleaner'[x] = IF x = sessions[k] THEN o ELSE cleaner[x]
        /\ run' = run /\ o \notin Calls
    BY <1>t, <1>6, EvictEffect, Names DEF Pops, Leave
  <2>2. ASSUME NEW c \in Calls, run[c] = "cleaning" PROVE c # sessions[k]
    BY <1>t, <2>2, Names DEF SelfCleaned, HoldersConsistent
  <2> QED
    BY <2>1, <2>2, Names DEF SelfCleaned
<1>7. ASSUME NEW o \in Ops, OpCleanupReturns(o) PROVE SelfCleaned'
  <2>1. PICK x \in Owners : cleaner[x] = o /\ cleaner' = [cleaner EXCEPT ![x] = NoOne]
    BY <1>7 DEF OpCleanupReturns, FinishCleanup
  <2>2. run' = run
    BY <1>7 DEF OpCleanupReturns, executor
  <2> QED
    BY <1>t, <2>1, <2>2, Names DEF SelfCleaned, TableTyped
<1>8. CASE UNCHANGED <<cleaner, run>>
  BY <1>8 DEF SelfCleaned
<1>9. ASSUME NEW o \in Ops, Operates(o) PROVE SelfCleaned'
  <2>1. CASE (\E k \in Keys : Opens(o, k)) \/ PublishCancel(o) \/ WaitTimesOut(o)
    <3>1. UNCHANGED <<cleaner, run>>
      BY <2>1 DEF Opens, PublishCancel, WaitTimesOut, table, executor
    <3> QED
      BY <1>8, <3>1
  <2> QED
    BY <1>6, <1>7, <1>9, <2>1 DEF Operates
<1>10. CASE \/ Aside
            \/ \E i \in Ids, a \in Actions : SendSignal(i, a)
            \/ \E m \in wire : DispatchSignal(m)
            \/ Shutdown \/ StartSweep \/ ShutdownReturns
  <2>1. UNCHANGED <<cleaner, run>>
    BY <1>10 DEF Aside, SendSignal, DispatchSignal, Shutdown, StartSweep, ShutdownReturns, table,
       executor
  <2> QED
    BY <1>8, <2>1
<1> QED
  BY <1>t, TaskSteps, <1>2, <1>3, <1>4, <1>5, <1>9, <1>10

(* Nobody sweeps, nobody gives up on a task: a live task has its session   *)
(* in the table until it pops it itself.                                   *)
LiveHeld ==
  /\ sd = "idle"
  /\ \A o \in Ops : op[o].pc \notin {"start", "sweep"}
  /\ \A c \in Live : sessions[Id[c]] = c \/ run[c] = "cleaning"

\* Every step keeps it.
LEMMA LiveHeldKept ==
  ASSUME OneCallPerId, ~SignalFaults, ~ShutdownCalled, OpInv, LiveHeld, [Next]_vars
  PROVE  LiveHeld'
<1>t. TypeInv /\ TableTyped /\ RunTyped /\ OpTyped
  BY DEF OpInv, CountersInv, TypeInv
<1>n. ~Shutdown /\ ~StartSweep /\ ~ShutdownReturns
  BY DEF LiveHeld, Shutdown, StartSweep, ShutdownReturns
<1>a. ASSUME Aside, sessions' = sessions \/ \E k \in ConfigJobs : StartConfig(k) \/ EndConfig(k)
      PROVE  LiveHeld'
  <2>1. ASSUME NEW c \in Calls PROVE sessions'[Id[c]] = sessions[Id[c]]
    <3>1. ASSUME NEW k \in ConfigJobs, StartConfig(k) \/ EndConfig(k) PROVE sessions'[Id[c]] = sessions[Id[c]]
      <4>1. Id[c] # k /\ Id[c] \in Keys
        BY Names
      <4> QED
        BY <1>t, <3>1, <4>1 DEF StartConfig, EndConfig, TableTyped
    <3> QED
      BY <1>a, <3>1
  <2> QED
    BY <1>a, <2>1 DEF Aside, LiveHeld, Live
<1>o. ASSUME UNCHANGED <<op, sd>>, \A c \in Live' : sessions'[Id[c]] = c \/ run'[c] = "cleaning"
      PROVE  LiveHeld'
  BY <1>o DEF LiveHeld
<1>1. ASSUME NEW c \in Calls, Register(c) PROVE LiveHeld'
  <2>1. /\ UNCHANGED <<op, sd>> /\ sessions[Id[c]] = NoOne /\ sessions' = [sessions EXCEPT ![Id[c]] = c]
        /\ run' = [run EXCEPT ![c] = "created"]
    BY <1>1 DEF Register, control
  <2>2. ASSUME NEW d \in Live' PROVE sessions'[Id[d]] = d \/ run'[d] = "cleaning"
    <3>1. d = c \/ d \in Live
      BY <1>t, <2>1, <2>2 DEF Live, RunTyped
    <3> QED
      BY <1>t, <2>1, <3>1, Names DEF LiveHeld, Live, TableTyped, RunTyped
  <2> QED
    BY <1>o, <2>1, <2>2
<1>2. ASSUME NEW c \in Calls, Moves(c) \/ Dies(c) PROVE LiveHeld'
  <2>1. /\ UNCHANGED <<op, sd, sessions>> /\ run[c] \notin {"none", "cleaning", "done"}
        /\ \E p \in {"running", "acking", "draining", "done"} : run' = [run EXCEPT ![c] = p]
    BY <1>2 DEF Moves, Dies, Over, table, Elsewhere
  <2> QED
    BY <1>t, <1>o, <2>1 DEF LiveHeld, Live, RunTyped
<1>3. ASSUME NEW c \in Calls, Finalizes(c) PROVE LiveHeld'
  <2>1. /\ UNCHANGED <<op, sd>> /\ Evict(Id[c], c)
        /\ \E p \in {"cleaning", "done"} : run' = [run EXCEPT ![c] = p]
    BY <1>3 DEF Finalizes, Finalize, Over, Elsewhere
  <2>2. ASSUME NEW d \in Live', d # c PROVE sessions'[Id[d]] = d \/ run'[d] = "cleaning"
    <3>1. d \in Live /\ Id[d] # Id[c] /\ run'[d] = run[d]
      BY <1>t, <2>1, <2>2 DEF OneCallPerId, Live, RunTyped
    <3>2. sessions'[Id[d]] = sessions[Id[d]]
      BY <1>t, <2>1, <3>1, EvictEffect, Names DEF Live
    <3> QED
      BY <3>1, <3>2 DEF LiveHeld
  <2> QED
    BY <1>t, <1>o, <2>1, <2>2 DEF Live, RunTyped
<1>4. ASSUME NEW c \in Calls, CleanupReturns(c) PROVE LiveHeld'
  <2>1. UNCHANGED <<op, sd, sessions>> /\ run' = [run EXCEPT ![c] = "done"]
    BY <1>4 DEF CleanupReturns, Over, FinishCleanup
  <2> QED
    BY <1>t, <1>o, <2>1 DEF LiveHeld, Live, RunTyped
<1>5. ASSUME NEW o \in Ops, NEW k \in Keys, NEW ok \in BOOLEAN, Pops(o, k, ok) PROVE LiveHeld'
  <2>1. /\ sd' = sd /\ run' = run /\ Evict(k, o)
        /\ op'[o].pc \in {"done", "cleaning"} /\ \A q \in Ops \ {o} : op'[q] = op[q]
    BY <1>t, <1>5, LeaveEffect DEF Pops, Leave, Elsewhere
  <2>2. ASSUME NEW c \in Live, sessions[k] = c PROVE FALSE
    <3>1. k \in Ids /\ Id[c] = k
      BY <1>t, <2>2, Names DEF OpInv, CountersInv, HoldersConsistent, TypeInv, TablesAgree, Live
    <3>2. sessions[k] = tasks[k]
      BY <3>1, OwnSession
    <3>3. /\ op[o].pc \notin {"start", "sweep"} /\ OpSound(o)
          /\ op[o].pc \in {"wait", "forced"} => op[o].call \in Calls
      BY <1>t DEF LiveHeld, OpInv, TypeInv, OpsKnowTheirTask
    <3>4. CASE tasks[k] = NoOne \/ run[tasks[k]] = "done"
      BY <2>2, <3>2, <3>4, Names DEF Live
    <3>5. CASE op[o].pc \in {"wait", "forced"} /\ k = op[o].key /\ run[op[o].call] = "done"
      <4>1. Id[op[o].call] = Id[c]
        BY <3>1, <3>3, <3>5 DEF OpSound
      <4>2. op[o].call = c
        BY <3>3, <3>5, <4>1 DEF OneCallPerId, Live
      <4> QED
        BY <3>5, <4>2 DEF Live
    <3> QED
      BY <1>5, <3>3, <3>4, <3>5 DEF Pops, Cause
  <2>3. ASSUME NEW c \in Live' PROVE sessions'[Id[c]] = c \/ run'[c] = "cleaning"
    <3>1. c \in Live /\ c \in Calls
      BY <2>1 DEF Live
    <3>2. CASE sessions[Id[c]] = c
      <4>1. k # Id[c]
        BY <2>2, <3>1, <3>2
      <4> QED
        BY <1>t, <2>1, <3>1, <3>2, <4>1, EvictEffect, Names
    <3> QED
      BY <2>1, <3>1, <3>2 DEF LiveHeld
  <2> QED
    BY <2>1, <2>3 DEF LiveHeld
<1>6. ASSUME NEW o \in Ops, \/ \E k \in Keys : Opens(o, k)
                            \/ PublishCancel(o) \/ WaitTimesOut(o) \/ OpCleanupReturns(o)
      PROVE LiveHeld'
  <2>1. /\ UNCHANGED <<sessions, run, sd>>
        /\ op'[o].pc \in {"signal", "wait", "forced", "done"} /\ \A q \in Ops \ {o} : op'[q] = op[q]
    <3>1. CASE \E k \in Keys : Opens(o, k)
      BY <1>t, <3>1 DEF Opens, table, Elsewhere, OpTyped
    <3>2. CASE PublishCancel(o) \/ WaitTimesOut(o) \/ OpCleanupReturns(o)
      BY <1>t, <3>2, SetOpEffect DEF PublishCancel, WaitTimesOut, OpCleanupReturns,
         FinishCleanup, table, executor
    <3> QED
      BY <1>6, <3>1, <3>2
  <2> QED
    BY <2>1 DEF LiveHeld, Live
<1>7. CASE \/ \E i \in Ids, a \in Actions : SendSignal(i, a)
           \/ \E m \in wire : DispatchSignal(m)
  <2>1. UNCHANGED <<op, sd, sessions, run>>
    BY <1>7 DEF SendSignal, DispatchSignal, table, executor, control
  <2> QED
    BY <2>1 DEF LiveHeld, Live
<1> QED
  BY <1>t, <1>n, TaskSteps, <1>a, <1>1, <1>2, <1>3, <1>4, <1>5, <1>6, <1>7 DEF Operates

(* What a step does to the semaphores: a slot is taken only when there is  *)
(* one, and without a queue the gate and the count behind it rest.         *)
LEMMA SemaphoreSteps ==
  ASSUME CountersInv, [Next]_vars
  PROVE  /\ slot' \in {slot, slot + 1} \/ (slot > 0 /\ slot' = slot - 1)
         /\ MaxQueued = 0 => gate' = gate /\ waiting' = waiting
<1>t. /\ slot \in Int /\ HoldersConsistent
  BY DEF CountersInv, TypeInv, AdmissionTyped
<1>q. MaxQueued = 0 => ~(MaxQueued > 0)
  BY Bounds
<1>u. ASSUME UNCHANGED <<slot, gate, waiting>>
      PROVE  /\ slot' \in {slot, slot + 1} \/ (slot > 0 /\ slot' = slot - 1)
             /\ MaxQueued = 0 => gate' = gate /\ waiting' = waiting
  BY <1>u
<1>f. ASSUME NEW a, FinishCleanup(a)
      PROVE  /\ slot' \in {slot, slot + 1} \/ (slot > 0 /\ slot' = slot - 1)
             /\ MaxQueued = 0 => gate' = gate /\ waiting' = waiting
  BY <1>f, <1>q DEF FinishCleanup, ReturnAdmission
<1>1. ASSUME NEW c \in Calls, CreateTask(c) \/ AdmissionStep(c)
      PROVE  /\ slot' \in {slot, slot + 1} \/ (slot > 0 /\ slot' = slot - 1)
             /\ MaxQueued = 0 => gate' = gate /\ waiting' = waiting
  <2>1. CASE CreateTask(c) \/ RefuseAtGate(c)
    BY <2>1 DEF CreateTask, RefuseAtGate
  <2>2. CASE EnterGate(c)
    BY <2>2, <1>t, <1>q DEF EnterGate, HoldersConsistent
  <2>3. CASE GiveUpSlot(c) \/ RefuseDuplicate(c)
    BY <2>3, <1>q DEF GiveUpSlot, RefuseDuplicate
  <2>4. CASE Register(c)
    BY <2>4, <1>q DEF Register
  <2> QED
    BY <1>1, <2>1, <2>2, <2>3, <2>4 DEF AdmissionStep
<1>2. ASSUME NEW c \in Calls, CoroEnds(c) \/ RunStep(c), ~CleanupReturns(c)
      PROVE  UNCHANGED <<slot, gate, waiting>>
  BY <1>2 DEF RunStep, CoroEnds, Begin, DropUnstarted, CoroCancelled, AckReturns, AckInterrupted,
              DrainReturns, DrainInterrupted, admission
<1>3. ASSUME NEW o \in Ops, OpStep(o), ~OpCleanupReturns(o) PROVE UNCHANGED <<slot, gate, waiting>>
  BY <1>3 DEF OpStep, PublishCancel, PublishFails, WaitReturns, WaitTimesOut, ForcedReturns,
     admission
<1>4. CASE \/ UNCHANGED vars
           \/ \E i \in Ids, a \in Actions : SendSignal(i, a)
           \/ \E m \in wire : DispatchSignal(m)
           \/ \E o \in Cancellers, k \in Keys : CancelTask(o, k) \/ CleanSession(o, k)
           \/ Shutdown \/ ShutdownStep
           \/ \E k \in ConfigJobs : StartConfig(k) \/ EndConfig(k)
  BY <1>4, <1>u DEF vars, SendSignal, DispatchSignal, CancelTask, CleanSession, BeginCancel,
     Shutdown,
     ShutdownStep, StartSweep, ShutdownReturns, StartGathered, Sweep, StartConfig, EndConfig, admission
<1>5. ASSUME NEW a, CleanupReturns(a) \/ OpCleanupReturns(a) PROVE FinishCleanup(a)
  BY <1>5 DEF CleanupReturns, OpCleanupReturns
<1> QED
  BY <1>u, <1>f, <1>1, <1>2, <1>3, <1>4, <1>5 DEF Next, RunStep, OpStep

(* With fewer slots out than there are, the tasks that live fit in them.   *)
LEMMA LiveBounded ==
  ASSUME ConfigJobs = {}, OpInv, SelfCleaned, LiveHeld, PermitsConserved, slot >= 0
  PROVE  BoundedConcurrency
<1>t. slot \in Int /\ active \in Int /\ CountersExact
  BY DEF OpInv, CountersInv, TypeInv, AdmissionTyped
<1>1. Live \subseteq Holders
  BY Names DEF Live, Holders, LiveHeld, SelfCleaned
<1>2. Cardinality(Live) <= Cardinality(Holders) /\ Cardinality(Live) \in Nat
  BY <1>1, FinitePopulations, FS_Subset, FS_CardinalityType
<1>3. active = Cardinality(Holders)
  <2>1. Evicted = {}
    BY DEF Evicted
  <2>2. active = Cardinality(Holders) - 0
    BY <1>t, <2>1, FS_EmptySet DEF CountersExact
  <2> QED
    BY <2>2, FinitePopulations
<1> QED
  BY <1>t, <1>2, <1>3, Bounds, FinitePopulations DEF BoundedConcurrency, PermitsConserved

(* No more tasks execute than there are slots, and cancel_task says True   *)
(* only of a task that is over: when every call has an id to itself, the   *)
(* signal of cancel_task can be published (otherwise it cleans up after a  *)
(* task nobody cancelled) and shutdown() does not sweep the tables.        *)
THEOREM OverWhenFreed ==
  ASSUME OneCallPerId, ConfigJobs = {}, ~SignalFaults, ~ShutdownCalled
  PROVE  Spec => []OverBeforeFreed
<1> DEFINE Inv == SelfCleaned /\ LiveHeld /\ slot >= 0
<1>1. Init => Inv
  <2> SUFFICES ASSUME Init PROVE Inv
    OBVIOUS
  <2>1. /\ \A c \in Calls : run[c] = "none"
        /\ \A x \in Owners : cleaner[x] = NoOne
        /\ \A o \in Ops : op[o].pc = "idle"
        /\ sd = "idle" /\ slot = MaxConc
    BY DEF Init
  <2> QED
    BY <2>1, Names, Bounds DEF SelfCleaned, LiveHeld, Live
<1>2. OpInv /\ Inv /\ [Next]_vars => Inv'
  <2> SUFFICES ASSUME OpInv, Inv, [Next]_vars PROVE Inv'
    OBVIOUS
  <2>1. slot' >= 0
    BY SemaphoreSteps DEF OpInv, CountersInv, TypeInv, AdmissionTyped
  <2> QED
    BY <2>1, SelfCleanedKept, LiveHeldKept
<1>3. OpInv /\ Inv /\ PermitsConserved => BoundedConcurrency
  BY LiveBounded
<1>4. BoundedConcurrency /\ CancelTaskHonest => OverBeforeFreed
  BY DEF OverBeforeFreed
<1> HIDE DEF Inv
<1>5. Spec => []BoundedConcurrency
  BY <1>1, <1>2, <1>3, OpInit, OpKept, PermitsNeverLost, PTL DEF Spec
<1> QED
  BY <1>4, <1>5, CancelTaskIsHonest, PTL

----------------------------------------------------------------------------
(* Everything is back once nothing is under way                            *)

Awaited(c) == \E o \in Ops : op[o].pc \in {"wait", "forced"} /\ op[o].call = c

Signalled(c) == \E m \in wire : m.key = Id[c]

(* Without signals from outside, whatever ends a task early is a           *)
(* cancel_task that waits for it, and so cleans up after it.               *)
NoOrphan ==
  /\ budget = 0
  /\ \A c \in Calls : Signalled(c) => pc[c] = "in"
  /\ \A c \in Calls : sessions[Id[c]] = c /\ (run[c] = "done" \/ cancelReq[c] \/ Signalled(c))
                        => Awaited(c)

\* Every step keeps it.
LEMMA NoOrphanKept ==
  ASSUME OneCallPerId, OpInv, SelfCleaned, NoOrphan, [Next]_vars
  PROVE  NoOrphan'
<1>t. TypeInv /\ TableTyped /\ RunTyped /\ OpTyped /\ HoldersConsistent
  BY DEF OpInv, CountersInv, TypeInv
<1>d. \A c \in Calls : pc[c] = "in" => pc'[c] = "in"
  BY DoneForever
(* Steps that send nothing and end no task behind its waiters' back.       *)
<1>p. ASSUME budget' = budget, wire' \subseteq wire,
             \A c \in Calls : sessions'[Id[c]] = c =>
                /\ sessions[Id[c]] = c
                /\ run'[c] = "done" \/ cancelReq'[c] => run[c] = "done" \/ cancelReq[c] \/ Signalled(c)
                /\ Awaited(c) => Awaited(c)'
      PROVE  NoOrphan'
  <2>1. ASSUME NEW c \in Calls, Signalled(c)' PROVE Signalled(c)
    BY <1>p, <2>1 DEF Signalled
  <2> QED
    BY <1>p, <1>d, <2>1 DEF NoOrphan
<1>q. ASSUME budget' = budget, wire' \subseteq wire,
             \A o \in Ops : op[o].pc \in {"wait", "forced"} => op'[o] = op[o],
             \A c \in Calls : sessions'[Id[c]] = c =>
                /\ sessions[Id[c]] = c
                /\ run'[c] = "done" \/ cancelReq'[c] => run[c] = "done" \/ cancelReq[c] \/ Signalled(c)
      PROVE  NoOrphan'
  <2>1. ASSUME NEW c \in Calls, Awaited(c) PROVE Awaited(c)'
    BY <1>q, <2>1 DEF Awaited
  <2> QED
    BY <1>p, <1>q, <2>1
<1>1. ASSUME Aside, budget' = budget, sessions' = sessions \/ \E k \in ConfigJobs : StartConfig(k) \/ EndConfig(k)
      PROVE  NoOrphan'
  <2>1. ASSUME NEW c \in Calls PROVE sessions'[Id[c]] = sessions[Id[c]]
    <3>1. ASSUME NEW k \in ConfigJobs, StartConfig(k) \/ EndConfig(k) PROVE sessions'[Id[c]] = sessions[Id[c]]
      <4>1. Id[c] # k /\ Id[c] \in Keys
        BY Names
      <4> QED
        BY <1>t, <3>1, <4>1 DEF StartConfig, EndConfig, TableTyped
    <3> QED
      BY <1>1, <3>1
  <2> QED
    BY <1>1, <1>q, <2>1 DEF Aside
<1>2. ASSUME NEW c \in Calls, Register(c) PROVE NoOrphan'
  <2>1. /\ pc[c] = "slot" /\ UNCHANGED <<op, wire, budget, cancelReq>>
        /\ run' = [run EXCEPT ![c] = "created"] /\ sessions' = [sessions EXCEPT ![Id[c]] = c]
    BY <1>2 DEF Register, control, signals
  <2>2. ~cancelReq[c] /\ ~Signalled(c)
    BY <2>1 DEF NoOrphan, OpInv, TablesAgree
  <2>3. ASSUME NEW d \in Calls, d # c, sessions'[Id[d]] = d PROVE sessions[Id[d]] = d /\ run'[d] = run[d]
    BY <1>t, <2>1, <2>3, Names DEF TableTyped, RunTyped
  <2>4. run'[c] = "created"
    BY <1>t, <2>1 DEF RunTyped
  <2>5. \A d \in Calls : (Signalled(d)' <=> Signalled(d)) /\ (Awaited(d)' <=> Awaited(d))
    BY <2>1 DEF Signalled, Awaited
  <2> QED
    BY <1>d, <2>1, <2>2, <2>3, <2>4, <2>5 DEF NoOrphan
<1>3. ASSUME NEW c \in Calls, Moves(c) \/ Dies(c) PROVE NoOrphan'
  <2>1. /\ UNCHANGED <<op, wire, budget, sessions>>
        /\ \E b \in BOOLEAN : cancelReq' = [cancelReq EXCEPT ![c] = cancelReq[c] /\ b]
        /\ \/ \E p \in {"running", "acking", "draining"} : run' = [run EXCEPT ![c] = p]
           \/ cancelReq[c] /\ run' = [run EXCEPT ![c] = "done"]
    BY <1>3 DEF Moves, Dies, Over, table, Elsewhere
  <2>2. \A d \in Calls : run'[d] = "done" \/ cancelReq'[d] => run[d] = "done" \/ cancelReq[d]
    BY <1>t, <2>1 DEF RunTyped
  <2> QED
    BY <1>q, <2>1, <2>2
<1>4. ASSUME NEW c \in Calls, Finalizes(c) PROVE NoOrphan'
  <2>1. /\ UNCHANGED <<op, wire, budget>> /\ Evict(Id[c], c)
        /\ \E b \in BOOLEAN : cancelReq' = [cancelReq EXCEPT ![c] = cancelReq[c] /\ b]
        /\ \E p \in {"cleaning", "done"} : run' = [run EXCEPT ![c] = p]
    BY <1>4 DEF Finalizes, Finalize, Over, Elsewhere
  <2>2. ASSUME NEW d \in Calls, sessions'[Id[d]] = d
        PROVE  /\ sessions[Id[d]] = d
               /\ run'[d] = "done" \/ cancelReq'[d] => run[d] = "done" \/ cancelReq[d]
    <3>1. Id[d] # Id[c] /\ d # c
      BY <1>t, <2>1, <2>2, EvictEffect, Names
    <3>2. sessions'[Id[d]] = sessions[Id[d]]
      BY <1>t, <2>1, <3>1, EvictEffect, Names
    <3> QED
      BY <1>t, <2>1, <2>2, <3>1, <3>2 DEF RunTyped
  <2> QED
    BY <1>q, <2>1, <2>2
<1>5. ASSUME NEW c \in Calls, CleanupReturns(c) PROVE NoOrphan'
  <2>1. /\ UNCHANGED <<op, wire, budget, sessions>> /\ run[c] = "cleaning"
        /\ run' = [run EXCEPT ![c] = "done"] /\ cancelReq' = [cancelReq EXCEPT ![c] = FALSE]
    BY <1>5 DEF CleanupReturns, Over, FinishCleanup, signals
  <2>2. sessions[Id[c]] # c
    BY <1>t, <2>1, Names DEF SelfCleaned, HoldersConsistent
  <2> QED
    BY <1>t, <1>q, <2>1, <2>2 DEF RunTyped
<1>6. ASSUME NEW i \in Ids, NEW a \in Actions, SendSignal(i, a) PROVE NoOrphan'
  BY <1>6 DEF SendSignal, NoOrphan
<1>7. ASSUME NEW m \in wire, DispatchSignal(m) PROVE NoOrphan'
  <2>1. /\ UNCHANGED <<op, budget, sessions, run>> /\ wire' \subseteq wire
        /\ \/ cancelReq' = cancelReq
           \/ refs[m.key] # NoOne /\ cancelReq' = [cancelReq EXCEPT ![refs[m.key]] = TRUE]
    BY <1>7 DEF DispatchSignal, table, control
  <2>2. m.key \in Ids
    BY <1>t DEF TypeInv, SignalsTyped
  <2>3. refs[m.key] # NoOne => refs[m.key] \in Calls /\ Signalled(refs[m.key])
    BY <1>t, <2>2 DEF OpInv, TablesAgree, RunTyped, Signalled
  <2>4. \A d \in Calls : cancelReq'[d] => cancelReq[d] \/ Signalled(d)
    BY <1>t, <2>1, <2>3 DEF RunTyped
  <2> QED
    BY <1>q, <2>1, <2>4
<1>8. ASSUME NEW o \in Ops, NEW k \in Keys, NEW ok \in BOOLEAN, Pops(o, k, ok) PROVE NoOrphan'
  <2>1. /\ UNCHANGED <<wire, budget, run, cancelReq>> /\ Evict(k, o) /\ Cause(o, k, ok)
        /\ \A q \in Ops \ {o} : op'[q] = op[q]
    BY <1>t, <1>8, LeaveEffect DEF Pops, Leave, Elsewhere
  <2>2. ASSUME NEW c \in Calls, sessions'[Id[c]] = c
        PROVE  sessions[Id[c]] = c /\ (Awaited(c) => Awaited(c)')
    <3>1. Id[c] # k /\ sessions[Id[c]] = c
      BY <1>t, <2>1, <2>2, EvictEffect, Names
    <3>2. op[o].pc \in {"wait", "forced"} => op[o].call # c
      BY <2>1, <3>1 DEF Cause, Begins, OpInv, OpSound
    <3> QED
      BY <2>1, <3>1, <3>2 DEF Awaited
  <2> QED
    BY <1>p, <2>1, <2>2
<1>9. ASSUME NEW o \in Ops, \E k \in Keys : Opens(o, k) PROVE NoOrphan'
  <2>1. /\ UNCHANGED <<wire, budget, run, cancelReq, sessions>>
        /\ op[o].pc \notin {"wait", "forced"} /\ \A q \in Ops \ {o} : op'[q] = op[q]
    BY <1>t, <1>9 DEF Opens, Begins, Elsewhere, table, OpTyped
  <2> QED
    BY <1>q, <2>1
<1>10. ASSUME NEW o \in Ops, PublishCancel(o) PROVE NoOrphan'
  <2>1. /\ UNCHANGED <<budget, run, cancelReq, sessions, pc>>
        /\ wire' = wire \cup {Signal(op[o].key, "cancel")}
        /\ op[o].pc = "signal" /\ op'[o].pc = "wait" /\ op'[o].call = op[o].call
        /\ \A q \in Ops \ {o} : op'[q] = op[q]
    BY <1>t, <1>10, SetOpEffect DEF PublishCancel, admission, table, executor
  <2>2. op[o].call \in Calls /\ Id[op[o].call] = op[o].key /\ pc[op[o].call] = "in"
    BY <1>t, <2>1 DEF TypeInv, OpsKnowTheirTask, OpInv, OpSound
  <2>3. \A c \in Calls : Awaited(c) => Awaited(c)'
    BY <2>1 DEF Awaited
  <2>4. Awaited(op[o].call)'
    BY <2>1 DEF Awaited
  <2>5. \A c \in Calls : Signalled(c)' => Signalled(c) \/ c = op[o].call
    BY <2>1, <2>2 DEF Signalled, Signal, OneCallPerId
  <2> QED
    BY <2>1, <2>2, <2>3, <2>4, <2>5 DEF NoOrphan
<1>11. ASSUME NEW o \in Ops, WaitTimesOut(o) PROVE NoOrphan'
  <2>1. /\ UNCHANGED <<budget, run, wire, sessions, pc>>
        /\ op[o].pc = "wait" /\ cancelReq' = [cancelReq EXCEPT ![op[o].call] = TRUE]
        /\ op'[o].pc = "forced" /\ op'[o].call = op[o].call
        /\ \A q \in Ops \ {o} : op'[q] = op[q]
    BY <1>t, <1>11, SetOpEffect DEF WaitTimesOut, admission, table, signals
  <2>3. \A c \in Calls : Awaited(c) => Awaited(c)'
    BY <2>1 DEF Awaited
  <2>4. Awaited(op[o].call)'
    BY <2>1 DEF Awaited
  <2>5. \A c \in Calls : cancelReq'[c] => cancelReq[c] \/ c = op[o].call
    BY <1>t, <2>1 DEF RunTyped
  <2>6. \A c \in Calls : Signalled(c)' <=> Signalled(c)
    BY <2>1 DEF Signalled
  <2> QED
    BY <2>1, <2>3, <2>4, <2>5, <2>6 DEF NoOrphan
<1>12. ASSUME NEW o \in Ops, OpCleanupReturns(o) PROVE NoOrphan'
  <2>1. /\ UNCHANGED <<wire, budget, run, cancelReq, sessions>>
        /\ op[o].pc = "cleaning" /\ \A q \in Ops \ {o} : op'[q] = op[q]
    BY <1>t, <1>12, SetOpEffect DEF OpCleanupReturns, FinishCleanup, executor, signals
  <2> QED
    BY <1>q, <2>1
<1>13. CASE Shutdown \/ StartSweep \/ ShutdownReturns
  <2>1. UNCHANGED <<wire, budget, run, cancelReq, sessions>>
    BY <1>13 DEF Shutdown, StartSweep, ShutdownReturns, table, executor, signals
  <2>2. ASSUME NEW o \in Ops, op[o].pc \in {"wait", "forced"} PROVE op'[o] = op[o]
    <3>1. CASE Shutdown
      <4>1. o \notin Keys
        BY <2>2, <3>1 DEF Shutdown, OpInv, OpSound
      <4> QED
        BY <3>1, <4>1, Names DEF Shutdown
    <3>2. CASE StartSweep
      <4>1. o \notin Keys
        BY <2>2, <3>2 DEF StartSweep, Settled
      <4> QED
        BY <3>2, <4>1 DEF StartSweep
    <3>3. CASE ShutdownReturns
      BY <3>3 DEF ShutdownReturns
    <3> QED
      BY <1>13, <3>1, <3>2, <3>3
  <2> QED
    BY <1>q, <2>1, <2>2
<1>14. ASSUME NEW o \in Ops, Operates(o) PROVE NoOrphan'
  BY <1>8, <1>9, <1>10, <1>11, <1>12, <1>14 DEF Operates
<1> QED
  BY <1>t, TaskSteps, <1>1, <1>2, <1>3, <1>4, <1>5, <1>6, <1>7, <1>13, <1>14

(* Nobody holds an admission when no task and no operation is under way.   *)
LEMMA NobodyHolds ==
  ASSUME OpInv, SelfCleaned, NoOrphan, Quiescent
  PROVE  Holders = {}
<1> SUFFICES ASSUME NEW c \in Calls, sessions[Id[c]] = c \/ cleaner[c] # NoOne PROVE FALSE
  BY DEF Holders
<1>t. TypeInv /\ TableTyped /\ HoldersConsistent /\ FateSettled(c)
  BY DEF OpInv, CountersInv, TypeInv, FateInv, FatesSettled
<1>q. /\ run[c] \in {"none", "done"}
      /\ \A o \in Ops : op[o].pc \in {"idle", "done"}
  BY DEF Quiescent, Live
<1>1. CASE sessions[Id[c]] = c
  <2>1. pc[c] = "in" /\ run[c] = "done"
    BY <1>t, <1>q, <1>1 DEF HoldersConsistent, FateSettled
  <2> QED
    BY <1>1, <1>q, <2>1 DEF NoOrphan, Awaited
<1>2. CASE cleaner[c] # NoOne
  <2>1. cleaner[c] \in Calls \/ cleaner[c] \in Ops
    BY <1>t, <1>2, Names DEF TableTyped, Agents
  <2>2. cleaner[c] \in Calls => run[c] = "cleaning"
    BY Names DEF SelfCleaned
  <2>3. cleaner[c] \in Ops => op[cleaner[c]].pc = "cleaning"
    BY Names DEF OpInv, CleanersApart
  <2> QED
    BY <1>q, <2>1, <2>2, <2>3
<1> QED
  BY <1>1, <1>2

(* Once no task, no call and no operation is under way, semaphores and     *)
(* counters are as at the start, with failing publishes and a shutdown on  *)
(* the way: when every call has an id to itself and only cancel_task       *)
(* cancels (a signal from outside may end a task before its on_finalize,   *)
(* and nobody then cleans up).                                             *)
THEOREM QuiescenceRestores ==
  ASSUME OneCallPerId, ConfigJobs = {}, MaxSignals = 0
  PROVE  Spec => []QuiescentRestored
<1> DEFINE Inv == /\ SelfCleaned /\ NoOrphan
                  /\ MaxQueued = 0 => gate = MaxConc /\ waiting = 0
<1>1. Init => Inv
  <2> SUFFICES ASSUME Init PROVE Inv
    OBVIOUS
  <2>1. /\ \A c \in Calls : run[c] = "none" /\ sessions[Id[c]] = NoOne
        /\ \A x \in Owners : cleaner[x] = NoOne
        /\ budget = 0 /\ wire = {} /\ gate = MaxConc + MaxQueued /\ waiting = 0
    BY Names DEF Init
  <2> QED
    BY <2>1, Names, Bounds DEF SelfCleaned, NoOrphan, Signalled
<1>2. OpInv /\ Inv /\ [Next]_vars => Inv'
  <2> SUFFICES ASSUME OpInv, Inv, [Next]_vars PROVE Inv'
    OBVIOUS
  <2>1. MaxQueued = 0 => gate' = gate /\ waiting' = waiting
    BY SemaphoreSteps DEF OpInv
  <2> QED
    BY <2>1, SelfCleanedKept, NoOrphanKept
<1>3. OpInv /\ Inv /\ PermitsConserved => QuiescentRestored
  <2> SUFFICES ASSUME OpInv, Inv, PermitsConserved, Quiescent
               PROVE  slot = MaxConc /\ active = 0 /\ waiting = 0 /\ gate = MaxConc + MaxQueued
    BY DEF QuiescentRestored
  <2>t. slot \in Int /\ active \in Int /\ gate \in Int /\ waiting \in Int /\ CountersExact
    BY DEF OpInv, CountersInv, TypeInv, AdmissionTyped
  <2>1. Holders = {} /\ Evicted = {} /\ {c \in Calls : pc[c] = "slot"} = {}
    BY NobodyHolds DEF Evicted, Quiescent
  <2>2. active = 0 /\ (MaxQueued > 0 => waiting = 0)
    BY <2>1, FS_EmptySet DEF CountersExact, OpInv, CountersInv
  <2> QED
    BY <2>t, <2>2, Bounds DEF PermitsConserved
<1> HIDE DEF Inv
<1> QED
  BY <1>1, <1>2, <1>3, OpInit, OpKept, PermitsNeverLost, PTL DEF Spec
=============================================================================
