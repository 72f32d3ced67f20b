---------------------------- MODULE StorageRecords ----------------------------
(* Records of the storage service as the coroutines of one or more tasks see *)
(* them: StorageStrategy with its lock per record, over GrpcStorage.         *)
(*                                                                           *)
(* Every task builds a strategy of its own, so the locks order the           *)
(* operations of one task only.  The lock of a record is looked up when an   *)
(* operation is called and the entry is dropped after a removal, whoever     *)
(* waits for it; a later operation then makes a new lock.                    *)
(*                                                                           *)
(* A remote call takes effect and answers, or fails: before it had its       *)
(* effect, after it (the answer is lost, or a retry of a StoreRecord that    *)
(* was applied finds the record there), or before an effect it has later     *)
(* (the deadline passed while the service was at it).                        *)
EXTENDS Naturals, FiniteSets

CONSTANTS
  Clients,      \* coroutines that use the storage
  Strategies,   \* strategy objects, one per task
  StrategyOf,   \* the strategy of each client
  Records,      \* (context, collection, record_id)
  Collections,  \* the collection of each record
  Values,       \* payloads
  Misfits,      \* payloads that do not validate against the collection's model
  Absent,       \* no record
  MaxLocks,     \* bound: locks ever made
  MaxFaults     \* bound: remote calls that fail

ASSUME StorageAssumption ==
  /\ StrategyOf \in [Clients -> Strategies]
  /\ Absent \notin Values \cup Misfits
  /\ MaxLocks \in Nat
  /\ MaxFaults \in Nat

VARIABLES
  stored,    \* what the service holds
  locks,     \* _record_locks: the number of the record's lock, 0 if it has none
  made,      \* locks made so far
  op,        \* the operation of each client
  late,      \* failed calls that may still take effect
  faults,    \* failed calls so far
  disturbed  \* history: <<strategy, record>> pairs with an event the locks do not order

svars == <<stored, locks, made, op, late, faults, disturbed>>

Locking == {"store", "read", "update", "remove", "upsert"}
Kinds   == Locking \cup {"list", "wipe"}

Ok     == "ok"      \* the record, the list, or True
Nothing == "none"   \* None, False or []
Raised == "raised"  \* StorageServiceError
Denied == "denied"  \* PermissionDeniedError

NoOp == [kind |-> "read", rec |-> CHOOSE r \in Records : TRUE, val |-> Absent,
         pc |-> "idle", lk |-> 0, seen |-> Absent, out |-> Ok]

StorageInit ==
  /\ stored \in [Records -> Values \cup Misfits \cup {Absent}]
  /\ locks = [s \in Strategies |-> [r \in Records |-> 0]]
  /\ made = 0
  /\ op = [c \in Clients |-> NoOp]
  /\ late = {}
  /\ faults = 0
  /\ disturbed = {}

(***************************************************************************)
(* The remote calls: what the service holds afterwards, and what the       *)
(* strategy's method returns.                                              *)
(***************************************************************************)
Outcome(after, out, seen) == [after |-> after, out |-> out, seen |-> seen]

Put(r, v) == [stored EXCEPT ![r] = v]
SameCollection(r) == {q \in Records : Collections[q] = Collections[r]}

\* StoreRecord refuses a record that exists; every failure is raised.
StoreRecord(r, v) ==
  IF stored[r] = Absent THEN Outcome(Put(r, v), Ok, v) ELSE Outcome(stored, Raised, Absent)

\* _build_record_from_proto validates what the service answers.
Readable(r) == stored[r] \notin Misfits \cup {Absent}

\* A record that is not there, one of another shape and a call that failed all
\* read as None.
ReadRecord(r) ==
  IF Readable(r) THEN Outcome(stored, Ok, stored[r]) ELSE Outcome(stored, Nothing, Absent)

UpdateRecord(r, v) ==
  IF stored[r] = Absent THEN Outcome(stored, Nothing, Absent) ELSE Outcome(Put(r, v), Ok, v)

RemoveRecord(r) ==
  IF stored[r] = Absent THEN Outcome(stored, Nothing, Absent) ELSE Outcome(Put(r, Absent), Ok, Absent)

ListRecords(r) ==
  Outcome(stored, IF \E q \in SameCollection(r) : Readable(q) THEN Ok ELSE Nothing, Absent)

RemoveCollection(r) ==
  Outcome([q \in Records |-> IF q \in SameCollection(r) THEN Absent ELSE stored[q]], Ok, Absent)

Rpc(kind, r, v) ==
  CASE kind = "store"  -> StoreRecord(r, v)
    [] kind = "read"   -> ReadRecord(r)
    [] kind = "update" -> UpdateRecord(r, v)
    [] kind = "remove" -> RemoveRecord(r)
    [] kind = "list"   -> ListRecords(r)
    [] kind = "wipe"   -> RemoveCollection(r)

\* exec_grpc_query gave up: only StoreRecord lets its caller know.
OnFailure(kind) == IF kind = "store" THEN Raised ELSE Nothing

(***************************************************************************)
(* The public methods                                                      *)
(***************************************************************************)
NewLock(c, r) ==
  /\ made < MaxLocks
  /\ made' = made + 1
  /\ locks' = [locks EXCEPT ![StrategyOf[c]][r] = made + 1]

\* _record_lock: setdefault in the strategy's table.
RecordLock(c, r) ==
  IF locks[StrategyOf[c]][r] # 0 THEN UNCHANGED <<locks, made>> ELSE NewLock(c, r)

HoldersInside(s, r, lk) ==
  {c \in Clients : StrategyOf[c] = s /\ op[c].rec = r /\ op[c].lk = lk /\ op[c].pc = "inside"}

Holders(s, r, lk) ==
  {c \in Clients : /\ StrategyOf[c] = s /\ op[c].rec = r /\ op[c].lk = lk
                   /\ op[c].pc \in {"inside", "writing"}}

\* The methods that take the record's lock look it up and queue on it.
Call(c, kind, r, v) ==
  /\ op[c].pc = "idle"
  /\ kind \in Locking
  /\ RecordLock(c, r)
  /\ op' = [op EXCEPT ![c] = [NoOp EXCEPT !.kind = kind, !.rec = r, !.val = v,
                                         !.pc = "waiting", !.lk = locks'[StrategyOf[c]][r]]]
  /\ UNCHANGED <<stored, late, faults, disturbed>>

\* list and remove_collection take no lock.
CallUnlocked(c, kind, r) ==
  /\ op[c].pc = "idle"
  /\ kind \in Kinds \ Locking
  /\ op' = [op EXCEPT ![c] = [NoOp EXCEPT !.kind = kind, !.rec = r, !.pc = "inside"]]
  /\ UNCHANGED <<stored, locks, made, late, faults, disturbed>>

\* The payload of a writing method is validated before anything else.
Store(c, r, v)  == v \notin Misfits /\ Call(c, "store", r, v)
Update(c, r, v) == v \notin Misfits /\ Call(c, "update", r, v)
Upsert(c, r, v) == v \notin Misfits /\ Call(c, "upsert", r, v)
Read(c, r)      == Call(c, "read", r, Absent)
Delete(c, r)    == Call(c, "remove", r, Absent)
List(c, r)      == CallUnlocked(c, "list", r)
Wipe(c, r)      == CallUnlocked(c, "wipe", r)

Acquire(c) ==
  /\ op[c].pc = "waiting"
  /\ Holders(StrategyOf[c], op[c].rec, op[c].lk) = {}
  /\ op' = [op EXCEPT ![c].pc = "inside"]
  /\ UNCHANGED <<stored, locks, made, late, faults, disturbed>>

\* remove pops the entry of its record, remove_collection those of the
\* collection; both after the remote call, and only if it succeeded.
Gone(c, kind, out) ==
  IF out # Ok THEN {}
  ELSE CASE kind = "remove" -> {op[c].rec}
         [] kind = "wipe"   -> SameCollection(op[c].rec)
         [] OTHER           -> {}

DropLocks(c, kind, out) ==
  locks' = [locks EXCEPT ![StrategyOf[c]] =
              [r \in Records |-> IF r \in Gone(c, kind, out) THEN 0 ELSE @[r]]]

\* What the locks of strategy s do not order: another strategy's effect on the
\* record, and whatever follows the loss of the record's lock.
Touched(after) == {r \in Records : after[r] # stored[r]}
Disturb(c, kind, res) ==
  disturbed' = disturbed
    \cup ((Strategies \ {StrategyOf[c]}) \X Touched(res.after))
    \cup ({StrategyOf[c]} \X Gone(c, kind, res.out))

Done(c, out, seen) == op' = [op EXCEPT ![c].pc = "done", ![c].out = out, ![c].seen = seen]

\* The rest of the method once its remote call answered.  upsert goes on to
\* write: an update of the record it read, or a store of a new one.
Settle(c, kind, out, seen) ==
  IF op[c].kind = "upsert" /\ op[c].pc = "inside"
  THEN /\ op' = [op EXCEPT ![c].pc = "writing", ![c].seen = seen]
       /\ UNCHANGED locks
  ELSE /\ Done(c, IF op[c].kind = "upsert" /\ out = Nothing THEN Raised ELSE out, seen)
       /\ DropLocks(c, kind, out)

UpsertStep(c) ==
  IF op[c].pc = "inside" THEN "read"
  ELSE IF op[c].seen = Absent THEN "store" ELSE "update"

RpcOf(c) == IF op[c].kind = "upsert" THEN UpsertStep(c) ELSE op[c].kind

Busy(c) == op[c].pc \in {"inside", "writing"}

Answered(c) ==
  /\ Busy(c)
  /\ LET kind == RpcOf(c)
         res  == Rpc(kind, op[c].rec, op[c].val) IN
     /\ stored' = res.after
     /\ Settle(c, kind, res.out, res.seen)
     /\ Disturb(c, kind, res)
  /\ UNCHANGED <<made, late, faults>>

Fail(c, kind) ==
  /\ faults < MaxFaults
  /\ faults' = faults + 1
  /\ Settle(c, kind, OnFailure(kind), Absent)
  /\ UNCHANGED made

FaultAt(c) == {<<StrategyOf[c], op[c].rec>>}

\* The call failed before it had an effect.
Unsent(c) ==
  /\ Busy(c)
  /\ Fail(c, RpcOf(c))
  /\ disturbed' = disturbed \cup FaultAt(c)
  /\ UNCHANGED <<stored, late>>

\* The call failed although it had its effect.
AnswerLost(c) ==
  /\ Busy(c)
  /\ Fail(c, RpcOf(c))
  /\ stored' = Rpc(RpcOf(c), op[c].rec, op[c].val).after
  /\ disturbed' = disturbed \cup FaultAt(c) \cup (Strategies \X Touched(stored'))
  /\ UNCHANGED late

\* The deadline passed while the service was still at it.
GivenUp(c) ==
  /\ Busy(c)
  /\ RpcOf(c) \in {"store", "update", "remove"}
  /\ Fail(c, RpcOf(c))
  /\ late' = late \cup {[kind |-> RpcOf(c), rec |-> op[c].rec, val |-> op[c].val]}
  /\ disturbed' = disturbed \cup FaultAt(c)
  /\ UNCHANGED stored

LateEffect ==
  \E w \in late :
    /\ late' = late \ {w}
    /\ stored' = Rpc(w.kind, w.rec, w.val).after
    /\ disturbed' = disturbed \cup (Strategies \X Touched(stored'))
    /\ UNCHANGED <<locks, made, op, faults>>

\* PERMISSION_DENIED passes through every method.
Refused(c) ==
  /\ Busy(c)
  /\ faults < MaxFaults
  /\ faults' = faults + 1
  /\ Done(c, Denied, Absent)
  /\ UNCHANGED <<stored, locks, made, late, disturbed>>

\* The caller takes the result.
Return(c) ==
  /\ op[c].pc = "done"
  /\ op' = [op EXCEPT ![c] = NoOp]
  /\ UNCHANGED <<stored, locks, made, late, faults, disturbed>>

Backend(c) ==
  \/ Acquire(c) \/ Answered(c) \/ Unsent(c) \/ AnswerLost(c) \/ GivenUp(c) \/ Refused(c)
=============================================================================
