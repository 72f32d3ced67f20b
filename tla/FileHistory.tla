----------------------------- MODULE FileHistory -----------------------------
(* The file history a trigger handler keeps through FileHistoryMixin: files  *)
(* are appended to a cached history, which is loaded once and written back   *)
(* by batches, when the handler returns and when the module stops.           *)
(*                                                                           *)
(* Writers are coroutines of a handler that append files; the runner of a    *)
(* handler is the task that runs it: it flushes after handle() and again in  *)
(* stop().  Visitors are other users of the storage.                         *)
EXTENDS StorageRecords, SequencesExt

CONSTANTS
  Handlers,    \* handler objects
  Writers,     \* coroutines that append
  Visitors,    \* other users of the storage
  HandlerOf,   \* the handler of each writer and runner
  Runner,      \* the client that runs each handler
  HistoryOf,   \* the record a handler keeps its history in
  FileOf,      \* the file each writer appends
  Threshold,   \* file_history_flush_threshold
  Nobody,      \* no one holds the flush lock
  MaxVisits    \* bound: operations of the visitors

Runners == {Runner[h] : h \in Handlers}
HistoryFiles == {FileOf[w] : w \in Writers} \cup (UNION {ToSet(v) : v \in Values})

ASSUME HistoryAssumption ==
  /\ Threshold \in Nat \ {0}
  /\ Writers \cup Visitors \cup Runners = Clients
  /\ Nobody \notin Clients
  \* A handler is run by a task of its own; who only visits is not its client.
  /\ HandlerOf \in [Writers \cup Runners -> Handlers] /\ (Writers \cup Runners) \cap Visitors = {}
  /\ \A h \in Handlers : HandlerOf[Runner[h]] = h
  /\ HistoryOf \in [Handlers -> Records]
  \* What validates as a history is a list of files.
  /\ Values \subseteq Seq(HistoryFiles) /\ Absent \notin Seq(HistoryFiles)

VARIABLES
  cache,      \* _fh_cache, Absent if the key is not cached
  persisted,  \* _fh_persisted
  dirty,      \* _fh_dirty
  flusher,    \* who holds the flush lock
  fpc,        \* where each writer and runner stands
  appended,   \* history: files whose append returned
  excused,    \* history: what can cost the handler a file
  visits

hvars == <<cache, persisted, dirty, flusher, fpc, appended, excused, visits>>
fhvars == <<svars, hvars>>

HistoryInit ==
  /\ StorageInit
  /\ cache = [h \in Handlers |-> Absent]
  /\ persisted = {}
  /\ dirty = [h \in Handlers |-> 0]
  /\ flusher = [h \in Handlers |-> Nobody]
  /\ fpc = [c \in Writers \cup Runners |-> "idle"]
  /\ appended = [h \in Handlers |-> {}]
  /\ excused = [h \in Handlers |-> {}]
  /\ visits = 0

Goto(c, l) == fpc' = [fpc EXCEPT ![c] = l]

(***************************************************************************)
(* append_files_history                                                    *)
(***************************************************************************)
\* The files are in the cache at once; the write waits for the threshold.
Extend(w, history) ==
  LET h == HandlerOf[w] IN
  /\ cache' = [cache EXCEPT ![h] = Append(history, FileOf[w])]
  /\ dirty' = [dirty EXCEPT ![h] = @ + 1]
  /\ appended' = [appended EXCEPT ![h] = @ \cup {FileOf[w]}]
  /\ Goto(w, IF dirty[h] + 1 >= Threshold THEN "locking" ELSE "ended")

AppendCached(w) ==
  /\ fpc[w] = "idle"
  /\ cache[HandlerOf[w]] # Absent
  /\ Extend(w, cache[HandlerOf[w]])
  /\ UNCHANGED <<svars, persisted, flusher, excused, visits>>

\* load_file_history asks the storage when the key is not cached.
LoadHistory(w) ==
  /\ fpc[w] = "idle"
  /\ cache[HandlerOf[w]] = Absent
  /\ Read(w, HistoryOf[HandlerOf[w]])
  /\ Goto(w, "loading")
  /\ UNCHANGED <<cache, persisted, dirty, flusher, appended, excused, visits>>

Found(w) == IF op[w].out = Ok THEN op[w].seen ELSE <<>>

\* What the read found, or an empty history, replaces what the cache holds by
\* now: "raced" if another load was first, "blind" if there was a history.
Loaded(w) ==
  LET h == HandlerOf[w] IN
  /\ fpc[w] = "loading"
  /\ Return(w)
  /\ op[w].out \in {Ok, Nothing}
  /\ Extend(w, Found(w))
  /\ persisted' = IF op[w].out = Ok THEN persisted \cup {h} ELSE persisted
  /\ excused' = [excused EXCEPT ![h] = @
       \cup (IF cache[h] # Absent THEN {"raced"} ELSE {})
       \cup (IF op[w].out = Nothing /\ stored[HistoryOf[h]] # Absent THEN {"blind"} ELSE {})]
  /\ UNCHANGED <<flusher, visits>>

\* The read is refused: the append raises before it appended anything.
LoadRefused(w) ==
  /\ fpc[w] = "loading"
  /\ op[w].out = Denied
  /\ Return(w)
  /\ Goto(w, "ended")
  /\ UNCHANGED <<cache, persisted, dirty, flusher, appended, excused, visits>>

(***************************************************************************)
(* flush_file_history and _flush_fh_key                                    *)
(***************************************************************************)
AfterFlush(c) ==
  IF c \in Writers \/ fpc[c] \in {"stop_locking", "stop_flushing"} THEN "ended" ELSE "stopping"

\* The runner flushes once its writers are through, and again in stop().
Flush(c) ==
  LET h == HandlerOf[c]
      stopping == fpc[c] = "stopping" IN
  /\ c \in Runners
  /\ fpc[c] \in {"idle", "stopping"}
  /\ \A w \in Writers : HandlerOf[w] = h => fpc[w] = "ended"
  /\ Goto(c, IF dirty[h] = 0
             THEN IF stopping THEN "ended" ELSE "stopping"
             ELSE IF stopping THEN "stop_locking" ELSE "locking")
  /\ UNCHANGED <<svars, cache, persisted, dirty, flusher, appended, excused, visits>>

Locked(c) ==
  /\ fpc[c] \in {"locking", "stop_locking"}
  /\ flusher[HandlerOf[c]] = Nobody

\* Someone else flushed meanwhile.
NothingToFlush(c) ==
  /\ Locked(c)
  /\ dirty[HandlerOf[c]] = 0
  /\ Goto(c, AfterFlush(c))
  /\ UNCHANGED <<svars, cache, persisted, dirty, flusher, appended, excused, visits>>

WriteHistory(c) ==
  LET h == HandlerOf[c] IN
  /\ Locked(c)
  /\ dirty[h] > 0
  /\ IF h \in persisted THEN Update(c, HistoryOf[h], cache[h]) ELSE Upsert(c, HistoryOf[h], cache[h])
  /\ flusher' = [flusher EXCEPT ![h] = c]
  /\ Goto(c, IF fpc[c] = "locking" THEN "flushing" ELSE "stop_flushing")
  /\ UNCHANGED <<cache, persisted, dirty, appended, excused, visits>>

\* The write came back without an exception, be it None: the history counts as
\* clean, with what was appended since ("overlap") and what was not written
\* ("unwritten").
Flushed(c) ==
  LET h == HandlerOf[c] IN
  /\ fpc[c] \in {"flushing", "stop_flushing"}
  /\ Return(c)
  /\ op[c].out \in {Ok, Nothing}
  /\ persisted' = persisted \cup {h}
  /\ dirty' = [dirty EXCEPT ![h] = 0]
  /\ flusher' = [flusher EXCEPT ![h] = Nobody]
  /\ excused' = [excused EXCEPT ![h] = @
       \cup (IF cache[h] # op[c].val THEN {"overlap"} ELSE {})
       \cup (IF op[c].out = Nothing THEN {"unwritten"} ELSE {})]
  /\ Goto(c, AfterFlush(c))
  /\ UNCHANGED <<cache, appended, visits>>

\* return before the pop: the history stays dirty for the next flush.
DropDirty(h) == dirty' = [dirty EXCEPT ![h] = 0]
StayDirty(h) == UNCHANGED dirty

\* The exception is logged.
FlushFails(c) ==
  LET h == HandlerOf[c] IN
  /\ fpc[c] \in {"flushing", "stop_flushing"}
  /\ op[c].out \in {Raised, Denied}
  /\ Return(c)
  /\ flusher' = [flusher EXCEPT ![h] = Nobody]
  /\ StayDirty(h)
  /\ Goto(c, AfterFlush(c))
  /\ UNCHANGED <<cache, persisted, appended, excused, visits>>

(***************************************************************************)
(* The storage, and its other users                                        *)
(***************************************************************************)
\* A write to the record of a handler that is not the handler's own.
Foreign(own) ==
  excused' = [h \in Handlers |->
    IF stored'[HistoryOf[h]] # stored[HistoryOf[h]] /\ h \notin own
    THEN excused[h] \cup {"foreign"} ELSE excused[h]]

Owned(c) == IF c \in Visitors THEN {} ELSE {HandlerOf[c]}

Storage ==
  /\ \/ \E c \in Clients : Backend(c) /\ Foreign(Owned(c))
     \/ LateEffect /\ Foreign({})
  /\ UNCHANGED <<cache, persisted, dirty, flusher, fpc, appended, visits>>

Visit(v) ==
  /\ visits < MaxVisits
  /\ visits' = visits + 1
  /\ \E r \in Records :
       \/ Read(v, r) \/ Delete(v, r) \/ List(v, r) \/ Wipe(v, r)
       \/ \E x \in Values : Store(v, r, x) \/ Update(v, r, x) \/ Upsert(v, r, x)
  /\ UNCHANGED <<cache, persisted, dirty, flusher, fpc, appended, excused>>

Leave(v) ==
  /\ Return(v)
  /\ UNCHANGED hvars

HistoryNext ==
  \/ \E w \in Writers : AppendCached(w) \/ LoadHistory(w) \/ Loaded(w) \/ LoadRefused(w)
  \/ \E c \in Writers \cup Runners :
       Flush(c) \/ NothingToFlush(c) \/ WriteHistory(c) \/ Flushed(c) \/ FlushFails(c)
  \/ \E v \in Visitors : Visit(v) \/ Leave(v)
  \/ Storage
-----------------------------------------------------------------------------
\* At most one operation of a strategy is at a record, until the record's lock
\* has been dropped under the others.
OneAtATime ==
  \A c, d \in Clients :
    /\ op[c].pc \in {"inside", "writing"} /\ op[d].pc \in {"inside", "writing"}
    /\ {op[c].kind, op[d].kind} \subseteq Locking
    /\ StrategyOf[c] = StrategyOf[d] /\ op[c].rec = op[d].rec
    /\ <<StrategyOf[c], op[c].rec>> \notin disturbed
    => c = d

\* An upsert is refused only if its strategy's locks could not order it, or the
\* record has another shape.
UpsertServed ==
  [][\A c \in Clients :
       op[c].kind = "upsert" /\ op[c].pc \in {"inside", "writing"} /\ op'[c].out = Raised
         => <<StrategyOf[c], op[c].rec>> \in disturbed' \/ stored[op[c].rec] \in Misfits]_fhvars

\* What the handler appended is stored when its module has stopped, unless the
\* last flush failed or one of the excuses befell it.
FilesKept ==
  \A h \in Handlers :
    fpc[Runner[h]] = "ended" /\ excused[h] = {} /\ dirty[h] = 0 /\ appended[h] # {}
      => /\ Readable(HistoryOf[h])
         /\ appended[h] \subseteq ToSet(stored[HistoryOf[h]])

\* A handler's write keeps the history it found.
HistoryGrows ==
  [][\A h \in Handlers :
       /\ excused'[h] = {}
       /\ Readable(HistoryOf[h])
       => stored'[HistoryOf[h]] # Absent /\ IsPrefix(stored[HistoryOf[h]], stored'[HistoryOf[h]])]_fhvars

(* What a handler appended is kept, under locks that order its operations.   *)
AppendsAreKept == OneAtATime /\ FilesKept

(* What a write of the history may do: it is taken, and adds to what it found. *)
WritesOnlyAdd == UpsertServed /\ HistoryGrows
=============================================================================
