----------------------------- MODULE StreamPull -----------------------------
(* The Stream RPC that a client opens on the gateway to pull the outputs of  *)
(* one task: what it checks first, the reader of the task's Redis stream with*)
(* its saved cursor, the deadline it is driven under, and the second task    *)
(* that writes the client's further messages to the task's input. A client   *)
(* that was cut off opens another with the last label it got; several may be *)
(* open at a time, and all share one session and one cursor.                 *)
EXTENDS FiniteSets, Sequences, Naturals

CONSTANTS
  Pulls,       \* Stream RPCs for the task
  MaxOutputs,  \* bound: outputs of the module
  StreamMax,   \* redis_stream_maxlen
  ReadCount,   \* entries of one XREAD
  SaveEvery,   \* cursor_save_interval
  SeqLimit,    \* from_seq_limit
  MaxMessages, \* bound: messages of one client, its query included
  MaxBreaches  \* bound: Redis errors, keys that expire

ASSUME PullAssumption ==
  /\ MaxOutputs \in Nat /\ StreamMax \in Nat \ {0} /\ ReadCount \in Nat \ {0}
  /\ SaveEvery \in Nat \ {0} /\ SeqLimit \in Nat /\ MaxMessages \in Nat /\ MaxBreaches \in Nat

VARIABLES
  written,     \* entries written so far, numbered from 1
  eos,         \* the entry that is the eos marker, 0 before it is written
  dropped,     \* how many of the oldest entries Redis no longer holds
  cursor,      \* task:{id}:cursor
  taskSession, \* whether the registry has the session of the task
  pull,        \* pull[p]: one RPC
  upstream,    \* upstream[p]: its reader of further messages
  input,       \* task:{id}:input: <<p, n>> is the n-th message of p
  breaches

pvars == <<written, eos, dropped, cursor, taskSession, pull, upstream, input, breaches>>

NoCursor == 0
Breaches == breaches < MaxBreaches /\ breaches' = breaches + 1

PullInit ==
  /\ written = 0 /\ eos = 0 /\ dropped = 0 /\ cursor = NoCursor
  /\ taskSession = TRUE
  /\ pull = [p \in Pulls |-> [at |-> "idle", from |-> 0, joined |-> FALSE, begun |-> 0, read |-> 0,
                              batch |-> <<>>, since |-> 0, got |-> <<>>, told |-> "nothing"]]
  /\ upstream = [p \in Pulls |-> [at |-> "off", sent |-> 0]]
  /\ input = <<>> /\ breaches = 0

PullGoes(p, at) == pull' = [pull EXCEPT ![p].at = at]
Label(p) == pull[p].from + Len(pull[p].got)

(* An XADD, by the module or of a fatal error: it trims to about maxlen.     *)
Writes(last) ==
  /\ eos = 0 /\ written < MaxOutputs + (IF last THEN 1 ELSE 0)
  /\ written' = written + 1
  /\ eos' = IF last THEN written' ELSE 0
  /\ \E n \in dropped..written' : (n > dropped => ~last /\ written' - n = StreamMax) /\ dropped' = n
  /\ UNCHANGED <<cursor, taskSession, pull, upstream, input, breaches>>

\* The stream outlives its TTL, or the cursor does.
StreamExpires == Breaches /\ dropped' = written /\ UNCHANGED cursor
CursorExpires == Breaches /\ cursor' = NoCursor /\ UNCHANGED dropped
Expires ==
  /\ (dropped < written /\ StreamExpires) \/ (cursor # NoCursor /\ CursorExpires)
  /\ UNCHANGED <<written, eos, taskSession, pull, upstream, input>>

\* The dial of the task ends, and with it the session.
SessionEnds ==
  /\ taskSession /\ Breaches
  /\ taskSession' = FALSE
  /\ UNCHANGED <<written, eos, dropped, cursor, pull, upstream, input>>

(***************************************************************************)
(* Stream                                                                  *)
(***************************************************************************)
\* stream.error and stream.end, in one go: _fatal_close and the deadline's.
Fatal(p) == pull' = [pull EXCEPT ![p].at = "ended", ![p].told = "error"]

Stream(p, from) ==
  /\ pull[p].at = "idle"
  /\ pull' = [pull EXCEPT ![p].from = from, ![p].joined = taskSession,
                ![p].at = IF from > SeqLimit THEN "ended" ELSE "asking",
                ![p].told = IF from > SeqLimit THEN "error" ELSE "nothing"]
  /\ UNCHANGED <<written, eos, dropped, cursor, taskSession, upstream, input, breaches>>

(* A late client is served what Redis still holds. *)
LateClient(p) ==
  /\ pull[p].at = "asking" /\ ~pull[p].joined
  /\ IF written > dropped THEN PullGoes(p, "seeking") ELSE Fatal(p)
  /\ UNCHANGED <<written, eos, dropped, cursor, taskSession, upstream, input, breaches>>

(* The query, if the first message has one, then the reader of further ones. *)
TakesQuery(p) ==
  /\ pull[p].at = "asking" /\ pull[p].joined
  /\ \E n \in {0, 1} :
       /\ n <= MaxMessages
       /\ input' = IF n = 1 THEN Append(input, <<p, 1>>) ELSE input
       /\ upstream' = [upstream EXCEPT ![p] = [at |-> "waiting", sent |-> n]]
  /\ PullGoes(p, "seeking")
  /\ UNCHANGED <<written, eos, dropped, cursor, taskSession, breaches>>

\* RedisError at any await: of XLEN or XADD here, of the reader further on.
RedisFails(p) ==
  /\ pull[p].at \in {"asking", "seeking", "reading", "saving", "closing"}
  /\ pull[p].at = "seeking" => pull[p].from > 0
  /\ Breaches
  /\ pull' = [pull EXCEPT ![p].at = "ended", ![p].told = "error",
                          ![p].joined = IF pull[p].at = "asking" THEN FALSE ELSE @]
  /\ UNCHANGED <<written, eos, dropped, cursor, taskSession, upstream, input>>

(* A client that comes back is served from the saved cursor, whatever label  *)
(* it asks from, and from the head when there is none.                       *)
RestoreCursor(p) == IF pull[p].from > 0 THEN cursor ELSE NoCursor
Seek(p) ==
  /\ pull[p].at = "seeking"
  /\ pull' = [pull EXCEPT ![p].at = "reading", ![p].begun = RestoreCursor(p), ![p].read = RestoreCursor(p)]
  /\ UNCHANGED <<written, eos, dropped, cursor, taskSession, upstream, input, breaches>>

First(p) == IF pull[p].read < dropped THEN dropped ELSE pull[p].read
XRead(p) ==
  LET last == IF First(p) + ReadCount < written THEN First(p) + ReadCount ELSE written
  IN /\ pull[p].at = "reading" /\ First(p) < written
     /\ pull' = [pull EXCEPT ![p].at = "yielding",
                   ![p].batch = [i \in 1..(last - First(p)) |-> First(p) + i]]
     /\ UNCHANGED <<written, eos, dropped, cursor, taskSession, upstream, input, breaches>>

(* One entry of the batch: an output is yielded, the marker ends the stream, *)
(* after the cursor was saved.                                               *)
Yields(p) ==
  /\ pull[p].at = "yielding" /\ pull[p].batch # <<>>
  /\ LET entry == Head(pull[p].batch) IN
     pull' = [pull EXCEPT ![p].read = entry,
                ![p].batch = Tail(@),
                ![p].at = IF entry = eos THEN "closing" ELSE @,
                ![p].since = IF entry = eos THEN @ ELSE @ + 1,
                ![p].got = IF entry = eos THEN @ ELSE Append(@, entry)]
  /\ UNCHANGED <<written, eos, dropped, cursor, taskSession, upstream, input, breaches>>

BatchEnds(p) ==
  /\ pull[p].at = "yielding" /\ pull[p].batch = <<>>
  /\ PullGoes(p, IF pull[p].since >= SaveEvery THEN "saving" ELSE "reading")
  /\ UNCHANGED <<written, eos, dropped, cursor, taskSession, upstream, input, breaches>>

ToWritten(p) == written
ToRead(p) == pull[p].read
SaveCursor(p) ==
  /\ pull[p].at \in {"saving", "closing"}
  /\ cursor' = ToRead(p)
  /\ pull' = [pull EXCEPT ![p].since = 0,
                ![p].at = IF @ = "closing" THEN "ended" ELSE "reading",
                ![p].told = IF pull[p].at = "closing" THEN "end" ELSE @]
  /\ UNCHANGED <<written, eos, dropped, taskSession, upstream, input, breaches>>

(* _consume_guarded: no entry came within read_idle_timeout_s. *)
IdleDeadline(p) ==
  /\ pull[p].at = "reading" /\ First(p) = written
  /\ Fatal(p)
  /\ UNCHANGED <<written, eos, dropped, cursor, taskSession, upstream, input, breaches>>

\* The client hangs up, where the RPC yields or waits.
HangsUp(p) ==
  /\ pull[p].at \in {"seeking", "reading", "yielding", "saving", "closing"}
  /\ PullGoes(p, "ended")
  /\ UNCHANGED <<written, eos, dropped, cursor, taskSession, upstream, input, breaches>>

(* The finally of Stream: a message that was being written may have been.    *)
Finally(p) ==
  /\ pull[p].at = "ended"
  /\ PullGoes(p, "over")
  /\ upstream' = [upstream EXCEPT ![p].at = "off"]
  /\ taskSession' = (taskSession /\ ~pull[p].joined)
  /\ \/ UNCHANGED input
     \/ upstream[p].at = "writing" /\ input' = Append(input, <<p, upstream[p].sent>>)
  /\ UNCHANGED <<written, eos, dropped, cursor, breaches>>

(***************************************************************************)
(* _read_peer_upstream                                                     *)
(***************************************************************************)
\* The stop event is looked at once per message, before it is written.
NextMessage(p) ==
  /\ upstream[p].at = "waiting" /\ upstream[p].sent < MaxMessages
  /\ upstream' = [upstream EXCEPT ![p] =
                    IF taskSession THEN [at |-> "writing", sent |-> @.sent + 1] ELSE [@ EXCEPT !.at = "off"]]
  /\ UNCHANGED <<written, eos, dropped, cursor, taskSession, pull, input, breaches>>

GoesOn(p) == "waiting"
ReaderEnds(p) == "off"
MessageLands(p) ==
  /\ upstream[p].at = "writing"
  /\ \/ /\ input' = Append(input, <<p, upstream[p].sent>>)
        /\ upstream' = [upstream EXCEPT ![p].at = "waiting"]
        /\ UNCHANGED breaches
     \/ /\ Breaches                         \* what the client sends after it is not read
        /\ upstream' = [upstream EXCEPT ![p].at = ReaderEnds(p)]
        /\ UNCHANGED input
  /\ UNCHANGED <<written, eos, dropped, cursor, taskSession, pull>>

PullNext ==
  \/ \E last \in BOOLEAN : Writes(last)
  \/ Expires \/ SessionEnds
  \/ \E p \in Pulls :
       \/ \E from \in {0} \cup {Label(q) : q \in Pulls} : Stream(p, from)
       \/ LateClient(p) \/ TakesQuery(p) \/ RedisFails(p) \/ Seek(p) \/ XRead(p) \/ Yields(p)
       \/ BatchEnds(p) \/ SaveCursor(p) \/ IdleDeadline(p) \/ HangsUp(p) \/ Finally(p)
       \/ NextMessage(p) \/ MessageLands(p)

(* A client is yielded what Redis held, in order and without a gap, from the *)
(* head if it asks from 0 and else from where the cursor stood, and is told  *)
(* the end only after all of it. The cursor never passes what no client was  *)
(* yielded: however many come and are cut off, those that come after them    *)
(* may get an output twice, but none is skipped. And what a client sends     *)
(* reaches the input once and in order, with none missing before a later one.*)
Kept(a, b) == {n \in a+1..b : n > dropped}
Begun(p) == IF pull[p].from = 0 THEN 0 ELSE pull[p].begun
Yielded(p) == {pull[p].got[i] : i \in DOMAIN pull[p].got}
PullsInOrder ==
  /\ \A p \in Pulls :
       /\ \A i, j \in DOMAIN pull[p].got : i < j => pull[p].got[i] < pull[p].got[j]
       /\ Yielded(p) # {} => Kept(Begun(p), pull[p].got[Len(pull[p].got)]) \subseteq Yielded(p)
       /\ pull[p].told = "end" => eos # 0 /\ Kept(Begun(p), eos - 1) \subseteq Yielded(p)
  /\ Kept(0, cursor) \ {eos} \subseteq UNION {Yielded(p) : p \in Pulls}
  /\ \A i \in DOMAIN input :
       /\ \A n \in 1..input[i][2] - 1 : \E j \in 1..i - 1 : input[j] = <<input[i][1], n>>
       /\ \A j \in 1..i - 1 : input[j] # input[i]
=============================================================================
