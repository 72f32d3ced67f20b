----------------------------- MODULE LocalFiles -----------------------------
(* DefaultFilesystem: the files of one module instance in a temporary        *)
(* directory, and their records in memory. Its coroutines use it at once:    *)
(* an upload, an update or a batch of deletions awaits between its checks,   *)
(* its file operations and its changes of the records.  A step is a file     *)
(* operation with the code up to the next one; where the records change only *)
(* after it, that is a step of its own.  A record is an object: whoever got  *)
(* hold of it goes on changing it after it left the table.                     *)
EXTENDS Naturals, Sequences

CONSTANTS
  Users,      \* coroutines
  Titles,     \* file names
  Bytes,      \* contents
  MaxFiles,   \* bound: records
  MaxTasks    \* bound: operations

ASSUME FilesAssumption ==
  /\ MaxFiles \in Nat /\ MaxTasks \in Nat
  /\ Titles \cap (1..MaxFiles) = {} /\ "unnamed" \notin Titles /\ "none" \notin Bytes

VARIABLES
  disk,     \* what is under each path: a file's name, or the id of its record
  info,     \* the records made
  listing,  \* DefaultFilesystem.db: the ids in it
  does,     \* what each coroutine is at
  written,  \* ghost: who wrote or unlinked a path last
  foreign,  \* ghost: records whose file another operation wrote, or that two update
  edited,   \* ghost: records whose new content lies under another path
  told,     \* ghost: records reported deleted for good
  tasks

flvars == <<disk, info, listing, does, written, foreign, edited, told, tasks>>

Ids == 1..MaxFiles
Paths == Titles \cup Ids
NoBytes == "none"
NoUser == "nobody"
NoTitle == "unnamed"
Idle == [at |-> "idle", title |-> NoTitle, bytes |-> NoBytes, flag |-> FALSE, id |-> 0, rest |-> {}]

FilesInit ==
  /\ disk = [p \in Paths |-> NoBytes]
  /\ info = <<>> /\ listing = {}
  /\ does = [u \in Users |-> Idle]
  /\ written = [p \in Paths |-> NoUser]
  /\ foreign = {} /\ edited = {} /\ told = {} /\ tasks = 0

MovesTo(u, at) == does' = [does EXCEPT ![u].at = at]
Ends(u) == does' = [does EXCEPT ![u] = Idle]
Begins(u, what) ==
  /\ does[u].at = "idle" /\ tasks < MaxTasks
  /\ tasks' = tasks + 1 /\ does' = [does EXCEPT ![u] = what]

\* u writes, moves or unlinks what is under p: not its records' any more.
OthersAt(p, own) == {i \in DOMAIN info : info[i].path = p} \ own
Updating(i) == {u \in Users : does[u].id = i /\ does[u].at \in {"writing", "noting", "renaming", "naming"}}

-----------------------------------------------------------------------------
(* upload_files, file by file; flag is replace_if_exists                     *)

UploadChecks(u, n, b, replace) ==
  /\ Begins(u, IF disk[n] # NoBytes /\ ~replace THEN Idle
               ELSE [Idle EXCEPT !.at = "uploading", !.title = n, !.bytes = b])
  /\ UNCHANGED <<disk, info, listing, written, foreign, edited, told>>

UploadWrites(u) ==
  LET n == does[u].title IN
  /\ does[u].at = "uploading"
  /\ disk' = [disk EXCEPT ![n] = does[u].bytes]
  /\ written' = [written EXCEPT ![n] = u]
  /\ foreign' = foreign \cup OthersAt(n, {})
  /\ MovesTo(u, "recording")
  /\ UNCHANGED <<info, listing, edited, told, tasks>>

UploadRecords(u) ==
  LET n == does[u].title
      i == Len(info) + 1 IN
  /\ does[u].at = "recording" /\ i \in Ids
  /\ info' = Append(info, [path |-> n, sum |-> does[u].bytes, status |-> "ACTIVE"])
  /\ listing' = listing \cup {i}
  /\ foreign' = IF written[n] = u THEN foreign ELSE foreign \cup {i}
  /\ Ends(u)
  /\ UNCHANGED <<disk, written, edited, told, tasks>>

-----------------------------------------------------------------------------
(* update_file: new content goes to a path named by the id, whatever path    *)
(* the record has; a new name moves what is under that path.                 *)

UpdateStarts(u, i, b, n) ==
  /\ i \in listing /\ {b, n} # {NoBytes, NoTitle}
  /\ Begins(u, [Idle EXCEPT !.at = IF b = NoBytes THEN "renaming" ELSE "writing", !.title = n, !.bytes = b, !.id = i])
  /\ foreign' = IF Updating(i) # {} THEN foreign \cup {i} ELSE foreign
  /\ UNCHANGED <<disk, info, listing, written, edited, told>>

UpdateWrites(u) ==
  LET i == does[u].id IN
  /\ does[u].at = "writing"
  /\ disk' = [disk EXCEPT ![i] = does[u].bytes]
  /\ written' = [written EXCEPT ![i] = u]
  /\ MovesTo(u, "noting")
  /\ UNCHANGED <<info, listing, foreign, edited, told, tasks>>

\* self.db[file_id] = existing_file, be it deleted meanwhile.
Keeps(i) == listing' = listing \cup {i}

UpdateNotes(u) ==
  LET i == does[u].id IN
  /\ does[u].at = "noting"
  /\ info' = [info EXCEPT ![i].sum = does[u].bytes]
  /\ edited' = edited \cup {i}
  /\ IF does[u].title = NoTitle THEN Keeps(i) /\ Ends(u) ELSE UNCHANGED listing /\ MovesTo(u, "renaming")
  /\ UNCHANGED <<disk, written, foreign, told, tasks>>

\* Nothing is under the id's path unless content was given, now or earlier:
\* the rename raises, and what was changed before it stays changed.
UpdateRenames(u) ==
  LET i == does[u].id
      n == does[u].title IN
  /\ does[u].at = "renaming"
  /\ IF disk[i] = NoBytes THEN Ends(u) /\ UNCHANGED <<disk, written, foreign>>
     ELSE /\ disk' = [disk EXCEPT ![n] = disk[i], ![i] = NoBytes]
          /\ written' = [written EXCEPT ![n] = u]
          /\ foreign' = foreign \cup OthersAt(n, {i})
          /\ MovesTo(u, "naming")
  /\ UNCHANGED <<info, listing, edited, told, tasks>>

UpdateNames(u) ==
  LET i == does[u].id
      n == does[u].title IN
  /\ does[u].at = "naming"
  /\ info' = [info EXCEPT ![i].path = n]
  /\ edited' = edited \ {i}
  /\ foreign' = IF written[n] = u THEN foreign ELSE foreign \cup {i}
  /\ Keeps(i) /\ Ends(u)
  /\ UNCHANGED <<disk, written, told, tasks>>

-----------------------------------------------------------------------------
(* delete_files over the records its filter matched; flag is permanent       *)

Least(S) == CHOOSE i \in S : \A j \in S : i <= j

\* The loop takes up the next record; one that left the table ends it with a
\* KeyError.
Takes(u, permanent, rest) ==
  LET i == Least(rest) IN
  IF rest = {} \/ i \notin listing' THEN Idle
  ELSE [Idle EXCEPT !.at = "checking", !.flag = permanent, !.id = i, !.title = info'[i].path, !.rest = rest \ {i}]
GoesOn(u) == does' = [does EXCEPT ![u] = Takes(u, does[u].flag, does[u].rest)]

DeleteStarts(u, S, permanent) ==
  /\ S # {} /\ S \subseteq listing
  /\ UNCHANGED <<disk, info, listing, written, foreign, edited, told>>
  /\ Begins(u, Takes(u, permanent, S))

\* A record whose file is gone counts as failed.
DeleteChecks(u) ==
  LET i == does[u].id
      found == disk[does[u].title] # NoBytes IN
  /\ does[u].at = "checking"
  /\ IF found /\ ~does[u].flag
     THEN info' = [info EXCEPT ![i].status = "DELETED"] /\ Keeps(i)
     ELSE UNCHANGED <<info, listing>>
  /\ IF found /\ does[u].flag THEN MovesTo(u, "unlinking") ELSE GoesOn(u)
  /\ UNCHANGED <<disk, written, foreign, edited, told, tasks>>

\* The file may be gone since the check: caught, and the batch goes on.
Unlinks(u) ==
  LET i == does[u].id
      p == does[u].title IN
  /\ does[u].at = "unlinking"
  /\ UNCHANGED <<info, listing, edited, told, tasks>>
  /\ IF disk[p] = NoBytes THEN GoesOn(u) /\ UNCHANGED <<disk, written, foreign>>
     ELSE /\ disk' = [disk EXCEPT ![p] = NoBytes]
          /\ written' = [written EXCEPT ![p] = u]
          /\ foreign' = foreign \cup OthersAt(p, {i})
          /\ MovesTo(u, "dropping")

\* Mutant: the record stays in the table, as after a soft deletion.
StaysIn(i) == Keeps(i)
LeavesTable(i) == listing' = listing \ {i}

AtIt(i) == Updating(i) \cup {u \in Users : does[u].id = i /\ does[u].at = "checking"}

\* del self.db[file_id] raises when another deletion was first.
Drops(u) ==
  LET i == does[u].id IN
  /\ does[u].at = "dropping"
  /\ IF i \in listing THEN LeavesTable(i) /\ told' = told \cup {i} ELSE UNCHANGED <<listing, told>>
  /\ foreign' = IF AtIt(i) # {} THEN foreign \cup {i} ELSE foreign
  /\ UNCHANGED <<disk, info, written, edited, tasks>>
  /\ GoesOn(u)

FilesNext ==
  \E u \in Users :
    \/ \E n \in Titles, b \in Bytes, replace \in BOOLEAN : UploadChecks(u, n, b, replace)
    \/ \E i \in listing, b \in Bytes \cup {NoBytes}, n \in Titles \cup {NoTitle} : UpdateStarts(u, i, b, n)
    \/ \E S \in SUBSET listing, permanent \in BOOLEAN : DeleteStarts(u, S, permanent)
    \/ UploadWrites(u) \/ UploadRecords(u)
    \/ UpdateWrites(u) \/ UpdateNotes(u) \/ UpdateRenames(u) \/ UpdateNames(u)
    \/ DeleteChecks(u) \/ Unlinks(u) \/ Drops(u)

-----------------------------------------------------------------------------
\* get_file with content: what is under the record's path; get_files: all that
\* its filter matches.
Content(i) == disk[info[i].path]
Served == {[id |-> i, bytes |-> Content(i)] : i \in listing}

\* A deletion takes the file first and the record after.
BeingDropped(i) == \E u \in Users : does[u].at = "dropping" /\ does[u].id = i

(* A record that is listed is what it says, and a deletion is for good: the  *)
(* content served for it has its checksum, and what was reported deleted for *)
(* good is not served again; unless another operation wrote its path, was at *)
(* the record at the same time, new content was given without a new name, or *)
(* its deletion has the file and not yet the record.                         *)
ServedAsRecorded ==
  \A r \in Served : r.id \notin foreign =>
    /\ r.id \notin edited /\ ~BeingDropped(r.id) => r.bytes = info[r.id].sum
    /\ r.id \notin told
=============================================================================
