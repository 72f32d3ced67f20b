----------------------------- MODULE LocalStore -----------------------------
(* DefaultStorage: the records of a mission in one JSON file. Every module   *)
(* instance builds a storage of its own; it reads the file when it is built, *)
(* works on its own map, and writes the whole map after each change. Nothing *)
(* is awaited inside an operation, so that each is one step.                 *)
EXTENDS Naturals

CONSTANTS
  Stores,       \* the storages of the mission's runs
  Groups,       \* collections
  Docs,         \* record ids of a collection
  Bodies,       \* payloads
  MaxEdits      \* bound: changes

ASSUME LocalStoreAssumption == MaxEdits \in Nat

VARIABLES
  fits,     \* the model a storage's config has for a collection: "m", "n" or "none"
  built,    \* storages built
  map,      \* DefaultStorage.storage
  file,     \* what the file holds
  last,     \* ghost: the last value of each record a caller was told
  abreast,  \* ghost: the records a storage holds as they were last told
  offFile,  \* ghost: records the file may not hold as they were last told
  edits

stvars == <<fits, built, map, file, last, abreast, offFile, edits>>

NoDoc == [body |-> "absent", model |-> "none"]
Odd == "odd"   \* a body that validates, and that json cannot write
Doc(v, m) == [body |-> v, model |-> m]
Addresses == Groups \X Docs
Empty == [a \in Addresses |-> NoDoc]

StoreInit ==
  /\ fits \in [Stores -> [Groups -> {"m", "n", "none"}]]
  /\ built = {}
  /\ map = [s \in Stores |-> Empty]
  /\ file = Empty /\ last = Empty
  /\ abreast = [s \in Stores |-> {}] /\ offFile = {}
  /\ edits = 0

\* A record of a collection without a model is skipped; one that its model
\* rejects, and the storage starts empty.
FromFile(s) ==
  IF \E a \in Addresses : file[a] # NoDoc /\ fits[s][a[1]] \notin {"none", file[a].model} THEN Empty
  ELSE [a \in Addresses |-> IF fits[s][a[1]] = "none" THEN NoDoc ELSE file[a]]

Builds(s) ==
  /\ s \notin built
  /\ built' = built \cup {s}
  /\ map' = [map EXCEPT ![s] = FromFile(s)]
  /\ abreast' = [abreast EXCEPT ![s] = {a \in Addresses \ offFile : FromFile(s)[a] = file[a]}]
  /\ UNCHANGED <<fits, file, last, offFile, edits>>

\* The whole map or, when one payload of it cannot be written, nothing; the
\* caller is told nothing of that.
Saved(m, s, A) ==
  IF \E a \in Addresses : m[a].body = Odd
  THEN UNCHANGED file /\ offFile' = offFile \cup A
  ELSE file' = m /\ offFile' = Addresses \ abreast'[s]

RemovalSaved(m, s, A) == Saved(m, s, A)

\* The records A get the value v in the map of s, and in what callers know.
Edit(s, A, v) ==
  /\ edits < MaxEdits /\ edits' = edits + 1
  /\ map' = [map EXCEPT ![s] = [a \in Addresses |-> IF a \in A THEN v ELSE map[s][a]]]
  /\ last' = [a \in Addresses |-> IF a \in A THEN v ELSE last[a]]
  /\ abreast' = [t \in Stores |-> IF t = s THEN abreast[s] \cup A ELSE abreast[t] \ A]
  /\ UNCHANGED <<fits, built>>

\* StorageStrategy.store and update validate the payload with the model.
Writable(s, a) == s \in built /\ fits[s][a[1]] # "none"

StoreDoc(s, a, v) ==
  /\ Writable(s, a) /\ map[s][a] = NoDoc
  /\ Edit(s, {a}, Doc(v, fits[s][a[1]])) /\ Saved(map'[s], s, {a})

UpdateDoc(s, a, v) ==
  /\ Writable(s, a) /\ map[s][a] # NoDoc
  /\ Edit(s, {a}, Doc(v, fits[s][a[1]])) /\ Saved(map'[s], s, {a})

RemoveDoc(s, a) ==
  /\ s \in built /\ map[s][a] # NoDoc
  /\ Edit(s, {a}, NoDoc) /\ RemovalSaved(map'[s], s, {a})

\* With a record id or for the whole collection; only what the map holds goes.
Held(s, g, D) == {a \in {g} \X D : map[s][a] # NoDoc}
RemoveGroup(s, g, D) ==
  /\ s \in built
  /\ Edit(s, Held(s, g, D), NoDoc) /\ RemovalSaved(map'[s], s, Held(s, g, D))

StoreNext ==
  \E s \in Stores :
    \/ Builds(s)
    \/ \E a \in Addresses :
         \/ \E v \in Bodies \cup {Odd} : StoreDoc(s, a, v) \/ UpdateDoc(s, a, v)
         \/ RemoveDoc(s, a)
    \/ \E g \in Groups : \E D \in {Docs} \cup {{d} : d \in Docs} : RemoveGroup(s, g, D)

-----------------------------------------------------------------------------
\* What the storage answers: one record, and the records of a collection.
Answer(s, a) == map[s][a]
Listed(s, g) == {a \in {g} \X Docs : map[s][a] # NoDoc}

(* A record outlives its run as its callers were told: the file holds it,    *)
(* and a storage built from it or that changed it serves it, until a storage *)
(* that does not hold that value saves its own map over it, or the save of   *)
(* the change failed.                                                        *)
OutlivesItsRun ==
  /\ \A a \in Addresses \ offFile : file[a] = last[a]
  /\ \A s \in built : \A a \in abreast[s] :
       Answer(s, a) = last[a] /\ (a \in Listed(s, a[1]) <=> last[a] # NoDoc)
=============================================================================
