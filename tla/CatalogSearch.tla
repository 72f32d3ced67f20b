--------------------------- MODULE CatalogSearch ---------------------------
(* The search action of a registry manager: an agent pages through the       *)
(* setups of the manager's kind, by offset, while the catalogue changes. The *)
(* registry is the in-memory one or the service behind gRPC.                 *)
EXTENDS SequencesExt, Ranking

CONSTANTS
  Listings,    \* setups of the catalogue, numbered in the order of their names
  MaxResults,  \* _MAX_RESULTS: what the registry returns at most
  MaxRelists   \* bound: relists of the catalogue, requests that fail

ASSUME CatalogAssumption ==
  /\ Listings \subseteq Nat /\ IsFiniteSet(Listings)
  /\ MaxResults \in Nat \ {0} /\ MaxRelists \in Nat

VARIABLES
  listed,      \* the setups in the order they were added
  listing,     \* listing[s]: what a search can tell of it
  query,       \* limit, order, and whether the service knows the filter's enums
  pager,       \* the agent: where it is, the rows it was shown, each as it was then
  sought,      \* the setups there were to find when it began
  calm,        \* no row moved while it paged, and all had a version
  relists

qvars == <<listed, listing, query, pager, sought, calm, relists>>

(* Ready to run and of the manager's kind; not ready; of another kind; ready *)
(* but left without a version by a create that failed half-way.              *)
States == {"ready", "draft", "foreign", "versionless"}
Filters == {"ready", "versionless"}  \* what module_types and statuses let through

SearchInit ==
  /\ listed \in UNION {SetToSeqs(S) : S \in SUBSET Listings}
  /\ listing \in [Listings -> States]
  /\ query \in [cap : 1..MaxResults, byName : BOOLEAN, grpc : BOOLEAN, drift : BOOLEAN]
  /\ query.drift => query.grpc
  /\ pager = [at |-> "paging", offset |-> 0, rows |-> <<>>, truncated |-> FALSE]
  /\ sought = {s \in ToSet(listed) : listing[s] = "ready"}
  /\ calm = (\A s \in ToSet(listed) : listing[s] # "versionless")
  /\ relists = 0

Relists == relists < MaxRelists /\ relists' = relists + 1

(* add_setup: a setup that is there keeps its place. *)
AddSetup(s, state) ==
  /\ Relists
  /\ listed' = IF s \in ToSet(listed) THEN listed ELSE Append(listed, s)
  /\ listing' = [listing EXCEPT ![s] = state]
  /\ calm' = (calm /\ state # "versionless"
              /\ IF s \in ToSet(listed)
                 THEN (state \in Filters) = (listing[s] \in Filters)
                 ELSE ~query.byName \/ state \notin Filters)
  /\ UNCHANGED <<query, pager, sought>>

(* search_setups: filtered, sorted, then cut. An enum the service does not   *)
(* know would be dropped from the filter it is in.                           *)
EncodeEnum == ~query.drift
Matches(s) == query.drift \/ listing[s] \in Filters
Hits ==
  LET places == {i \in DOMAIN listed : Matches(listed[i])}
  IN IF query.byName THEN Ranked({listed[i] : i \in places}) ELSE At(listed, places)
SearchSetups(limit, offset) ==
  LET upto == IF offset + limit < Len(Hits) THEN offset + limit ELSE Len(Hits)
  IN [k \in 1..(upto - offset) |-> Hits[offset + k]]

(* One row more than the page is asked for, so that truncated can tell that  *)
(* there is another; at the registry's ceiling there is no room for it.      *)
Usable(s) == listing[s] # "versionless"
NoProbe == query.cap
Probe == IF query.cap + 1 < MaxResults THEN query.cap + 1 ELSE MaxResults
SearchAction ==
  LET page == SearchSetups(Probe, pager.offset)
      usable == At(page, {k \in DOMAIN page : Usable(page[k])})
      rows == IF Len(usable) > query.cap THEN SubSeq(usable, 1, query.cap) ELSE usable
  IN /\ pager.at = "paging"
     /\ EncodeEnum
     /\ pager' = [at |-> IF Len(usable) > query.cap THEN "paging" ELSE "done",
                  offset |-> pager.offset + query.cap,
                  rows |-> pager.rows \o [i \in DOMAIN rows |-> <<rows[i], listing[rows[i]]>>],
                  truncated |-> Len(usable) > query.cap]
     /\ UNCHANGED <<listed, listing, query, sought, calm, relists>>

(* A ValueError of the encoding, a denial or a service that fails. *)
SearchFails ==
  /\ pager.at = "paging"
  /\ IF EncodeEnum THEN query.grpc /\ Relists ELSE UNCHANGED relists
  /\ pager' = [pager EXCEPT !.at = "failed"]
  /\ UNCHANGED <<listed, listing, query, sought, calm>>

SearchNext ==
  \/ \E s \in Listings, state \in States : AddSetup(s, state)
  \/ SearchAction \/ SearchFails

(* An agent is shown a setup as it may use it: of its kind, and with a       *)
(* version. While no row moves it is shown each once, a page that says there *)
(* is more is followed by one, and the page that says there is not is the    *)
(* last, but where it is as large as the registry gives at once.             *)
PagesAreTrue ==
  /\ \A i \in DOMAIN pager.rows : pager.rows[i][2] = "ready"
  /\ calm =>
       /\ \A i, j \in DOMAIN pager.rows : pager.rows[i][1] = pager.rows[j][1] => i = j
       /\ pager.truncated => SearchSetups(1, pager.offset) # <<>>
       /\ pager.at = "done" /\ query.cap < MaxResults
          => sought \subseteq {pager.rows[i][1] : i \in DOMAIN pager.rows}
=============================================================================
