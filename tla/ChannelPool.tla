---------------------------- MODULE ChannelPool ----------------------------
(* The pool of gRPC channels that GrpcClientWrapper keeps for its process:   *)
(* one channel per address and options (the key), counted by those that took *)
(* it.  Three kinds of client take one:                                      *)
(*   "service"  a strategy such as GrpcStorage, from its construction to its *)
(*              close();                                                     *)
(*   "dial"     a dial-back to a consumer, for each attempt to reach it;     *)
(*   "call"     a call of another module or a query of its schemas, which    *)
(*              takes a channel and gives none back.                         *)
(* A step is the code between two awaits.                                    *)
EXTENDS Naturals, FiniteSets, Sequences

CONSTANTS
  Takers,
  Keys,
  KeyOf,        \* [Takers -> Keys]
  KindOf,       \* [Takers -> {"service", "dial", "call"}]
  MaxChannels,  \* bound: channels ever made
  MaxUpsets     \* bound: connections lost, rounds of close_all_cached_channels

ASSUME PoolAssumption ==
  /\ KeyOf \in [Takers -> Keys]
  /\ KindOf \in [Takers -> {"service", "dial", "call"}]
  /\ IsFiniteSet(Takers)
  /\ MaxChannels \in Nat /\ MaxUpsets \in Nat

VARIABLES
  cached,   \* _channel_cache: the channel under each key, 0 if none
  refs,     \* _ref_counts
  stubs,    \* _stub_cache: the channel that the stubs of each key use, 0 if none
  dialled,  \* channels made so far, each for its key; a channel is its place here
  shut,     \* channels that were closed
  at,       \* where each client stands
  hold,     \* the channel each client took, 0 if none
  sweep,    \* close_all_cached_channels: its state, the keys left, the size it began with
  strayed,  \* keys whose count lost touch with the clients, see TakeAway
  upsets

pvars == <<cached, refs, stubs, dialled, shut, at, hold, sweep, strayed, upsets>>

Channels == 1..Len(dialled)
TakersOf(k) == {c \in Takers : KeyOf[c] = k /\ hold[c] # 0}
CachedKeys == {k \in Keys : cached[k] # 0}

PoolInit ==
  /\ cached = [k \in Keys |-> 0]
  /\ refs = [k \in Keys |-> 0]
  /\ stubs = [k \in Keys |-> 0]
  /\ dialled = <<>>
  /\ shut = {}
  /\ at = [c \in Takers |-> "idle"]
  /\ hold = [c \in Takers |-> 0]
  /\ sweep = [at |-> "idle", left |-> {}, size |-> 0]
  /\ strayed = {}
  /\ upsets = 0

Upset == upsets < MaxUpsets /\ upsets' = upsets + 1

(* _init_channel and _get_or_create_stub: share the channel under the key, or *)
(* make one. The stub is made for the channel unless one is cached.           *)
Take(c) ==
  LET k == KeyOf[c] IN
  /\ IF cached[k] # 0
     THEN /\ hold' = [hold EXCEPT ![c] = cached[k]]
          /\ refs' = [refs EXCEPT ![k] = @ + 1]
          /\ UNCHANGED <<cached, dialled>>
     ELSE /\ Len(dialled) < MaxChannels
          /\ dialled' = Append(dialled, k)
          /\ cached' = [cached EXCEPT ![k] = Len(dialled')]
          /\ refs' = [refs EXCEPT ![k] = 1]
          /\ hold' = [hold EXCEPT ![c] = Len(dialled')]
  /\ stubs' = [stubs EXCEPT ![k] = IF @ # 0 THEN @ ELSE hold'[c]]

Open(c) ==
  /\ at[c] = "idle"
  /\ Take(c)
  /\ at' = [at EXCEPT ![c] = "using"]
  /\ UNCHANGED <<shut, sweep, strayed, upsets>>

-----------------------------------------------------------------------------
(* Giving back *)

PurgeStubs(k) == stubs' = [stubs EXCEPT ![k] = 0]
Forget(k) ==
  /\ refs' = [refs EXCEPT ![k] = 0]
  /\ cached' = [cached EXCEPT ![k] = 0]
  /\ PurgeStubs(k)

(* close_channel of a strategy: the last reference closes the channel that   *)
(* this strategy holds; without a count under the key it closes it as well.  *)
CloseChannel(c) ==
  LET k == KeyOf[c] IN
  /\ KindOf[c] = "service" /\ at[c] = "using"
  /\ \/ refs[k] > 1 /\ refs' = [refs EXCEPT ![k] = @ - 1]
        /\ at' = [at EXCEPT ![c] = "over"] /\ hold' = [hold EXCEPT ![c] = 0]
        /\ UNCHANGED <<cached, stubs, shut>>
     \/ refs[k] = 1 /\ Forget(k)
        /\ shut' = shut \cup {hold[c]}
        /\ at' = [at EXCEPT ![c] = "closing"] /\ UNCHANGED hold
     \/ refs[k] = 0 /\ UNCHANGED <<refs, cached, stubs>>
        /\ shut' = shut \cup {hold[c]}
        /\ at' = [at EXCEPT ![c] = "closing"] /\ UNCHANGED hold
  /\ UNCHANGED <<dialled, sweep, strayed, upsets>>

CloseReturns(c) ==
  /\ KindOf[c] = "service" /\ at[c] = "closing"
  /\ at' = [at EXCEPT ![c] = "over"]
  /\ hold' = [hold EXCEPT ![c] = 0]
  /\ UNCHANGED <<cached, refs, stubs, dialled, shut, sweep, strayed, upsets>>

CloseCached(k) == shut' = shut \cup {cached[k]}

(* release_cached_channel knows the key only: the last reference closes the  *)
(* channel that is cached now.                                               *)
ReleaseAll(k) == IF refs[k] = 0 THEN UNCHANGED <<refs, cached, stubs, shut>>
                 ELSE Forget(k) /\ CloseCached(k)
ReleaseCached(k) ==
  \/ refs[k] = 0 /\ UNCHANGED <<refs, cached, stubs, shut>>
  \/ refs[k] > 1 /\ refs' = [refs EXCEPT ![k] = @ - 1] /\ UNCHANGED <<cached, stubs, shut>>
  \/ refs[k] = 1 /\ Forget(k) /\ CloseCached(k)

(* An attempt ends: the consumer has all it wants, or the connection is      *)
(* lost, as it is when its channel was closed. A lost one is dialled again   *)
(* while the window lasts; a session that is gone ends it before it began.   *)
EndAttempt(c, next) ==
  /\ KindOf[c] = "dial" /\ at[c] = "using"
  /\ ReleaseCached(KeyOf[c])
  /\ hold' = [hold EXCEPT ![c] = 0]
  /\ at' = [at EXCEPT ![c] = next]
  /\ UNCHANGED <<dialled, sweep, strayed>>

Delivered(c) == /\ hold[c] \notin shut
                /\ EndAttempt(c, "over")
                /\ UNCHANGED upsets
Lost(c) == /\ IF hold[c] \in shut THEN UNCHANGED upsets ELSE Upset
           /\ \E next \in {"waiting", "over"} : EndAttempt(c, next)

(* A key is taken away from those that still count on it. *)
TakeAway(k) == strayed' = IF TakersOf(k) # {} THEN strayed \cup {k} ELSE strayed

(* A resumed dial-back wants a fresh connection: evict_cached_channel closes *)
(* what is cached, whoever else uses it, before the address is dialled.      *)
Resume(c) ==
  LET k == KeyOf[c] IN
  /\ KindOf[c] = "dial" /\ at[c] = "waiting"
  /\ IF cached[k] = 0
     THEN /\ Take(c)
          /\ at' = [at EXCEPT ![c] = "using"]
          /\ UNCHANGED <<shut, strayed>>
     ELSE /\ Forget(k)
          /\ CloseCached(k)
          /\ TakeAway(k)
          /\ at' = [at EXCEPT ![c] = "evicted"]
          /\ UNCHANGED <<dialled, hold>>
  /\ UNCHANGED <<sweep, upsets>>

Redial(c) ==
  /\ at[c] = "evicted"
  /\ Take(c)
  /\ at' = [at EXCEPT ![c] = "using"]
  /\ UNCHANGED <<shut, sweep, strayed, upsets>>

(* A call of another module ends. Its reference stays. *)
CallEnds(c) ==
  /\ KindOf[c] = "call" /\ at[c] = "using"
  /\ at' = [at EXCEPT ![c] = "over"]
  /\ UNCHANGED <<cached, refs, stubs, dialled, shut, hold, sweep, strayed, upsets>>

-----------------------------------------------------------------------------
(* close_all_cached_channels: a request to invalidate the channels, or the   *)
(* server stops. The table may change while a channel is being closed.       *)

SweepStarts ==
  /\ sweep.at = "idle"
  /\ Upset
  /\ sweep' = [at |-> "closing", left |-> CachedKeys, size |-> Cardinality(CachedKeys)]
  /\ UNCHANGED <<cached, refs, stubs, dialled, shut, at, hold, strayed>>

SweepCloses(k) ==
  /\ sweep.at = "closing" /\ Cardinality(CachedKeys) = sweep.size
  /\ k \in sweep.left /\ cached[k] # 0
  /\ shut' = shut \cup {cached[k]}
  /\ sweep' = [sweep EXCEPT !.left = @ \ {k}]
  /\ strayed' = strayed \cup {k}
  /\ UNCHANGED <<cached, refs, stubs, dialled, at, hold, upsets>>

(* "dictionary changed size during iteration": nothing is forgotten.         *)
SweepBreaks ==
  /\ sweep.at = "closing" /\ Cardinality(CachedKeys) # sweep.size
  /\ sweep' = [sweep EXCEPT !.at = "broken"]
  /\ UNCHANGED <<cached, refs, stubs, dialled, shut, at, hold, strayed, upsets>>

SweepEnds ==
  /\ sweep.at = "closing" /\ Cardinality(CachedKeys) = sweep.size
  /\ {k \in sweep.left : cached[k] # 0} = {}
  /\ cached' = [k \in Keys |-> 0]
  /\ refs' = [k \in Keys |-> 0]
  /\ stubs' = [k \in Keys |-> 0]
  /\ strayed' = strayed \cup {k \in Keys : TakersOf(k) # {}}
  /\ sweep' = [sweep EXCEPT !.at = "idle"]
  /\ UNCHANGED <<dialled, shut, at, hold, upsets>>

PoolNext ==
  \/ \E c \in Takers : \/ Open(c) \/ CloseChannel(c) \/ CloseReturns(c)
                        \/ Delivered(c) \/ Lost(c) \/ Resume(c) \/ Redial(c)
                        \/ CallEnds(c)
  \/ SweepStarts \/ SweepBreaks \/ SweepEnds
  \/ \E k \in Keys : SweepCloses(k)

-----------------------------------------------------------------------------
(* A reference is taken back by the one that took it: unless a key was taken *)
(* away from its users, its count is the number of those that took the       *)
(* cached channel, calls that are over among them, and every one of them     *)
(* holds an open one.                                                        *)
RefsAreUsers ==
  \A k \in Keys \ strayed :
    /\ refs[k] = Cardinality({c \in TakersOf(k) : at[c] # "closing"})
    /\ \A c \in TakersOf(k) : at[c] # "closing" => hold[c] = cached[k] /\ hold[c] \notin shut

(* What is handed out next is open, and a stub speaks over the channel it is *)
(* cached with: only while all channels are being closed, or when that broke *)
(* off, does a new client get a closed one.                                  *)
CacheIsOpen ==
  \A k \in Keys :
    /\ cached[k] \in shut => sweep.at \in {"closing", "broken"}
    /\ stubs[k] # 0 => stubs[k] = cached[k]

(* No channel is lost: one that is open is the one cached under its key,     *)
(* unless that key was taken away from its users.                            *)
NoneLost ==
  \A n \in Channels :
    n \in shut \/ cached[dialled[n]] = n \/ dialled[n] \in strayed

(* The pool is in order: its counts are its users, what it hands out is open *)
(* and nothing open is lost.                                                 *)
PoolInOrder == RefsAreUsers /\ CacheIsOpen /\ NoneLost
=============================================================================
