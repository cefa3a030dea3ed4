----------------------------- MODULE ReplayStore -----------------------------
(***************************************************************************)
(* InMemoryReplayStore: a Map from replay key to the time of marking.  The *)
(* map is a function from keys to ticks, NoEntry where it has no entry.    *)
(* Entries leave it only when hasSeen() meets an expired one.              *)
(***************************************************************************)
EXTENDS Integers

CONSTANT MaxAge  \* maxAge in ticks; 0 keeps entries for ever (default one hour)

ASSUME StoreAssumption == MaxAge \in Nat

NoEntry == -1

EmptyStore(keys) == [k \in keys |-> NoEntry]

Expired(store, k, now) ==
  /\ store[k] # NoEntry
  /\ MaxAge > 0
  /\ now - store[k] > MaxAge

(* The answer of hasSeen, and the map it leaves behind. *)
HasSeen(store, k, now) == store[k] # NoEntry /\ ~Expired(store, k, now)

AfterHasSeen(store, k, now) ==
  IF Expired(store, k, now) THEN [store EXCEPT ![k] = NoEntry] ELSE store

(* Mutant: the time of expiry is stored. *)
MarkSeen_Until(store, k, now) == [store EXCEPT ![k] = now + MaxAge]

(* Mutant: nothing is stored. *)
MarkSeen_Skipped(store, k, now) == store

MarkSeen(store, k, now) == [store EXCEPT ![k] = now]
=============================================================================
