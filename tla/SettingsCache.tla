--------------------------- MODULE SettingsCache ---------------------------
(***************************************************************************)
(* Settings: the setting table, the read-through cache in front of it, the *)
(* cleaner of its entries, and the get(), set() and setSettings() calls    *)
(* whose queries and stores overlap.  set() is setSettings() of one key.   *)
(*                                                                         *)
(* Assumed of the database: a query is answered within the cleaner's       *)
(* minute (get() shares its variable `key` with the cleaner it starts).    *)
(***************************************************************************)
EXTENDS FiniteSets, Integers

CONSTANTS
    Keys, Values,
    Readers, Writers,   \* bound: calls in flight at the same time
    NoEntry             \* the key is not in cacheList

ASSUME NoEntryAssumption == NoEntry \notin Values \cup Keys

VARIABLES
    setting,    \* the table: the value of each key
    cached,     \* cacheList[key].value
    aged,       \* keys whose entry has seen a tick of the cleaner
    query,      \* what a get() has asked for and been answered
    toFind,     \* keys a set has still to look up
    toStore,    \* keys whose R.store() has begun
    toDrop,     \* keys the set will delete from the cache; none once it threw
    newValue,   \* what the set writes
    late,       \* history: entries filled from a read that a store overtook
    threw       \* history: the writers whose last call threw

setCalls  == <<toFind, toStore, toDrop, newValue>>
cacheVars == <<setting, cached, aged, query, setCalls, late, threw>>

Idle == [key |-> NoEntry, got |-> NoEntry, overtaken |-> FALSE]

CacheTypeOK ==
    /\ setting \in [Keys -> Values]
    /\ cached \in [Keys -> Values \cup {NoEntry}]
    /\ aged \subseteq Keys
    /\ query \in [Readers -> [key : Keys \cup {NoEntry}, got : Values \cup {NoEntry},
                              overtaken : BOOLEAN]]
    /\ toFind \in [Writers -> SUBSET Keys]
    /\ toStore \in [Writers -> SUBSET Keys]
    /\ toDrop \in [Writers -> SUBSET Keys]
    /\ newValue \in [Writers -> Values]
    /\ late \subseteq Keys /\ threw \subseteq Writers

CacheInit ==
    /\ \E v \in Values : setting = [k \in Keys |-> v] /\ newValue = [w \in Writers |-> v]
    /\ cached = [k \in Keys |-> NoEntry]
    /\ aged = {} /\ late = {} /\ threw = {}
    /\ query = [r \in Readers |-> Idle]
    /\ toFind = [w \in Writers |-> {}]
    /\ toStore = [w \in Writers |-> {}]
    /\ toDrop = [w \in Writers |-> {}]

-----------------------------------------------------------------------------
(* get() of a key that is listed returns at once and changes nothing.      *)
GetMissed(r, k) ==
    /\ query[r] = Idle /\ cached[k] = NoEntry
    /\ query' = [query EXCEPT ![r].key = k]
    /\ UNCHANGED <<setting, cached, aged, setCalls, late, threw>>

(* The SELECT has been executed; its answer is on the way.                 *)
GetAnswered(r) ==
    /\ query[r].key # NoEntry /\ query[r].got = NoEntry
    /\ query' = [query EXCEPT ![r].got = setting[query[r].key]]
    /\ UNCHANGED <<setting, cached, aged, setCalls, late, threw>>

(* The answer is put in the cache, whatever has happened to the row since. *)
GetReturns(r) ==
    LET k == query[r].key IN
    /\ query[r].got # NoEntry
    /\ cached' = [cached EXCEPT ![k] = query[r].got]
    /\ aged' = aged \ {k}
    /\ late' = IF query[r].overtaken THEN late \cup {k} ELSE late \ {k}
    /\ query' = [query EXCEPT ![r] = Idle]
    /\ UNCHANGED <<setting, setCalls, threw>>

GetRefused(r) ==
    /\ query[r].key # NoEntry /\ query[r].got = NoEntry
    /\ query' = [query EXCEPT ![r] = Idle]
    /\ UNCHANGED <<setting, cached, aged, setCalls, late, threw>>

-----------------------------------------------------------------------------
SetCalled(w, ks, v) ==
    /\ toFind[w] = {} /\ toStore[w] = {} /\ toDrop[w] = {}
    /\ toFind' = [toFind EXCEPT ![w] = ks]
    /\ toDrop' = [toDrop EXCEPT ![w] = ks]
    /\ newValue' = [newValue EXCEPT ![w] = v]
    /\ threw' = threw \ {w}
    /\ UNCHANGED <<setting, cached, aged, query, toStore, late>>

(* The keys are looked up one after the other, and the store of a bean     *)
(* begins as soon as it is found; it writes nothing when nothing changed.  *)
SetFound(w, k) ==
    /\ k \in toFind[w]
    /\ toFind' = [toFind EXCEPT ![w] = @ \ {k}]
    /\ toStore' = [toStore EXCEPT ![w] = IF setting[k] = newValue[w] THEN @ ELSE @ \cup {k}]
    /\ UNCHANGED <<setting, cached, aged, query, toDrop, newValue, late, threw>>

(* A get() that has its answer already will file an old one.               *)
SetStored(w, k) ==
    /\ k \in toStore[w]
    /\ toStore' = [toStore EXCEPT ![w] = @ \ {k}]
    /\ setting' = [setting EXCEPT ![k] = newValue[w]]
    /\ query' = [r \in Readers |-> IF query[r].key = k /\ query[r].got # NoEntry
                                   THEN [query[r] EXCEPT !.overtaken = TRUE] ELSE query[r]]
    /\ late' = IF w \in threw /\ cached[k] # NoEntry THEN late \cup {k} ELSE late
    /\ UNCHANGED <<cached, aged, toFind, toDrop, newValue, threw>>

(* A look-up that is refused ends the loop, a store that is refused the    *)
(* wait for all: the call throws before deleteCache(), and the stores that *)
(* have begun come to their end without it.                                *)
SetLookupRefused(w) ==
    /\ toFind[w] # {}
    /\ toFind' = [toFind EXCEPT ![w] = {}]
    /\ toDrop' = [toDrop EXCEPT ![w] = {}]
    /\ late' = late \cup {k \in toDrop[w] : cached[k] \notin {NoEntry, setting[k]}}
    /\ threw' = threw \cup {w}
    /\ UNCHANGED <<setting, cached, aged, query, toStore, newValue>>

SetStoreRefused(w, k) ==
    /\ k \in toStore[w]
    /\ toStore' = [toStore EXCEPT ![w] = @ \ {k}]
    /\ toDrop' = [toDrop EXCEPT ![w] = {}]
    /\ late' = late \cup {j \in toDrop[w] : cached[j] \notin {NoEntry, setting[j]}}
    /\ threw' = threw \cup {w}
    /\ UNCHANGED <<setting, cached, aged, query, toFind, newValue>>

Listed == {k \in Keys : cached[k] # NoEntry}

Delete(ks) ==
    /\ cached' = [k \in Keys |-> IF k \in ks THEN NoEntry ELSE cached[k]]
    /\ late' = late \ ks

(* Bug: the entries are deleted while the stores are going on.             *)
SetReturns_early(w) ==
    /\ toFind[w] = {} /\ toDrop[w] # {}
    /\ Delete(toDrop[w])
    /\ aged' = aged \ toDrop[w]
    /\ toDrop' = [toDrop EXCEPT ![w] = {}]
    /\ UNCHANGED <<setting, query, toFind, toStore, newValue, threw>>

(* All stores have succeeded: deleteCache().                               *)
SetReturns(w) ==
    /\ toFind[w] = {} /\ toStore[w] = {} /\ toDrop[w] # {}
    /\ Delete(toDrop[w])
    /\ aged' = aged \ toDrop[w]
    /\ toDrop' = [toDrop EXCEPT ![w] = {}]
    /\ UNCHANGED <<setting, query, toFind, toStore, newValue, threw>>

(* Bug: reading an entry makes it young again, so a stale one in use stays.*)
CleanerTick_keepsUsed ==
    /\ \E used \in SUBSET Listed :
          /\ Delete(aged \ used)
          /\ aged' = Listed \ (aged \cup used)
    /\ UNCHANGED <<setting, query, setCalls, threw>>

(* Once a minute the entries older than a minute go.  One that a tick has  *)
(* seen is; one that no tick has seen may be, for a tick may come late.    *)
CleanerTick ==
    /\ \E young \in SUBSET (Listed \ aged) :
          /\ Delete(aged \cup young)
          /\ aged' = Listed \ (aged \cup young)
    /\ UNCHANGED <<setting, query, setCalls, threw>>

(* The table alone outlives the process.                                   *)
CacheCrash ==
    /\ cached' = [k \in Keys |-> NoEntry]
    /\ aged' = {} /\ late' = {} /\ threw' = {}
    /\ query' = [r \in Readers |-> Idle]
    /\ toFind' = [w \in Writers |-> {}]
    /\ toStore' = [w \in Writers |-> {}]
    /\ toDrop' = [w \in Writers |-> {}]
    /\ UNCHANGED <<setting, newValue>>

GetStep(r) == GetAnswered(r) \/ GetReturns(r) \/ GetRefused(r)

SetStep(w) ==
    \/ \E k \in Keys : SetFound(w, k) \/ SetStored(w, k) \/ SetStoreRefused(w, k)
    \/ SetLookupRefused(w)
    \/ SetReturns(w)

CacheNext ==
    \/ \E r \in Readers : GetStep(r) \/ \E k \in Keys : GetMissed(r, k)
    \/ \E w \in Writers : SetStep(w)
    \/ \E w \in Writers, ks \in SUBSET Keys \ {{}}, v \in Values : SetCalled(w, ks, v)
    \/ CleanerTick
    \/ CacheCrash

CacheSpec == CacheInit /\ [][CacheNext]_cacheVars

(* A statement is answered or refused in the end, setInterval keeps going. *)
CacheFairness ==
    /\ WF_cacheVars(CleanerTick)
    /\ \A r \in Readers : WF_cacheVars(GetStep(r))
    /\ \A w \in Writers : WF_cacheVars(SetStep(w))

-----------------------------------------------------------------------------
(* An entry differs from its row only while a set that has not returned is *)
(* going to delete it, when it was filled by a get() that read before the  *)
(* store, or when a set threw: a set that returned has been obeyed.        *)
CacheAgrees ==
    \A k \in Keys :
        cached[k] \notin {NoEntry, setting[k]}
            => k \in late \/ \E w \in Writers : k \in toDrop[w]

(* The races of get() and set() do not last: once no more set is called,   *)
(* every entry is in the end that of its row, and stays it.                *)
Calm == \A w \in Writers : toFind[w] = {} /\ toStore[w] = {} /\ toDrop[w] = {}

CacheSettles ==
    <>[]Calm => <>[](\A k \in Keys : cached[k] \in {NoEntry, setting[k]})
=============================================================================
