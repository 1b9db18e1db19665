----------------------------- MODULE UptimeStats -----------------------------
(***************************************************************************)
(* The uptime calculator of one monitor, with one of its four tiers: the   *)
(* bucket of the current minute, hour, day or month, kept in memory and    *)
(* written behind every beat to its stat_* row.  init() loads the tiers    *)
(* and update() writes them one after another, so each sees what is here.  *)
(* Beats are the chains of awaits that call update() and then store their  *)
(* heartbeat; viewers are everybody else who asks for the calculator: the  *)
(* status page, badges, charts, and sendStats().  clearStatistics() deletes*)
(* the heartbeats, then the stat rows, and then forgets the calculator,    *)
(* which beats on their way still hold.                                    *)
(***************************************************************************)
EXTENDS Integers, FiniteSets

CONSTANTS
    Beats,      \* the runner of a polled monitor, or requests in flight
    Viewers,    \* readers who come before the calculator has been loaded
    Cap,        \* bound: attempts to store a beat in one bucket
    Faults,     \* subset of {"crash", "update", "init", "clear"}
    None

ASSUME CapAssumption == Cap \in Nat

ASSUME CallersAssumption ==
    /\ IsFiniteSet(Beats \cup Viewers)
    /\ Beats \cap Viewers = {}
    /\ None \notin Beats

ASSUME FaultsAssumption == Faults \subseteq {"crash", "update", "init", "clear"}

VARIABLES
    calc,       \* UptimeCalculator.list[id]: "none", "fresh" or "loaded"
    bucket,     \* which object the current key of the queue holds
    count,      \* the beats each bucket object has counted
    cache,      \* last...StatBean: whose findOrDispense made it
    saved,      \* the bean a beat has made: "new" has no id, "row" has that
                \* of the row, "gone" that of a row which has been deleted
    row,        \* the stat row's count, 0 when there is no row
    pc,
    held,       \* the bucket object update() took from the queue
    bean,       \* the stat bean it is going to store
    value,      \* the count in the statement it has sent
    stored,     \* heartbeat rows of the bucket
    lost,       \* beats that never got theirs
    wiping,     \* clearStatistics(): "no", or what it does next
    behind,     \* callers that hold a calculator which has been forgotten
    \* history
    cleared,    \* heartbeats that a clearing others overlapped has deleted
    mixed       \* in this bucket two callers, or one and a clearing, were
                \* at it at the same time, or a load or a clearing failed

memory == <<calc, bucket, count, cache, saved>>
chains == <<pc, held, bean, value>>
clears == <<wiping, cleared>>
vars   == <<memory, row, chains, stored, lost, clears, behind, mixed>>

Callers == Beats \cup Viewers
Objects == {"none", "made", "loaded"}

TypeOK ==
    /\ calc \in {"none", "fresh", "loaded"}
    /\ bucket \in Objects
    /\ count \in [Objects -> 0 .. Cap]
    /\ cache \in Beats \cup {None}
    /\ saved \in [Beats -> {"new", "row", "gone"}]
    /\ row \in 0 .. Cap
    /\ pc \in [Callers -> {"idle", "init", "update", "find", "sql", "beat"}]
    /\ held \in [Beats -> Objects]
    /\ bean \in [Beats -> Beats \cup {None}]
    /\ value \in [Beats -> 0 .. Cap]
    /\ stored \in Nat /\ lost \in Nat /\ cleared \in Nat /\ mixed \in BOOLEAN
    /\ wiping \in {"no", "rows", "forget"}
    /\ behind \in SUBSET Callers
    /\ \A b \in Beats : pc[b] = "sql" => bean[b] # None /\ value[b] > 0

Init ==
    /\ calc = "none" /\ bucket = "none" /\ cache = None
    /\ count = [o \in Objects |-> 0]
    /\ saved = [b \in Beats |-> "new"]
    /\ row = 0
    /\ pc = [c \in Callers |-> "idle"]
    /\ held = [b \in Beats |-> "none"]
    /\ bean = [b \in Beats |-> None]
    /\ value = [b \in Beats |-> 0]
    /\ stored = 0 /\ lost = 0 /\ cleared = 0 /\ mixed = FALSE
    /\ wiping = "no" /\ behind = {}

-----------------------------------------------------------------------------
Busy == {b \in Beats : pc[b] # "idle"}

(* The callers that are at it.                                             *)
Working == {c \in Callers : pc[c] # "idle"}

GoTo(c, where) == pc' = [pc EXCEPT ![c] = where]

(* The beat does not touch its calculator and its bean again.              *)
LetsGo(b) ==
    /\ held' = [held EXCEPT ![b] = "none"]
    /\ bean' = [bean EXCEPT ![b] = None]
    /\ value' = [value EXCEPT ![b] = 0]
    /\ behind' = behind \ {b}

(* getUptimeCalculator(): whoever finds no calculator lists a new one and  *)
(* begins to load it; everybody after that is handed the listed one.       *)
Ask(c) ==
    /\ pc[c] = "idle"
    /\ c \in Beats => stored + lost + cleared + Cardinality(Busy) < Cap
    /\ c \in Viewers => calc = "none"
    /\ calc' = IF calc = "none" THEN "fresh" ELSE calc
    /\ mixed' = (mixed \/ Working # {} \/ wiping # "no")
    /\ GoTo(c, IF calc = "none" THEN "init" ELSE "update")
    /\ UNCHANGED <<bucket, count, cache, saved, row, held, bean, value, stored, lost,
                   clears, behind>>

(* init(): a row that is found replaces what the queue held at its key.    *)
Load(c) ==
    /\ pc[c] = "init" /\ c \notin behind
    /\ IF row = 0
       THEN UNCHANGED <<bucket, count>>
       ELSE bucket' = "loaded" /\ count' = [count EXCEPT !["loaded"] = row]
    /\ calc' = "loaded"
    /\ GoTo(c, IF c \in Beats THEN "update" ELSE "idle")
    /\ UNCHANGED <<cache, saved, row, held, bean, value, stored, lost, clears, behind, mixed>>

(* A calculator that is forgotten while it is loaded: its caller is handed *)
(* whatever is listed by then, and throws if that is nothing.              *)
LoadsForgotten(c) ==
    /\ pc[c] = "init" /\ c \in behind
    /\ behind' = behind \ {c}
    /\ GoTo(c, IF c \in Beats /\ calc # "none" THEN "update" ELSE "idle")
    /\ lost' = IF c \in Beats /\ calc = "none" THEN lost + 1 ELSE lost
    /\ UNCHANGED <<memory, row, held, bean, value, stored, clears, mixed>>

(* update() up to its first await: count the beat, and take the cached     *)
(* bean if it is the bucket's.                                             *)
Update(b) ==
    LET o == IF bucket = "none" THEN "made" ELSE bucket
    IN /\ pc[b] = "update"
       /\ bucket' = o
       /\ count' = [count EXCEPT ![o] = @ + 1]
       /\ held' = [held EXCEPT ![b] = o]
       /\ bean' = [bean EXCEPT ![b] = cache]
       /\ value' = [value EXCEPT ![b] = count[o] + 1]
       /\ GoTo(b, IF cache = None THEN "find" ELSE "sql")
       /\ UNCHANGED <<calc, cache, saved, row, stored, lost, clears, behind, mixed>>

(* findOrDispenseStatBean(): the row's bean, or a new one without an id;   *)
(* cached as it comes, and given the count of the moment.  Bound: not while*)
(* another beat has a statement on its way for the bean b made before.     *)
Find(b) ==
    /\ pc[b] = "find"
    /\ \A c \in Beats \ {b} : pc[c] = "sql" => bean[c] # b
    /\ saved' = [saved EXCEPT ![b] = IF row > 0 THEN "row" ELSE "new"]
    /\ bean' = [bean EXCEPT ![b] = b]
    /\ cache' = IF b \in behind THEN cache ELSE b
    /\ value' = [value EXCEPT ![b] = IF b \in behind THEN @ ELSE count[held[b]]]
    /\ GoTo(b, "sql")
    /\ UNCHANGED <<calc, bucket, count, row, held, stored, lost, clears, behind, mixed>>

(* Two rows of one monitor and timestamp are refused by the UNIQUE index.  *)
Refused(b) == saved[bean[b]] = "new" /\ row > 0

(* R.store(): UPDATE for a bean that has an id, INSERT for one that has    *)
(* none.  The UPDATE of a row that has been deleted changes nothing.       *)
StoreStat(b) ==
    /\ pc[b] = "sql" /\ ~Refused(b)
    /\ row' = IF saved[bean[b]] = "gone" THEN row ELSE value[b]
    /\ saved' = [saved EXCEPT ![bean[b]] = IF @ = "gone" THEN @ ELSE "row"]
    /\ LetsGo(b)
    /\ GoTo(b, "beat")
    /\ UNCHANGED <<calc, bucket, count, cache, stored, lost, clears, mixed>>

(* Behind update(): R.store() of the heartbeat itself.                     *)
StoreBeat(b) ==
    /\ pc[b] = "beat"
    /\ stored' = stored + 1
    /\ GoTo(b, "idle")
    /\ UNCHANGED <<memory, row, held, bean, value, lost, clears, behind, mixed>>

(* A statement is refused: the beat is dropped, its count is not taken back*)
Fail(b) ==
    /\ \/ "update" \in Faults /\ pc[b] \in {"find", "sql", "beat"}
       \/ pc[b] = "sql" /\ Refused(b)
    /\ lost' = lost + 1
    /\ LetsGo(b)
    /\ GoTo(b, "idle")
    /\ UNCHANGED <<memory, row, stored, clears, mixed>>

(* A failed load leaves the calculator listed.                             *)
LoadFails(c) ==
    /\ "init" \in Faults /\ pc[c] = "init"
    /\ GoTo(c, "idle")
    /\ behind' = behind \ {c}
    /\ mixed' = TRUE
    /\ UNCHANGED <<memory, row, held, bean, value, stored, lost, clears>>

(* clearStatistics(): the heartbeats go first.  Bound: one call at a time. *)
ClearStatistics ==
    /\ wiping = "no"
    /\ wiping' = "rows"
    /\ stored' = 0 /\ cleared' = cleared + stored
    /\ mixed' = (Working # {})
    /\ UNCHANGED <<memory, row, chains, lost, behind>>

(* Then the stat rows.                                                     *)
RowsDeleted ==
    /\ wiping = "rows"
    /\ wiping' = "forget"
    /\ row' = 0
    /\ saved' = [b \in Beats |-> IF saved[b] = "row" THEN "gone" ELSE saved[b]]
    /\ UNCHANGED <<calc, bucket, count, cache, chains, stored, lost, cleared, behind, mixed>>

(* Bug: the calculator stays listed.                                       *)
CalculatorForgotten_listed ==
    /\ wiping = "forget" /\ \A b \in Beats : pc[b] # "update"
    /\ wiping' = "no"
    /\ cleared' = IF mixed THEN cleared ELSE 0
    /\ lost' = IF mixed THEN lost ELSE 0
    /\ UNCHANGED <<memory, row, chains, stored, behind, mixed>>

(* And the calculator is forgotten; what its beats on their way hold does  *)
(* not change any more.  Between being handed it and update() there is no  *)
(* statement, hence no room for this.                                      *)
CalculatorForgotten ==
    /\ wiping = "forget" /\ \A b \in Beats : pc[b] # "update"
    /\ wiping' = "no"
    /\ calc' = "none" /\ bucket' = "none" /\ cache' = None
    /\ count' = [o \in Objects |-> 0]
    /\ value' = [b \in Beats |-> IF pc[b] = "find" /\ b \notin behind
                                  THEN count[held[b]] ELSE value[b]]
    /\ behind' = {c \in Callers : pc[c] \in {"init", "find", "sql"}}
    /\ cleared' = IF mixed THEN cleared ELSE 0
    /\ lost' = IF mixed THEN lost ELSE 0
    /\ UNCHANGED <<saved, row, pc, held, bean, stored, mixed>>

(* A DELETE is refused: the calculator goes on counting what is no more.   *)
ClearRefused ==
    /\ "clear" \in Faults /\ wiping # "no"
    /\ wiping' = "no"
    /\ mixed' = TRUE
    /\ UNCHANGED <<memory, row, chains, stored, lost, cleared, behind>>

(* The process dies and is started again.                                  *)
Crash ==
    /\ "crash" \in Faults
    /\ calc' = "none" /\ bucket' = "none" /\ cache' = None
    /\ count' = [o \in Objects |-> 0]
    /\ saved' = [b \in Beats |-> "new"]
    /\ wiping' = "no" /\ behind' = {}
    /\ pc' = [c \in Callers |-> "idle"]
    /\ held' = [b \in Beats |-> "none"]
    /\ bean' = [b \in Beats |-> None]
    /\ value' = [b \in Beats |-> 0]
    /\ lost' = lost + Cardinality(Busy)
    /\ UNCHANGED <<row, stored, cleared, mixed>>

(* The next bucket begins: a key without an object, a timestamp no cached  *)
(* bean has, no row.  Bound: nothing is half done as it happens.           *)
BucketRolls ==
    /\ Working = {} /\ wiping = "no"
    /\ stored + lost + cleared > 0
    /\ row' = 0 /\ stored' = 0 /\ lost' = 0 /\ cleared' = 0 /\ mixed' = FALSE
    /\ bucket' = "none" /\ cache' = None
    /\ count' = [o \in Objects |-> 0]
    /\ saved' = [b \in Beats |-> "new"]
    /\ UNCHANGED <<calc, chains, wiping, behind>>

Next ==
    \/ \E c \in Callers : Ask(c) \/ Load(c) \/ LoadsForgotten(c) \/ LoadFails(c)
    \/ \E b \in Beats : Update(b) \/ Find(b) \/ StoreStat(b) \/ StoreBeat(b) \/ Fail(b)
    \/ ClearStatistics \/ RowsDeleted \/ CalculatorForgotten \/ ClearRefused
    \/ Crash \/ BucketRolls

Spec == Init /\ [][Next]_vars

-----------------------------------------------------------------------------
(* No heartbeat that is in the table is missing from the statistics, not   *)
(* even after crashes, refused statements and clearings, as long as nobody *)
(* else was at it while a beat or a clearing was, and no load and no       *)
(* clearing failed.                                                        *)
EveryBeatCounted == ~mixed => stored <= row

(* No beat is counted twice, whoever else is there and whatever fails:     *)
(* what a row has beyond the heartbeats are beats that failed behind the   *)
(* count or are still on their way, and the ones that a clearing deleted   *)
(* while somebody else was at it.                                          *)
CountedOnce == row <= stored + lost + cleared + Cardinality(Busy)

(* So the row says how many beats there were.                              *)
CountIsExact == CountedOnce /\ EveryBeatCounted

(* "Initializes and returns the monitor if it does not exist": nobody      *)
(* counts on a calculator that has not been loaded.                        *)
CountsOnLoaded == \A b \in Beats : pc[b] = "update" => calc = "loaded"
=============================================================================
