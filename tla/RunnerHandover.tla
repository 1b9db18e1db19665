--------------------------- MODULE RunnerHandover ---------------------------
(***************************************************************************)
(* The runners of a polled monitor that is edited, paused, resumed or      *)
(* cleared: stop() does not wait for the beat in flight, so a runner that  *)
(* has been stopped still announces and stores its last beat, next to the  *)
(* first beats of its successor.  What a check comes to is MonitorBeat's   *)
(* business: here it is any verdict; who may be started and stopped is     *)
(* MonitorLifecycle's.                                                     *)
(***************************************************************************)
EXTENDS BeatRules

CONSTANTS
    Beans,      \* bound: runners that have not ended
    NoRunner,   \* the monitor is paused
    Paces,      \* values of resendInterval
    Verdicts    \* statuses a check may come to

ASSUME HandoverAssumption ==
    /\ NoRunner \notin Beans
    /\ Paces \subseteq Nat /\ Verdicts \subseteq Statuses

VARIABLES
    pace,       \* the monitor's resendInterval
    listedBean, \* the runner in monitorList that has not been stopped
    at,         \* where the beat of each runner is
    previous,   \* its previousBeat
    drafted,    \* the bean of its beat
    latest,     \* the row with the latest time, NoBeat when there is none
    elders,     \* the runners whose beans in flight have earlier times
    overtaken,  \* runners whose bean is older than the latest row
    lastTold,   \* history: the last announcement
    deaf        \* history: DOWN rows the listed runners have stored since
                \* the subscribers have last heard something else

handoverVars == <<pace, listedBean, at, previous, drafted, latest, elders, overtaken,
                  lastTold, deaf>>

Rows == [status : Verdicts, retries : {0}, downCount : Nat] \cup {NoBeat}

HandoverTypeOK ==
    /\ pace \in Paces
    /\ listedBean \in Beans \cup {NoRunner}
    /\ at \in [Beans -> {"none", "timer", "read", "check", "notify", "store"}]
    /\ previous \in [Beans -> Rows] /\ drafted \in [Beans -> Rows]
    /\ latest \in Rows
    /\ elders \in [Beans -> SUBSET Beans] /\ overtaken \subseteq Beans
    /\ lastTold \in Statuses \cup {NONE} /\ deaf \in Nat

HandoverInit ==
    /\ pace \in Paces /\ listedBean = NoRunner
    /\ at = [r \in Beans |-> "none"]
    /\ previous = [r \in Beans |-> NoBeat] /\ drafted = [r \in Beans |-> NoBeat]
    /\ latest = NoBeat
    /\ elders = [r \in Beans |-> {}] /\ overtaken = {}
    /\ lastTold = NONE /\ deaf = 0

-----------------------------------------------------------------------------
Dated == {"check", "notify", "store"}

(* bean.time is now: the beans of the other beats under way are older.     *)
DatedNow(r) ==
    /\ elders' = [elders EXCEPT ![r] = {y \in Beans \ {r} : at[y] \in Dated}]
    /\ at' = [at EXCEPT ![r] = "check"]

(* stop() clears the timer; a beat in flight goes on, and what its closure *)
(* remembers is of use to nothing behind its check.                        *)
AtOnceStopped ==
    [r \in Beans |-> IF r = listedBean /\ at[r] = "timer" THEN "none" ELSE at[r]]

Unlearned ==
    [r \in Beans |-> IF r = listedBean /\ at[r] # "check" THEN NoBeat ELSE previous[r]]

(* startMonitor(): the listed runner is stopped, the new one listed.       *)
StartRunner(r) ==
    /\ at[r] = "none"
    /\ listedBean' = r
    /\ at' = [AtOnceStopped EXCEPT ![r] = "read"]
    /\ previous' = [Unlearned EXCEPT ![r] = NoBeat]
    /\ UNCHANGED <<pace, drafted, latest, elders, overtaken, lastTold, deaf>>

StopRunner ==
    /\ listedBean # NoRunner
    /\ listedBean' = NoRunner /\ at' = AtOnceStopped /\ previous' = Unlearned
    /\ UNCHANGED <<pace, drafted, latest, elders, overtaken, lastTold, deaf>>

(* A runner that has no previousBeat reads the newest row.                 *)
TimerFires(r) ==
    /\ at[r] = "timer"
    /\ IF previous[r] = NoBeat
       THEN at' = [at EXCEPT ![r] = "read"] /\ UNCHANGED elders
       ELSE DatedNow(r)
    /\ UNCHANGED <<pace, listedBean, previous, drafted, latest, overtaken, lastTold, deaf>>

ReadLatest(r) ==
    /\ at[r] = "read"
    /\ previous' = [previous EXCEPT ![r] = latest]
    /\ DatedNow(r)
    /\ UNCHANGED <<pace, listedBean, drafted, latest, overtaken, lastTold, deaf>>

Setting == [resendInterval |-> pace]

Repeated(status, was) ==
    ~IsImportantBeat(was.status, status) /\ status = DOWN /\ ResendDue(Setting, was.downCount)

(* The bean of a beat that found `status` behind the beat `was`.           *)
Draft_fromZero(status, was) ==
    [status |-> status, retries |-> 0,
     downCount |-> IF IsImportantBeat(was.status, status) THEN 0
                   ELSE DownCountAfterQuietBeat(Setting, status, 0)]

Draft(status, was) ==
    [status |-> status, retries |-> 0,
     downCount |-> IF IsImportantBeat(was.status, status) THEN 0
                   ELSE DownCountAfterQuietBeat(Setting, status, was.downCount)]

(* From the end of the check to the first await behind it.                 *)
Judge(r, status) ==
    LET was == previous[r]
    IN /\ at[r] = "check"
       /\ drafted' = [drafted EXCEPT ![r] = Draft(status, was)]
       /\ at' = [at EXCEPT ![r] =
                    IF IsNotified(was.status, status) \/ Repeated(status, was)
                    THEN "notify" ELSE "store"]
       /\ previous' = IF r = listedBean THEN previous
                       ELSE [previous EXCEPT ![r] = NoBeat]
       /\ UNCHANGED <<pace, listedBean, latest, elders, overtaken, lastTold, deaf>>

Announces(r) ==
    /\ at[r] = "notify"
    /\ lastTold' = drafted[r].status
    /\ deaf' = 0
    /\ at' = [at EXCEPT ![r] = "store"]
    /\ UNCHANGED <<pace, listedBean, previous, drafted, latest, elders, overtaken>>

(* Behind its beat a runner that has not been stopped arms its timer.      *)
BeatEnds(r) ==
    /\ at' = [at EXCEPT ![r] = IF r = listedBean THEN "timer" ELSE "none"]
    /\ drafted' = [drafted EXCEPT ![r] = NoBeat]
    /\ elders' = [x \in Beans |-> IF x = r THEN {} ELSE elders[x] \ {r}]

StoresBeat(r) ==
    /\ at[r] = "store"
    /\ BeatEnds(r)
    /\ latest' = IF r \in overtaken THEN latest ELSE drafted[r]
    /\ overtaken' = (overtaken \cup elders[r]) \ {r}
    /\ previous' = IF r = listedBean THEN [previous EXCEPT ![r] = drafted[r]] ELSE previous
    /\ deaf' = IF r # listedBean THEN deaf
               ELSE IF drafted[r].status = DOWN /\ lastTold # DOWN THEN deaf + 1 ELSE 0
    /\ UNCHANGED <<pace, listedBean, lastTold>>

BeatFails(r) ==
    /\ at[r] \in {"read", "notify", "store"}
    /\ BeatEnds(r)
    /\ overtaken' = overtaken \ {r}
    /\ UNCHANGED <<pace, listedBean, previous, latest, lastTold, deaf>>

ServerCrashes ==
    /\ listedBean' = NoRunner /\ at' = [r \in Beans |-> "none"]
    /\ previous' = [r \in Beans |-> NoBeat] /\ drafted' = [r \in Beans |-> NoBeat]
    /\ elders' = [r \in Beans |-> {}] /\ overtaken' = {}
    /\ UNCHANGED <<pace, latest, lastTold, deaf>>

HandoverNext ==
    \/ \E r \in Beans :
          \/ StartRunner(r) \/ TimerFires(r) \/ ReadLatest(r)
          \/ \E status \in Verdicts : Judge(r, status)
          \/ Announces(r) \/ StoresBeat(r) \/ BeatFails(r)
    \/ StopRunner \/ ServerCrashes

HandoverSpec == HandoverInit /\ [][HandoverNext]_handoverVars

-----------------------------------------------------------------------------
(* Two runners that overlap may announce an outage twice, or a recovery    *)
(* that is none; but where reminders are on nobody is left with it: the    *)
(* runners that go on store no more than resendInterval DOWN rows in a row *)
(* without the subscribers hearing of it, however often they are replaced. *)
OutageIsRepeated == pace > 0 => deaf <= pace
=============================================================================
