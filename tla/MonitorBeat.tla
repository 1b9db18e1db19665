----------------------------- MODULE MonitorBeat -----------------------------
(***************************************************************************)
(* One monitor and the runner that checks it: Monitor.start() and its      *)
(* closures beat() and safeBeat(), for every type that is polled (push and *)
(* otel are in PushIngest).  A beat is a chain of awaits; every action     *)
(* below is the code between two of them.  The database may refuse any     *)
(* statement, and the process may die between any two steps.               *)
(***************************************************************************)
EXTENDS BeatRules

CONSTANTS
    Configs,    \* the settings a monitor can be saved with
    Cap,        \* bound: where the retry counter saturates
    Faults      \* subset of {"crash", "database"}

ASSUME CapAssumption == Cap \in Nat

ASSUME ConfigsAssumption ==
    Configs \subseteq [type : STRING, maxretries : 0 .. Cap - 1,
                       resendInterval : Nat, upsideDown : BOOLEAN,
                       codeOnly : BOOLEAN]

ASSUME FaultsAssumption == Faults \subseteq {"crash", "database"}

VARIABLES
    mon,        \* the runner's bean: the settings it was started with
    pc,         \* where beat() is; "off" before start() and after a crash
    prev,       \* previousBeat
    retries,    \* retries
    beat,       \* the bean of the beat in progress
    table,      \* the newest row of heartbeat, NoBeat when there is none
    window,     \* a maintenance window covers the monitor
    service,    \* what is being monitored is "working" or "broken"
    \* history
    announced,  \* statuses announced since the newest row was stored
    told,       \* the last announcement
    fails,      \* failed checks since the newest row that was no failure
    quiet       \* DOWN rows stored since the last announcement while
                \* reminders were on, counted up to resendInterval

closure == <<mon, pc, prev, retries, beat>>
history == <<announced, told, fails, quiet>>
world   == <<window, service>>
vars    == <<closure, table, world, history>>

Counters == 0 .. Cap

TypeOK ==
    /\ mon \in Configs
    /\ pc \in {"off", "timer", "read", "window", "probe", "notify", "uptime",
               "store", "forward"}
    /\ prev \in BeatRows(Counters) \cup {NoBeat}
    /\ retries \in Counters
    /\ beat \in BeatRows(Counters) \cup {NoBeat}
    /\ table \in BeatRows(Counters) \cup {NoBeat}
    /\ window \in BOOLEAN
    /\ service \in {"working", "broken"}
    /\ announced \subseteq {UP, DOWN}
    /\ told \in {NONE, UP, DOWN}
    /\ fails \in Counters
    /\ quiet \in Nat

Init ==
    /\ mon \in Configs
    /\ pc = "off"
    /\ prev = NoBeat /\ retries = 0 /\ beat = NoBeat /\ table = NoBeat
    /\ window = FALSE /\ service = "working"
    /\ announced = {} /\ told = NONE /\ fails = 0 /\ quiet = 0

-----------------------------------------------------------------------------
(* start(): the closure begins with no previous beat and no retries.  The  *)
(* settings may have been edited since the monitor was started last.       *)
Start(m) ==
    /\ pc = "off"
    /\ mon' = m
    /\ pc' = "read" /\ prev' = NoBeat /\ retries' = 0
    /\ UNCHANGED <<beat, table, world, history>>

Timer ==
    /\ pc = "timer"
    /\ pc' = IF prev = NoBeat THEN "read" ELSE "window"
    /\ UNCHANGED <<mon, prev, retries, beat, table, world, history>>

ReadPrevious_unchecked ==
    /\ pc = "read"
    /\ prev' = table
    /\ retries' = IF table = NoBeat THEN -1 ELSE table.retries
    /\ pc' = "window"
    /\ UNCHANGED <<mon, beat, table, world, history>>

(* The closure's retries are replaced only when a row is found.            *)
ReadPrevious ==
    /\ pc = "read"
    /\ prev' = table
    /\ retries' = IF table = NoBeat THEN retries ELSE table.retries
    /\ pc' = "window"
    /\ UNCHANGED <<mon, beat, table, world, history>>

(***************************************************************************)
(* From the end of the check to the first await behind it: the status, the *)
(* retry counter, the importance, and whether anybody is to be notified.   *)
(***************************************************************************)
Decide(status, r) ==
    LET important == IsImportantBeat(prev.status, status)
        resend    == ~important /\ status = DOWN /\ ResendDue(mon, prev.downCount)
        count     == IF important THEN 0
                     ELSE DownCountAfterQuietBeat(mon, status, prev.downCount)
    IN /\ retries' = r
       /\ beat' = [status |-> status, retries |-> r, downCount |-> count]
       /\ pc' = IF (important /\ IsNotified(prev.status, status)) \/ resend
                THEN "notify" ELSE "uptime"

EnterMaintenance ==
    /\ pc = "window" /\ window
    /\ Decide(MAINTENANCE, 0)
    /\ UNCHANGED <<mon, prev, table, world, history>>

BeginCheck ==
    /\ pc = "window" /\ ~window
    /\ pc' = "probe"
    /\ UNCHANGED <<mon, prev, retries, beat, table, world, history>>

Answers ==
    OutcomesOf(mon.type) \cap (IF service = "working" THEN {"up"} ELSE Outcomes \ {"up"})

Check(o) ==
    /\ pc = "probe" /\ o \in Answers
    /\ Decide(StatusAfter(mon, retries, o), RetriesAfter(mon, retries, o, Cap))
    /\ fails' = IF ResetsRetries(mon, o) \/ fails = Cap THEN fails ELSE fails + 1
    /\ UNCHANGED <<mon, prev, table, world, announced, told, quiet>>

(* A failed lookup of the windows is an error of the try block.            *)
WindowLookupFails ==
    /\ "database" \in Faults
    /\ pc = "window"
    /\ Decide(StatusAfter(mon, retries, "error"), RetriesAfter(mon, retries, "error", Cap))
    /\ fails' = IF ResetsRetries(mon, "error") \/ fails = Cap THEN fails ELSE fails + 1
    /\ UNCHANGED <<mon, prev, table, world, announced, told, quiet>>

(* sendNotification(): every provider is tried, its errors are swallowed.  *)
Notify ==
    /\ pc = "notify"
    /\ announced' = announced \cup {beat.status}
    /\ told' = beat.status
    /\ quiet' = 0
    /\ pc' = "uptime"
    /\ UNCHANGED <<mon, prev, retries, beat, table, world, fails>>

UpdateUptime ==
    /\ pc = "uptime"
    /\ pc' = "store"
    /\ UNCHANGED <<mon, prev, retries, beat, table, world, history>>

Store ==
    /\ pc = "store"
    /\ table' = beat
    /\ announced' = {}
    /\ fails' = IF beat.retries = 0 THEN 0 ELSE fails
    /\ quiet' = IF beat.status # DOWN \/ mon.resendInterval = 0 \/ DOWN \in announced
                THEN 0 ELSE IF quiet < mon.resendInterval THEN quiet + 1 ELSE quiet
    /\ pc' = "forward"
    /\ UNCHANGED <<mon, prev, retries, beat, world, told>>

(* forwardHeartbeatToMaster() never throws; only behind it does the        *)
(* closure adopt the beat and arm the next timer.                          *)
Forward ==
    /\ pc = "forward"
    /\ prev' = beat
    /\ pc' = "timer"
    /\ UNCHANGED <<mon, retries, beat, table, world, history>>

(* Bug: behind an error no timer is armed.                                 *)
DatabaseFails_unarmed ==
    /\ "database" \in Faults
    /\ pc \in {"read", "notify", "uptime", "store"}
    /\ pc' = "over" /\ beat' = NoBeat
    /\ UNCHANGED <<mon, prev, retries, table, world, history>>

(* A statement of beat() is refused: safeBeat() drops the bean and arms    *)
(* the timer again; retries keeps its new value.                           *)
DatabaseFails ==
    /\ "database" \in Faults
    /\ pc \in {"read", "notify", "uptime", "store"}
    /\ pc' = "timer" /\ beat' = NoBeat
    /\ UNCHANGED <<mon, prev, retries, table, world, history>>

(* The process dies, or the monitor is stopped between two beats: the      *)
(* closure is gone.                                                        *)
Halt ==
    /\ pc # "off"
    /\ pc = "timer" \/ "crash" \in Faults
    /\ pc' = "off" /\ prev' = NoBeat /\ retries' = 0 /\ beat' = NoBeat
    /\ UNCHANGED <<mon, table, world, history>>

WindowChanges ==
    /\ window' = ~window
    /\ UNCHANGED <<closure, table, service, history>>

ServiceChanges ==
    /\ service' = IF service = "working" THEN "broken" ELSE "working"
    /\ UNCHANGED <<closure, table, window, history>>

Next ==
    \/ \E m \in Configs : Start(m)
    \/ Timer \/ ReadPrevious
    \/ EnterMaintenance \/ BeginCheck \/ WindowLookupFails
    \/ \E o \in Outcomes : Check(o)
    \/ Notify \/ UpdateUptime \/ Store \/ Forward
    \/ DatabaseFails \/ Halt
    \/ WindowChanges \/ ServiceChanges

Spec == Init /\ [][Next]_vars

(***************************************************************************)
(* Timers fire and awaits come back, and the server is started again after *)
(* a crash; a statement that is asked again and again is not refused       *)
(* forever, and none of these steps is hit by a crash every time: strong   *)
(* fairness.  Nothing is assumed of the service, the windows or the        *)
(* faults; timers and forwards may be hit by a crash every time.           *)
(***************************************************************************)
Fairness ==
    /\ WF_vars((\E m \in Configs : Start(m)) \/ Timer \/ Forward)
    /\ SF_vars(ReadPrevious)
    /\ SF_vars(EnterMaintenance \/ BeginCheck)
    /\ SF_vars(\E o \in Outcomes : Check(o))
    /\ SF_vars(Notify)
    /\ SF_vars(UpdateUptime)
    /\ SF_vars(Store)

FairSpec == Spec /\ Fairness

-----------------------------------------------------------------------------
Decided == pc \in {"notify", "uptime", "store"}

(* CONTEXT.md's third invariant, across crashes, refused statements and    *)
(* restarts with other settings: a beat the retry rules apply to is DOWN   *)
(* only when more than maxretries checks have failed since the last row    *)
(* that was no failure.                                                    *)
DownOnlyAfterRetries ==
    Decided /\ beat.status = DOWN /\ beat.retries > 0 => fails > mon.maxretries

(* Reminders of a standing DOWN keep their pace whatever is refused or     *)
(* lost: resendInterval DOWN rows are never stored without one.            *)
ReminderInTime ==
    pc = "forward" /\ quiet > 0 => quiet < mon.resendInterval

(* The closure's previousBeat is the newest row while a check runs, so the *)
(* importance of a transition is judged against what is really recorded.   *)
PreviousIsNewest ==
    prev # NoBeat /\ pc # "forward" => prev = table

(* Nothing is recorded before it has been announced, and nothing else is   *)
(* announced: the runner implements the feed its subscribers rely on.      *)
Feed == INSTANCE AlertFeed WITH last <- table.status, announced <- announced
FeedImplemented == Feed!Spec

(* The catch block's comment "If UP come in here, it must be upside down   *)
(* mode": a beat the retry rules counted as a failure is not recorded UP.  *)
FailureIsNotUp == table.status = UP => table.retries = 0

(* The comment "DOWN -> PENDING = this case not exists" of                 *)
(* isImportantBeat() and isImportantForNotification().                     *)
DownNeverPending == [][~(table.status = DOWN /\ table'.status = PENDING)]_vars

(* What the settings of the monitor call an outage.                        *)
Outage == service = (IF mon.upsideDown THEN "working" ELSE "broken")

(* From some time on the windows can be looked up: a failed lookup counts  *)
(* as a failed check, so those alone could keep a monitor from settling.   *)
LookupsSettle == <>[][~WindowLookupFails]_vars

(* An outage that lasts ends up recorded as DOWN and stays so, however     *)
(* often the process dies and whatever else the database refuses.          *)
OutageIsRecorded ==
    LookupsSettle /\ <>[](Outage /\ ~window) => <>[](table.status = DOWN)

(* The same for a recovery.                                                *)
RecoveryIsRecorded ==
    LookupsSettle /\ <>[](~Outage /\ ~window) => <>[](table.status = UP)

(* Where reminders are on, the subscribers of a lasting outage have heard  *)
(* DOWN last in the end, even if a recovery was announced and then lost.   *)
OutageIsAnnounced ==
    LookupsSettle /\ <>[](Outage /\ ~window /\ mon.resendInterval > 0) => <>[](told = DOWN)
=============================================================================
