----------------------------- MODULE PushIngest -----------------------------
(***************************************************************************)
(* A monitor that is fed from outside: requests that carry a signal (push, *)
(* OTLP datapoints, heartbeats of a federated agent) and the watchdog that *)
(* its runner has become.  All of them read the newest row, judge their    *)
(* own beat against it, notify and store, each on its own chain of awaits. *)
(* The runner's life is in MonitorLifecycle.                               *)
(***************************************************************************)
EXTENDS BeatRules

CONSTANTS
    Requests,   \* bound: requests in flight at the same time
    Watchdog,   \* the runner
    Settings,   \* the settings the monitor can have; in_turn: a beat begins
                \* only when no other is in progress; windows: it has maintenance
    Cap,        \* bound: where retry counters saturate
    Drops       \* TRUE: statements may be refused and requests lost

ASSUME ActorsAssumption == Watchdog \notin Requests

ASSUME DropsAssumption == Drops \in BOOLEAN

ASSUME SettingsAssumption ==
    /\ Cap \in Nat
    /\ Settings \subseteq [source : {"push", "otel", "federation"},
                           maxretries : 0 .. Cap - 1, resendInterval : Nat,
                           upsideDown : BOOLEAN, codeOnly : {FALSE}, in_turn : BOOLEAN,
                           windows : BOOLEAN]

VARIABLES
    mon,        \* the settings
    byId,       \* the heartbeat row with the highest id
    byTime,     \* the heartbeat row with the latest time
    pc,         \* where each beat is
    signal,     \* what the request each serves says; NONE for the watchdog
    prev,       \* the previous heartbeat each has read
    beat,       \* the bean each is going to store
    older,      \* the beats in progress whose time is before a beat's own
    overtaken,  \* a row with a later time than the beat's was stored
    retries,    \* the watchdog's retries
    aged,       \* byTime is further back than the interval and its buffer
    window,     \* a maintenance window covers the monitor
    \* history
    announced,  \* statuses announced since byId was stored
    told,       \* the last announcement
    fails,      \* beats judged PENDING or DOWN since the last row that is
                \* neither
    quiet       \* DOWN rows since the last announcement with reminders on,
                \* counted up to resendInterval

beats    == <<pc, signal, prev, beat, older, overtaken>>
rows     == <<byId, byTime>>
history  == <<announced, told, fails, quiet>>
vars     == <<mon, rows, beats, retries, aged, window, history>>

Actors   == Requests \cup {Watchdog}
Counters == 0 .. Cap
Rows     == BeatRows(Counters) \cup {NoBeat}

TypeOK ==
    /\ mon \in Settings
    /\ byId \in Rows /\ byTime \in Rows
    /\ pc \in [Actors -> {"idle", "judge", "notify", "store"}]
    /\ signal \in [Actors -> {UP, DOWN, NONE}]
    /\ prev \in [Actors -> Rows]
    /\ beat \in [Actors -> Rows]
    /\ older \in [Actors -> SUBSET Actors]
    /\ overtaken \in [Actors -> BOOLEAN]
    /\ retries \in Counters
    /\ {aged, window} \subseteq BOOLEAN
    /\ announced \subseteq {UP, DOWN} /\ told \in {NONE, UP, DOWN}
    /\ fails \in Counters /\ quiet \in Nat

Init ==
    /\ mon \in Settings
    /\ byId = NoBeat /\ byTime = NoBeat
    /\ pc = [a \in Actors |-> "idle"]
    /\ signal = [a \in Actors |-> NONE]
    /\ prev = [a \in Actors |-> NoBeat]
    /\ beat = [a \in Actors |-> NoBeat]
    /\ older = [a \in Actors |-> {}]
    /\ overtaken = [a \in Actors |-> FALSE]
    /\ retries = 0
    /\ aged = FALSE /\ window = FALSE
    /\ announced = {} /\ told = NONE /\ fails = 0 /\ quiet = 0

-----------------------------------------------------------------------------
(* determineStatus() of the push handler                                   *)
Retried_offByOne(before, says) ==
    /\ says = DOWN
    /\ before.status \in {NONE, UP, PENDING}
    /\ before.retries + 1 < mon.maxretries

Retried(before, says) ==
    /\ says = DOWN
    /\ before.status \in {NONE, UP, PENDING}
    /\ before.retries < mon.maxretries

Bumped(n) == IF n < Cap THEN n + 1 ELSE Cap

DetermineStatus(before, says) ==
    IF Retried(before, says)
    THEN [status |-> PENDING, retries |-> Bumped(before.retries)]
    ELSE [status  |-> says,
          retries |-> IF says = DOWN /\ before.status \notin {NONE, UP}
                      THEN Bumped(before.retries) ELSE 0]

(* A datapoint's condition is never flipped; only pushes have retries.     *)
Judged(before, says) ==
    CASE mon.source = "push" -> DetermineStatus(before, Oriented(mon.upsideDown, says))
      [] mon.source = "otel" -> [status |-> says, retries |-> 0]
      [] OTHER -> [status |-> Oriented(mon.upsideDown, says), retries |-> 0]

UnderMaintenance == [status |-> MAINTENANCE, retries |-> 0]

-----------------------------------------------------------------------------
(* A beat takes its time in the step that reads the previous one.          *)
Begin(a, before, says) ==
    /\ pc[a] = "idle"
    /\ ~mon.in_turn \/ \A b \in Actors : pc[b] = "idle"
    /\ pc' = [pc EXCEPT ![a] = "judge"]
    /\ signal' = [signal EXCEPT ![a] = says]
    /\ prev' = [prev EXCEPT ![a] = before]
    /\ older' = [older EXCEPT ![a] = {b \in Actors : pc[b] # "idle"}]
    /\ UNCHANGED <<mon, rows, beat, overtaken, aged, window, history>>

RequestArrives(a, says) ==
    /\ Begin(a, byId, says)
    /\ UNCHANGED retries

(* The watchdog's timer: it looks for the latest row, not the newest one.  *)
WatchdogWakes ==
    /\ Begin(Watchdog, byTime, NONE)
    /\ retries' = IF byTime = NoBeat THEN retries ELSE byTime.retries

Decide_firstBeatQuiet(a, verdict, isReset) ==
    LET resend == ~isReset /\ verdict.status = DOWN /\ ResendDue(mon, prev[a].downCount)
        count  == IF isReset THEN 0
                  ELSE DownCountAfterQuietBeat(mon, verdict.status, prev[a].downCount)
    IN /\ beat' = [beat EXCEPT ![a] = [status    |-> verdict.status,
                                       retries   |-> verdict.retries,
                                       downCount |-> count]]
       /\ pc' = [pc EXCEPT ![a] =
                    IF (isReset /\ prev[a] # NoBeat /\ IsNotified(prev[a].status, verdict.status))
                       \/ resend
                    THEN "notify" ELSE "store"]
       /\ fails' = IF verdict.status \in {PENDING, DOWN} THEN Bumped(fails) ELSE fails
       /\ UNCHANGED <<mon, rows, signal, prev, older, overtaken, aged, window,
                      announced, told, quiet>>

(* To the notification if there is one, else to the store.  A beat that is *)
(* no reset may be due for a reminder.                                     *)
Decide(a, verdict, isReset) ==
    LET before == prev[a].status
        resend == ~isReset /\ verdict.status = DOWN /\ ResendDue(mon, prev[a].downCount)
        count  == IF isReset THEN 0
                  ELSE DownCountAfterQuietBeat(mon, verdict.status, prev[a].downCount)
    IN /\ beat' = [beat EXCEPT ![a] = [status    |-> verdict.status,
                                       retries   |-> verdict.retries,
                                       downCount |-> count]]
       /\ pc' = [pc EXCEPT ![a] =
                    IF (isReset /\ IsNotified(before, verdict.status)) \/ resend
                    THEN "notify" ELSE "store"]
       /\ fails' = IF verdict.status \in {PENDING, DOWN} THEN Bumped(fails) ELSE fails
       /\ UNCHANGED <<mon, rows, signal, prev, older, overtaken, aged, window,
                      announced, told, quiet>>

(* The handlers ask isImportantForNotification() alone.                    *)
RequestJudged(a) ==
    LET verdict == IF window THEN UnderMaintenance ELSE Judged(prev[a], signal[a])
    IN /\ pc[a] = "judge"
       /\ Decide(a, verdict, IsImportantForNotification(prev[a].status, verdict.status))
       /\ UNCHANGED retries

(* The watchdog ends like any other beat of a runner, retries included.    *)
Lapse(verdict) ==
    /\ pc[Watchdog] = "judge"
    /\ Decide(Watchdog, verdict, IsImportantBeat(prev[Watchdog].status, verdict.status))
    /\ retries' = verdict.retries

WatchdogInWindow == window /\ Lapse(UnderMaintenance)

(* The bean, its time and its readings are forgotten.                      *)
Finish(a) ==
    /\ pc' = [pc EXCEPT ![a] = "idle"]
    /\ signal' = [signal EXCEPT ![a] = NONE]
    /\ prev' = [prev EXCEPT ![a] = NoBeat]
    /\ beat' = [beat EXCEPT ![a] = NoBeat]
    /\ older' = [b \in Actors |-> IF b = a THEN {} ELSE older[b] \ {a}]

(* The previous beat is good.  byTime may have moved on since it was read, *)
(* and then the one that was read may be recent enough or not.             *)
SoundsAlive == prev[Watchdog].status = Oriented(mon.upsideDown, UP)

(* It is also recent enough: the timer is armed for what is left of the    *)
(* interval and nothing is stored.                                         *)
WatchdogSatisfied ==
    /\ pc[Watchdog] = "judge" /\ ~window
    /\ SoundsAlive /\ ~aged
    /\ retries' = 0
    /\ Finish(Watchdog)
    /\ overtaken' = [overtaken EXCEPT ![Watchdog] = FALSE]
    /\ UNCHANGED <<mon, rows, aged, window, history>>

WatchdogMisses_onlyAgedUps ==
    /\ ~window
    /\ SoundsAlive /\ aged
    /\ Lapse([status  |-> StatusAfter(mon, retries, "error"),
              retries |-> RetriesAfter(mon, retries, "error", Cap)])

WatchdogMisses ==
    /\ ~window
    /\ ~SoundsAlive \/ aged \/ prev[Watchdog] # byTime
    /\ Lapse([status  |-> StatusAfter(mon, retries, "error"),
              retries |-> RetriesAfter(mon, retries, "error", Cap)])

Notify(a) ==
    /\ pc[a] = "notify"
    /\ announced' = announced \cup {beat[a].status}
    /\ told' = beat[a].status
    /\ quiet' = 0
    /\ pc' = [pc EXCEPT ![a] = "store"]
    /\ UNCHANGED <<mon, rows, signal, prev, beat, older, overtaken, retries, aged,
                   window, fails>>

(* A stored row is the newest; it is also the latest unless a beat whose   *)
(* time is later was faster.                                               *)
Store(a) ==
    LET status == beat[a].status
        latest == ~overtaken[a]
    IN /\ pc[a] = "store"
       /\ byId' = beat[a]
       /\ byTime' = IF latest THEN beat[a] ELSE byTime
       /\ aged' = (aged /\ ~latest)
       /\ overtaken' = [b \in Actors |-> b # a /\ (overtaken[b] \/ b \in older[a])]
       /\ Finish(a)
       /\ announced' = {}
       /\ fails' = IF status \in {PENDING, DOWN} THEN fails ELSE 0
       /\ quiet' = IF status # DOWN \/ mon.resendInterval = 0 \/ DOWN \in announced
                   THEN 0 ELSE IF quiet < mon.resendInterval THEN quiet + 1 ELSE quiet
       /\ UNCHANGED <<mon, retries, window, told>>

(* A refused statement answers 404 to the request; it makes safeBeat() arm *)
(* the watchdog again.                                                     *)
Drop(a) ==
    /\ Drops
    /\ pc[a] # "idle"
    /\ Finish(a)
    /\ overtaken' = [overtaken EXCEPT ![a] = FALSE]
    /\ UNCHANGED <<mon, rows, retries, aged, window, history>>

WindowChanges ==
    /\ mon.windows
    /\ window' = ~window
    /\ UNCHANGED <<mon, rows, beats, retries, aged, history>>

(* Time passes: the latest row gets older than the interval allows.        *)
Ages ==
    /\ ~aged /\ aged' = TRUE
    /\ UNCHANGED <<mon, rows, beats, retries, window, history>>

Judges(a) ==
    IF a = Watchdog THEN WatchdogInWindow \/ WatchdogSatisfied \/ WatchdogMisses
                    ELSE RequestJudged(a)

Next ==
    \/ \E a \in Requests, says \in {UP, DOWN} : RequestArrives(a, says)
    \/ WatchdogWakes
    \/ \E a \in Actors : Judges(a) \/ Notify(a) \/ Store(a) \/ Drop(a)
    \/ WindowChanges \/ Ages

Spec == Init /\ [][Next]_vars

(* A beat in progress goes on, the watchdog's timer fires, and what is not *)
(* renewed gets old.  A step that is tried again and again is not dropped  *)
(* every time.  Nobody has to send anything.                               *)
Fairness ==
    /\ WF_vars(Ages)
    /\ SF_vars(WatchdogWakes)
    /\ \A a \in Actors : SF_vars(Judges(a)) /\ SF_vars(Notify(a)) /\ SF_vars(Store(a))

FairSpec == Spec /\ Fairness

-----------------------------------------------------------------------------
Feed == INSTANCE AlertFeed WITH
            last      <- IF mon.in_turn THEN byId.status ELSE NONE,
            announced <- IF mon.in_turn THEN announced ELSE {}

(* Beats that do not overlap implement the same feed of announcements as   *)
(* the runner of a polled type, though three handlers have copied it.      *)
FeedImplemented == Feed!Spec

(* A push monitor goes DOWN from UP or PENDING only after maxretries failed *)
(* beats in a row, its watchdog's and its clients' counted together.  (Not *)
(* so from MAINTENANCE, which CONTEXT.md's third invariant does not except.)*)
DownOnlyAfterRetries ==
    \A a \in Actors :
        /\ mon.source = "push" /\ mon.in_turn
        /\ pc[a] = "store" /\ beat[a].status = DOWN /\ prev[a].status \in {UP, PENDING}
        => fails > mon.maxretries

(* Reminders keep their pace whoever stores the DOWN rows, one at a time.  *)
ReminderInTime == mon.in_turn /\ quiet > 0 => quiet < mon.resendInterval

(* The tables' row "* DOWN -> UP = important": a recovery that follows a   *)
(* recorded DOWN is announced before it is recorded.                       *)
RecoveryAnnounced ==
    [][byId.status = DOWN /\ byId'.status = UP => UP \in announced]_vars

Silent == \A a \in Requests : pc[a] = "idle"

(* Silence for good ends up recorded as an outage, in whatever order the   *)
(* last requests and the watchdog stored their rows; upside down, as UP.   *)
SilenceIsRecorded ==
    <>[](Silent /\ ~window)
        => <>[](byId.status = Oriented(mon.upsideDown, DOWN))

(* With reminders on, the subscribers of a monitor that fell silent have   *)
(* heard DOWN last in the end, though announced recoveries may be dropped. *)
SilenceIsAnnounced ==
    <>[](Silent /\ ~window)
        => (mon.in_turn /\ mon.resendInterval > 0 /\ ~mon.upsideDown
              => <>[](told = DOWN))

(* So a monitor that stopped sending does not go unnoticed.                *)
SilenceIsHeard == SilenceIsRecorded /\ SilenceIsAnnounced
=============================================================================
