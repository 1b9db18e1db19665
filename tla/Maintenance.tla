---------------------------- MODULE Maintenance ----------------------------
(***************************************************************************)
(* One maintenance of server/model/maintenance.js and the client calls     *)
(* that change it.  The row is in the database; server.maintenanceList     *)
(* holds one bean, which all calls share, with its cron job, its status    *)
(* and the timer that ends the window.  run() awaits the time zone between *)
(* dropping the old job and keeping the new one.                           *)
(*                                                                         *)
(* Time is counted in units; whatever happens in a unit happens after its  *)
(* beginning.  Cron jobs fire as a unit begins.  A call is short against a *)
(* unit.  Every strategy with a cron pattern opens one slot per Day, from  *)
(* unit `at` of the day on; weekdays and days of the month only leave days *)
(* out.                                                                    *)
(***************************************************************************)
EXTENDS FiniteSets, Integers

CONSTANTS
    Settings,   \* what a client may send: see SettingsAssumption
    Day,        \* units of a day
    MaxDelay,   \* the longest setTimeout(); a longer one fires at once
    Horizon,    \* bound: the last unit
    Jobs,       \* bound: cron jobs alive at the same time
    Handlers,   \* client calls in flight at the same time
    None

Strategies == {"manual", "single", "cron", "recurring-interval"}

Sets == [strategy : Strategies, every : Nat, at : Nat, duration : Nat, from : Nat,
         until : Nat]

ASSUME SettingsAssumption ==
    Settings \subseteq {s \in Sets : s.every # 0}

ASSUME TimeAssumption ==
    Day \in Nat \ {0} /\ MaxDelay \in Nat /\ Horizon \in Nat /\ None \notin Int

VARIABLES
    now,        \* the unit the clock is in
    up,         \* the server runs
    row,        \* [active, set, last], or None once deleted
    bean,       \* the same fields of the object in memory
    listed,     \* it is in server.maintenanceList
    status,     \* beanMeta.status
    timer,      \* beanMeta.durationTimeout: when it fires
    job,        \* beanMeta.job
    jobs,       \* every job that is alive: its pattern and captured time
    due,        \* jobs whose time has come
    pc,         \* where a call is
    held,       \* the pattern a run() has read
    skipped,    \* history: slots passed over since a window was last opened
    torn,       \* history: a call, or the store behind a job, failed half-way
    raced       \* history: two calls were in flight at the same time

window  == <<status, timer>>
crons   == <<job, jobs, due>>
calls   == <<pc, held, torn, raced>>
vars    == <<now, up, row, bean, listed, window, skipped, crons, calls>>

(* A pattern as its job holds it, with the time its run() began            *)
Patterns == [kind : Strategies, at : Nat, start : Nat, cur : Nat]

Beans == [active : BOOLEAN, set : Sets, last : Nat \cup {None}]

ASSUME NoneAssumption == None \notin Jobs /\ None \notin Patterns /\ None \notin Beans

TypeOK ==
    /\ now \in 0..Horizon
    /\ up \in BOOLEAN /\ listed \in BOOLEAN
    /\ row \in Beans \cup {None}
    /\ bean \in Beans
    /\ status \in {"none", "scheduled", "under-maintenance"}
    /\ timer \in Nat \cup {None}
    /\ job \in Jobs \cup {None}
    /\ jobs \in [Jobs -> Patterns \cup {None}]
    /\ due \subseteq {j \in Jobs : jobs[j] # None}
    /\ pc \in [Handlers -> {"idle", "edit", "pause", "resume", "delete", "run"}]
    /\ held \in [Handlers -> Patterns \cup {None}]
    /\ skipped \in Nat
    /\ torn \in BOOLEAN /\ raced \in BOOLEAN

NewBean(set, active) == [active |-> active, set |-> set, last |-> None]

Init ==
    /\ now = 0 /\ up = FALSE
    /\ \E s \in Settings, a \in BOOLEAN : bean = NewBean(s, a) /\ row = bean
    /\ listed = FALSE /\ status = "none" /\ timer = None
    /\ job = None /\ jobs = [j \in Jobs |-> None] /\ due = {}
    /\ pc = [h \in Handlers |-> "idle"] /\ held = [h \in Handlers |-> None]
    /\ skipped = 0
    /\ torn = FALSE /\ raced = FALSE

-----------------------------------------------------------------------------
(* Slots, durations and timers                                             *)

(* Units since the last beginning of a slot                                *)
Into(at, t) == (t - at) % Day

(* A recurring interval begins with its start date, if there is one.       *)
PatternOf(set) ==
    [kind |-> set.strategy, at |-> set.at, cur |-> now,
     start |-> IF set.strategy = "recurring-interval" THEN set.from ELSE 0]

Occurs(pattern, t) == pattern.start = 0 \/ pattern.start <= t

(* getRunningTimeslot()                                                    *)
InSlot(pattern, duration, t) ==
    /\ Into(pattern.at, t) < duration
    /\ Occurs(pattern, t - Into(pattern.at, t))

(* inferDuration() of a window that opens by its cron job                  *)
inferDuration(set, t) ==
    IF set.until - t < set.duration THEN set.until - t ELSE set.duration

(* setTimeout() takes a delay below zero, and one that does not fit, as 0. *)
FiresAt(delay) == now + (IF delay \in 0..MaxDelay THEN delay ELSE 0)

(* getStatus(), of a bean that has a status when its strategy needs one    *)
getStatus ==
    IF ~bean.active THEN "inactive"
    ELSE IF bean.set.strategy = "manual" THEN "under-maintenance"
    ELSE IF now < bean.set.from THEN "scheduled"
    ELSE IF now >= bean.set.until THEN "ended"
    ELSE IF bean.set.strategy = "single" THEN "under-maintenance"
    ELSE status

(* startEvent(): opens the window for `delay`, with the time its run()     *)
(* captured as the last start, and stores the bean.                        *)
OpenWindow_untimed(cur, delay) ==
    /\ status' = "under-maintenance"
    /\ timer' = None
    /\ bean' = [bean EXCEPT !.last = cur]
    /\ skipped' = 0

OpenWindow(cur, delay) ==
    /\ status' = "under-maintenance"
    /\ timer' = FiresAt(delay)
    /\ bean' = [bean EXCEPT !.last = cur]
    /\ skipped' = 0

StartEvent(cur, delay) ==
    /\ OpenWindow(cur, delay)
    /\ row' = (IF row = None THEN None ELSE bean')
    /\ UNCHANGED torn

(* Its UPDATE is refused: the window is open all the same.                 *)
StartEventUnstored(cur, delay) ==
    /\ ~torn /\ torn' = TRUE
    /\ OpenWindow(cur, delay)
    /\ UNCHANGED row

-----------------------------------------------------------------------------
(* run() and stop()                                                        *)
stop_pending ==
    /\ jobs' = [j \in Jobs |-> IF j = job THEN None ELSE jobs[j]]
    /\ job' = None
    /\ UNCHANGED due

stop ==
    /\ jobs' = [j \in Jobs |-> IF j = job THEN None ELSE jobs[j]]
    /\ due' = due \ {job}
    /\ job' = None

(* run() up to the time zone; the pattern has been read by then.           *)
RunUpToTimezone(h, b) ==
    IF b.set.strategy = "manual"
    THEN pc' = [pc EXCEPT ![h] = "idle"] /\ UNCHANGED <<held, status>>
    ELSE /\ pc' = [pc EXCEPT ![h] = "run"]
         /\ held' = [held EXCEPT ![h] = PatternOf(b.set)]
         /\ status' = IF b.set.strategy = "single" THEN status ELSE "scheduled"

RunBegins_unstopped(h, b) == RunUpToTimezone(h, b) /\ job' = None /\ UNCHANGED <<jobs, due>>

RunBegins(h, b) == RunUpToTimezone(h, b) /\ stop

(* The time zone is there: keep the job, and go on with a window that has  *)
(* begun before.                                                           *)
KeepJob(h) ==
    /\ pc[h] = "run"
    /\ \E j \in Jobs : /\ jobs[j] = None
                       /\ jobs' = [jobs EXCEPT ![j] = held[h]]
                       /\ job' = j
    /\ pc' = [pc EXCEPT ![h] = "idle"]
    /\ held' = [held EXCEPT ![h] = None]
    /\ UNCHANGED <<now, up, listed, due, raced>>

RunEnds_cold(h) == KeepJob(h) /\ UNCHANGED <<row, bean, window, skipped, torn>>

RunEnds(h) ==
    /\ KeepJob(h)
    /\ LET delay == bean.set.duration - Into(held[h].at, now)
       IN  IF held[h].kind # "single" /\ InSlot(held[h], bean.set.duration, now)
           THEN \/ StartEvent(held[h].cur, delay)
                \/ StartEventUnstored(held[h].cur, delay)
           ELSE UNCHANGED <<row, bean, window, skipped, torn>>

(* The look-up of the time zone is refused: the old job is gone, and there *)
(* is no new one.                                                          *)
RunFails(h) ==
    /\ pc[h] = "run" /\ ~torn
    /\ pc' = [pc EXCEPT ![h] = "idle"]
    /\ held' = [held EXCEPT ![h] = None]
    /\ torn' = TRUE
    /\ UNCHANGED <<now, up, row, bean, listed, window, skipped, crons, raced>>

-----------------------------------------------------------------------------
(* Time, jobs and timers                                                   *)
TimerDue == timer # None /\ timer <= now

(* Nothing of the last unit is left to do.                                 *)
Quiet == due = {} /\ ~TimerDue /\ \A h \in Handlers : pc[h] = "idle"

Tick ==
    /\ Quiet /\ now < Horizon
    /\ now' = now + 1
    /\ due' = {j \in Jobs : /\ jobs[j] # None
                            /\ jobs[j].kind # "single"
                            /\ Into(jobs[j].at, now + 1) = 0
                            /\ Occurs(jobs[j], now + 1)}
    /\ UNCHANGED <<up, row, bean, listed, window, skipped, job, jobs, calls>>

(* A recurring interval compares the last start with the time its run()    *)
(* began.                                                                  *)
TooEarly(pattern) ==
    /\ pattern.kind = "recurring-interval"
    /\ bean.last # None /\ bean.set.every # 1
    /\ (pattern.cur - bean.last) \div Day < bean.set.every

JobFires(j) ==
    /\ j \in due
    /\ due' = due \ {j}
    /\ IF TooEarly(jobs[j])
       THEN skipped' = skipped + 1 /\ UNCHANGED <<row, bean, window, torn>>
       ELSE \/ StartEvent(jobs[j].cur, inferDuration(bean.set, now))
            \/ StartEventUnstored(jobs[j].cur, inferDuration(bean.set, now))
    /\ UNCHANGED <<now, up, listed, job, jobs, pc, held, raced>>

TimerFires ==
    /\ TimerDue
    /\ status' = "scheduled" /\ timer' = None
    /\ UNCHANGED <<now, up, row, bean, listed, skipped, crons, calls>>

-----------------------------------------------------------------------------
(* Client calls                                                            *)
Begin(h) ==
    /\ up /\ pc[h] = "idle"
    /\ raced' = (raced \/ \E g \in Handlers : pc[g] # "idle")

Await(h, where) == pc' = [pc EXCEPT ![h] = where]

(* addMaintenance(): the client knows the id only once it is done.         *)
Add(h) ==
    /\ Begin(h) /\ row = None /\ Quiet /\ jobs = [j \in Jobs |-> None]
    /\ \E s \in Settings, a \in BOOLEAN :
          /\ bean' = NewBean(s, a) /\ row' = bean'
          /\ listed' = TRUE
          /\ IF s.strategy = "manual"
             THEN status' = "none" /\ UNCHANGED <<pc, held>>
             ELSE /\ Await(h, "run")
                  /\ held' = [held EXCEPT ![h] = PatternOf(s)]
                  /\ status' = IF s.strategy = "single" THEN "none" ELSE "scheduled"
    /\ timer' = None /\ skipped' = 0 /\ torn' = FALSE
    /\ UNCHANGED <<now, up, crons>>

(* editMaintenance(): jsonToBean() writes into the listed bean.            *)
EditCall(h) ==
    /\ Begin(h) /\ row # None /\ listed
    /\ \E s \in Settings, a \in BOOLEAN : bean' = [bean EXCEPT !.set = s, !.active = a]
    /\ Await(h, "edit")
    /\ UNCHANGED <<now, up, row, listed, window, skipped, crons, held, torn>>

(* ... and throws at a bad date, with the first fields assigned.  Bound:   *)
(* one failed call until the next edit.                                    *)
EditRejected(h) ==
    /\ Begin(h) /\ row # None /\ listed /\ ~torn
    /\ \E s \in Settings, a \in BOOLEAN :
          bean' = [bean EXCEPT !.set.strategy = s.strategy, !.set.every = s.every, !.active = a]
    /\ torn' = TRUE
    /\ UNCHANGED <<now, up, row, listed, window, skipped, crons, pc, held>>

EditStored(h) ==
    /\ pc[h] = "edit"
    /\ row' = IF row = None THEN None ELSE bean
    /\ RunBegins(h, bean)
    /\ torn' = FALSE
    /\ UNCHANGED <<now, up, bean, listed, timer, skipped, raced>>

(* pauseMaintenance() and resumeMaintenance()                              *)
SetActive(h, active, where) ==
    /\ Begin(h) /\ row # None /\ listed
    /\ bean' = [bean EXCEPT !.active = active]
    /\ Await(h, where)
    /\ UNCHANGED <<now, up, row, listed, window, skipped, crons, held, torn>>

PauseCall(h)  == SetActive(h, FALSE, "pause")
ResumeCall(h) == SetActive(h, TRUE, "resume")

PauseStored_unsaved(h) ==
    /\ pc[h] = "pause"
    /\ stop
    /\ Await(h, "idle")
    /\ UNCHANGED <<now, up, row, bean, listed, window, skipped, held, torn, raced>>

PauseStored(h) ==
    /\ pc[h] = "pause"
    /\ row' = IF row = None THEN None ELSE bean
    /\ stop
    /\ Await(h, "idle")
    /\ UNCHANGED <<now, up, bean, listed, window, skipped, held, torn, raced>>

ResumeStored(h) ==
    /\ pc[h] = "resume"
    /\ row' = IF row = None THEN None ELSE bean
    /\ RunBegins(h, bean)
    /\ UNCHANGED <<now, up, bean, listed, timer, skipped, torn, raced>>

(* A refused UPDATE: the call ends, what it wrote into the bean stays.     *)
StoreFails(h) ==
    /\ pc[h] \in {"edit", "pause", "resume"} /\ ~torn
    /\ Await(h, "idle")
    /\ torn' = TRUE
    /\ UNCHANGED <<now, up, row, bean, listed, window, skipped, crons, held, raced>>

(* deleteMaintenance(): stop and unlist first, delete the row behind it.   *)
DeleteCall(h) ==
    /\ Begin(h) /\ row # None
    /\ IF listed THEN stop ELSE UNCHANGED crons
    /\ listed' = FALSE
    /\ Await(h, "delete")
    /\ UNCHANGED <<now, up, row, bean, window, skipped, held, torn>>

DeleteRow(h) ==
    /\ pc[h] = "delete"
    /\ row' = None
    /\ Await(h, "idle")
    /\ UNCHANGED <<now, up, bean, listed, window, skipped, crons, held, torn, raced>>

(* A refused DELETE: the row stays, and is listed again at the next start. *)
DeleteFails(h) ==
    /\ pc[h] = "delete"
    /\ Await(h, "idle")
    /\ UNCHANGED <<now, up, row, bean, listed, window, skipped, crons, held, torn, raced>>

-----------------------------------------------------------------------------
(* Crash, and loadMaintenanceList() at the next start                      *)
Crash ==
    /\ up /\ up' = FALSE
    /\ listed' = FALSE /\ status' = "none" /\ timer' = None
    /\ job' = None /\ jobs' = [j \in Jobs |-> None] /\ due' = {}
    /\ pc' = [h \in Handlers |-> "idle"] /\ held' = [h \in Handlers |-> None]
    /\ UNCHANGED <<now, row, bean, skipped, torn, raced>>

Boot(h) ==
    /\ ~up /\ up' = TRUE
    /\ IF row = None
       THEN UNCHANGED <<bean, listed, status, pc, held, crons>>
       ELSE bean' = row /\ listed' = TRUE /\ RunBegins(h, row)
    /\ UNCHANGED <<now, row, timer, skipped, torn, raced>>

-----------------------------------------------------------------------------
Call(h) ==
    \/ Add(h) \/ EditCall(h) \/ EditRejected(h)
    \/ PauseCall(h) \/ ResumeCall(h) \/ DeleteCall(h)

Step(h) ==
    \/ EditStored(h) \/ PauseStored(h) \/ ResumeStored(h) \/ StoreFails(h)
    \/ DeleteRow(h) \/ DeleteFails(h) \/ RunEnds(h) \/ RunFails(h)

Next ==
    \/ Tick \/ TimerFires \/ Crash
    \/ \E j \in Jobs : JobFires(j)
    \/ \E h \in Handlers : Call(h) \/ Step(h) \/ Boot(h)

Spec == Init /\ [][Next]_vars

-----------------------------------------------------------------------------
(* A change that failed half-way, or was made while another was in flight, *)
(* is out of the promise.                                                  *)
Orderly == up /\ listed /\ Quiet /\ ~torn /\ ~raced

(* What the client has asked for                                           *)
Promised ==
    /\ bean.active
    /\ \/ bean.set.strategy = "manual"
       \/ /\ bean.set.from <= now /\ now < bean.set.until
          /\ \/ bean.set.strategy = "single"
             \/ InSlot(PatternOf(bean.set), bean.set.duration, now)

isUnderMaintenance == getStatus = "under-maintenance"

(* Through edits, pauses, restarts within a slot and between slots, and    *)
(* timers left over from earlier windows: isUnderMaintenance() is true     *)
(* inside the slots asked for and only there.  An interval of several days *)
(* is held to the second half only, and so is a window longer than a timer *)
(* can wait.                                                               *)
WindowExact ==
    Orderly =>
        /\ isUnderMaintenance => Promised
        /\ Promised /\ bean.set.duration <= MaxDelay
             /\ (bean.set.strategy = "recurring-interval" => bean.set.every = 1)
           => isUnderMaintenance

(* However calls, crashes and timers interleave, a window that is open has *)
(* a timer that will close it: startEvent() clears one only to set the     *)
(* next, and a run() that reports "scheduled" leaves the old one harmless. *)
OpenWindowHasTimer == status = "under-maintenance" => timer # None

(* With calls in turn, the only job alive is the one stop() can reach, and *)
(* a deleted maintenance leaves none behind.                               *)
OneJob ==
    ~raced => /\ \A j \in Jobs : jobs[j] # None => j = job
              /\ job # None => listed

(* Whatever the order calls on the shared bean end in, the row is the bean *)
(* once they have all ended, unless one of them failed.                    *)
RowIsBean == up /\ listed /\ Quiet /\ ~torn /\ row # None => row = bean

(* "Run once every {0} days" (src/lang/en.json:762): fewer slots than that  *)
(* are passed over between two windows.                                    *)
EveryKthDay ==
    Orderly /\ bean.active /\ bean.set.strategy = "recurring-interval"
      => skipped < bean.set.every
=============================================================================
