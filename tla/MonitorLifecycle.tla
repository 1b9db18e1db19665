-------------------------- MODULE MonitorLifecycle --------------------------
(***************************************************************************)
(* The life of one monitor's runners: startMonitors() at boot and the      *)
(* client calls that start, restart, pause and delete a monitor while its  *)
(* timers and beats are going on.  A runner is one Monitor bean whose      *)
(* start() may be called; monitorList holds the one stop() can be sent to. *)
(* What a beat decides is MonitorBeat's business; here it only ends.       *)
(*                                                                         *)
(* Each action is the code between two database round trips.  stop() does  *)
(* not wait for anything, so replacing the listed runner is one action.    *)
(***************************************************************************)
EXTENDS FiniteSets, Integers

CONSTANTS
    Runners,    \* bound: beans in memory at the same time
    Handlers,   \* client calls in flight at the same time
    Settings,   \* monitors: passive for push and otel, not for polled types;
                \* inTurn is a bound: no two client calls overlap
    None

ASSUME RunnersAssumption == IsFiniteSet(Runners) /\ None \notin Runners

ASSUME SettingsAssumption == Settings \subseteq [passive : BOOLEAN, inTurn : BOOLEAN]

VARIABLES
    setting,    \* the monitor, one of Settings
    row,        \* the monitor row: "active", "paused" or "gone"
    list,       \* server.monitorList[id]
    phase,      \* what a runner is doing
    stopped,    \* isStop
    flag,       \* the active field of the bean in memory
    fresh,      \* the newest row is an UP within the push interval
    pc,         \* where a client call is
    bean,       \* the bean a client call has loaded
    boot,       \* "find", "loop" or "done"
    bootBean,   \* the bean startMonitors() is going to start
    crossing,   \* history: calls of both kinds have overlapped, and some
                \* call has been in flight ever since
    crossed,    \* history: so they have, and none has gone through alone
    unfinished  \* history: a statement was refused between the row and the
                \* runner, and no runner has been started since

runners == <<phase, stopped, flag>>
calls   == <<pc, bean>>
booting == <<boot, bootBean>>
moving  == <<row, list, runners, fresh, calls, booting>>
history == <<crossing, crossed, unfinished>>
vars    == <<setting, moving, history>>

Passive == setting.passive

Phases == {"free", "loaded", "starting", "delay", "timer", "beat", "over"}

TypeOK ==
    /\ setting \in Settings
    /\ row \in {"active", "paused", "gone"}
    /\ list \in Runners \cup {None}
    /\ phase \in [Runners -> Phases]
    /\ stopped \in [Runners -> BOOLEAN]
    /\ flag \in [Runners -> BOOLEAN]
    /\ fresh \in BOOLEAN
    /\ pc \in [Handlers -> {"idle", "start.update", "start.find", "start.swap",
                            "pause.update", "pause.stop", "delete.stop",
                            "delete.row", "edit.store"}]
    /\ bean \in [Handlers -> Runners \cup {None}]
    /\ boot \in {"find", "loop", "done"}
    /\ bootBean \in Runners \cup {None}
    /\ {crossing, crossed, unfinished} \subseteq BOOLEAN

Init ==
    /\ setting \in Settings
    /\ row \in {"active", "paused"}
    /\ list = None
    /\ phase = [r \in Runners |-> "free"]
    /\ stopped = [r \in Runners |-> FALSE]
    /\ flag = [r \in Runners |-> FALSE]
    /\ fresh = FALSE
    /\ pc = [h \in Handlers |-> "idle"]
    /\ bean = [h \in Handlers |-> None]
    /\ boot = "find" /\ bootBean = None
    /\ crossing = FALSE /\ crossed = FALSE /\ unfinished = FALSE

-----------------------------------------------------------------------------
(* A bean nobody refers to any more is collected and can be used again.    *)
Collected(r) ==
    /\ phase[r] \in {"free", "over"}
    /\ r # list /\ r # bootBean
    /\ \A h \in Handlers : bean[h] # r

(* R.findOne("monitor"): a new bean with the row's active field.  Which of *)
(* those that are free stands for it makes no difference.                  *)
Load(r) ==
    /\ Collected(r) /\ r = CHOOSE q \in Runners : Collected(q)
    /\ phase' = [phase EXCEPT ![r] = "loaded"]
    /\ stopped' = [stopped EXCEPT ![r] = FALSE]
    /\ flag' = [flag EXCEPT ![r] = (row = "active")]

(* stop() clears the timer it knows of, heartbeatInterval, and sets the    *)
(* flag; a beat, a start and the first delay of a passive monitor go on.   *)
AfterStop(r) ==
    /\ stopped' = [stopped EXCEPT ![r] = TRUE]
    /\ phase' = [phase EXCEPT ![r] = IF @ = "timer" THEN "over" ELSE @]

-----------------------------------------------------------------------------
(* startMonitors(): list every active monitor, then start them one by one, *)
(* hundreds of milliseconds apart, while clients are already connected.    *)
BootFind ==
    /\ boot = "find"
    /\ IF row = "active"
       THEN \E r \in Runners : Load(r) /\ list' = r /\ bootBean' = r /\ boot' = "loop"
       ELSE boot' = "done" /\ UNCHANGED <<runners, list, bootBean>>
    /\ UNCHANGED <<row, fresh, calls>>

(* The query is refused: nobody awaits the callback startMonitors() is in, *)
(* and the server goes on without its monitors.                            *)
BootRefused ==
    /\ boot = "find"
    /\ boot' = "done"
    /\ UNCHANGED <<row, list, runners, fresh, calls, bootBean>>

BootStart ==
    /\ boot = "loop"
    /\ phase' = [phase EXCEPT ![bootBean] = "starting"]
    /\ boot' = "done" /\ bootBean' = None
    /\ UNCHANGED <<row, list, stopped, flag, fresh, calls>>

-----------------------------------------------------------------------------
(* startMonitor(), which restartMonitor() is too                           *)
GoTo(h, where) == pc' = [pc EXCEPT ![h] = where]

(* checkOwner() finds the row or throws.                                   *)
StartCall(h) ==
    /\ pc[h] = "idle" /\ row # "gone"
    /\ GoTo(h, "start.update")
    /\ UNCHANGED <<row, list, runners, fresh, bean, booting>>

StartUpdate(h) ==
    /\ pc[h] = "start.update"
    /\ row' = IF row = "gone" THEN "gone" ELSE "active"
    /\ GoTo(h, "start.find")
    /\ UNCHANGED <<list, runners, fresh, bean, booting>>

(* A row deleted meanwhile makes the call throw.                           *)
StartFind(h) ==
    /\ pc[h] = "start.find"
    /\ IF row = "gone"
       THEN GoTo(h, "idle") /\ UNCHANGED <<runners, bean>>
       ELSE \E r \in Runners : /\ Load(r)
                               /\ bean' = [bean EXCEPT ![h] = r]
                               /\ GoTo(h, "start.swap")
    /\ UNCHANGED <<row, list, fresh, booting>>

StartSwap_unstopped(h) ==
    /\ pc[h] = "start.swap"
    /\ phase' = [phase EXCEPT ![bean[h]] = "starting"]
    /\ list' = bean[h]
    /\ bean' = [bean EXCEPT ![h] = None]
    /\ GoTo(h, "idle")
    /\ UNCHANGED <<row, stopped, flag, fresh, booting>>

StartSwap(h) ==
    /\ pc[h] = "start.swap"
    /\ stopped' = IF list = None THEN stopped ELSE [stopped EXCEPT ![list] = TRUE]
    /\ phase' = [r \in Runners |-> IF r = bean[h] THEN "starting"
                                   ELSE IF r = list /\ phase[r] = "timer" THEN "over"
                                   ELSE phase[r]]
    /\ list' = bean[h]
    /\ bean' = [bean EXCEPT ![h] = None]
    /\ GoTo(h, "idle")
    /\ UNCHANGED <<row, flag, fresh, booting>>

(* clearHeartbeats restarts the monitor if the bean in memory is active.   *)
ClearCall(h) ==
    /\ pc[h] = "idle" /\ row # "gone"
    /\ list # None /\ flag[list]
    /\ GoTo(h, "start.update")
    /\ UNCHANGED <<row, list, runners, fresh, bean, booting>>

(* editMonitor restarts the monitor if the row it loaded at the beginning  *)
(* was active, and so is the group it is in; the stores in between leave   *)
(* the active column alone.                                                *)
EditCall(h) ==
    /\ pc[h] = "idle" /\ row = "active"
    /\ GoTo(h, "edit.store")
    /\ UNCHANGED <<row, list, runners, fresh, bean, booting>>

(* Refused, or in a group that is paused, it leaves the runner as it is.   *)
EditStore(h) ==
    /\ pc[h] = "edit.store"
    /\ \/ GoTo(h, "idle")
       \/ row # "gone" /\ GoTo(h, "start.update")
    /\ UNCHANGED <<row, list, runners, fresh, bean, booting>>

(* pauseMonitor()                                                          *)
PauseCall(h) ==
    /\ pc[h] = "idle" /\ row # "gone"
    /\ GoTo(h, "pause.update")
    /\ UNCHANGED <<row, list, runners, fresh, bean, booting>>

PauseUpdate(h) ==
    /\ pc[h] = "pause.update"
    /\ row' = IF row = "gone" THEN "gone" ELSE "paused"
    /\ GoTo(h, "pause.stop")
    /\ UNCHANGED <<list, runners, fresh, bean, booting>>

PauseStop_rowOnly(h) ==
    /\ pc[h] = "pause.stop"
    /\ GoTo(h, "idle")
    /\ UNCHANGED <<row, list, runners, fresh, bean, booting>>

PauseStop(h) ==
    /\ pc[h] = "pause.stop"
    /\ IF list = None
       THEN UNCHANGED <<phase, stopped, flag>>
       ELSE AfterStop(list) /\ flag' = [flag EXCEPT ![list] = FALSE]
    /\ GoTo(h, "idle")
    /\ UNCHANGED <<row, list, fresh, bean, booting>>

(* deleteMonitor(): stop and unlist first, delete the row behind it.       *)
DeleteCall(h) ==
    /\ pc[h] = "idle" /\ row # "gone"
    /\ GoTo(h, "delete.stop")
    /\ UNCHANGED <<row, list, runners, fresh, bean, booting>>

DeleteStop(h) ==
    /\ pc[h] = "delete.stop"
    /\ IF list = None THEN UNCHANGED <<phase, stopped>> ELSE AfterStop(list)
    /\ list' = None
    /\ GoTo(h, "delete.row")
    /\ UNCHANGED <<row, flag, fresh, bean, booting>>

DeleteRow(h) ==
    /\ pc[h] = "delete.row"
    /\ row' = "gone"
    /\ GoTo(h, "idle")
    /\ UNCHANGED <<list, runners, fresh, bean, booting>>

(* A statement of a call is refused, and the call answered with an error:  *)
(* what it has written or stopped stays so.  (EditStore has its own.)      *)
CallRefused(h) ==
    /\ pc[h] \in {"start.update", "start.find", "pause.update", "delete.stop", "delete.row"}
    /\ GoTo(h, "idle")
    /\ UNCHANGED <<row, list, runners, fresh, bean, booting>>

-----------------------------------------------------------------------------
(* start() and its timers                                                  *)
BeginBeat(r) ==
    /\ phase' = [phase EXCEPT ![r] = "beat"]
    /\ UNCHANGED <<row, list, stopped, flag, fresh, calls, booting>>

(* getTags() has answered, or its refusal been logged: passive monitors    *)
(* wait for one interval, on a timer nobody keeps; the others beat at once.*)
TagsLoaded(r) ==
    /\ phase[r] = "starting"
    /\ IF Passive
       THEN /\ phase' = [phase EXCEPT ![r] = "delay"]
            /\ UNCHANGED <<row, list, stopped, flag, fresh, calls, booting>>
       ELSE BeginBeat(r)

TimerFires(r) == phase[r] \in {"delay", "timer"} /\ BeginBeat(r)

BeatEnds_unchecked(r) ==
    /\ phase[r] = "beat"
    /\ ~Passive \/ ~fresh
    /\ phase' = [phase EXCEPT ![r] = "timer"]
    /\ UNCHANGED <<row, list, stopped, flag, fresh, calls, booting>>

BeatEnds_polledOnly(r) ==
    /\ phase[r] = "beat"
    /\ ~Passive \/ ~fresh
    /\ phase' = [phase EXCEPT ![r] = IF stopped[r] /\ ~Passive THEN "over" ELSE "timer"]
    /\ UNCHANGED <<row, list, stopped, flag, fresh, calls, booting>>

(* A beat that stored its row, or failed: the next timer unless stopped.   *)
BeatEnds(r) ==
    /\ phase[r] = "beat"
    /\ ~Passive \/ ~fresh
    /\ phase' = [phase EXCEPT ![r] = IF stopped[r] THEN "over" ELSE "timer"]
    /\ UNCHANGED <<row, list, stopped, flag, fresh, calls, booting>>

(* The watchdog found a fresh push: it arms its timer and returns, without *)
(* a look at isStop.                                                       *)
WatchdogFresh(r) ==
    /\ phase[r] = "beat"
    /\ Passive /\ fresh
    /\ phase' = [phase EXCEPT ![r] = "timer"]
    /\ UNCHANGED <<row, list, stopped, flag, fresh, calls, booting>>

(* Pushes are accepted for active monitors only; any silence may end them. *)
PushArrives ==
    /\ Passive /\ row = "active" /\ ~fresh
    /\ fresh' = TRUE
    /\ UNCHANGED <<row, list, runners, calls, booting>>

PushAges ==
    /\ fresh
    /\ fresh' = FALSE
    /\ UNCHANGED <<row, list, runners, calls, booting>>

-----------------------------------------------------------------------------
(* A client connects and logs in before it calls: by then the one query of *)
(* startMonitors(), sent as the server begins to listen, has been answered.*)
Call(h) ==
    /\ boot # "find"
    /\ setting.inTurn => \A g \in Handlers : pc[g] = "idle"
    /\ StartCall(h) \/ ClearCall(h) \/ EditCall(h) \/ PauseCall(h) \/ DeleteCall(h)

Step(h) ==
    \/ StartUpdate(h) \/ StartFind(h) \/ StartSwap(h) \/ EditStore(h)
    \/ PauseUpdate(h) \/ PauseStop(h) \/ DeleteStop(h) \/ DeleteRow(h)

Run(r) ==
    \/ TagsLoaded(r) \/ TimerFires(r) \/ BeatEnds(r) \/ WatchdogFresh(r)

(* Calls are of two kinds: those that may start a runner, and those that   *)
(* stop one for good.                                                      *)
Opening == {"edit.store", "start.update", "start.find", "start.swap"}
Ending  == {"pause.update", "pause.stop", "delete.stop", "delete.row"}

Mixed == \E g, h \in Handlers : pc[g] \in Opening /\ pc[h] \in Ending

(* A call has come to its end ...                                          *)
GoneThrough ==
    \E h \in Handlers : /\ pc[h] \in {"start.swap", "pause.stop", "delete.row"}
                        /\ pc'[h] = "idle"
                        /\ pc[h] = "delete.row" => row' = "gone"

(* ... or was refused, and left a row that is active behind.               *)
BrokenOff ==
    /\ row' = "active"
    /\ \/ boot = "find" /\ boot' = "done"
       \/ \E h \in Handlers : pc[h] \in {"start.find", "delete.row"} /\ pc'[h] = "idle"

Recorded ==
    /\ crossing' = ((crossing \/ Mixed') /\ \E h \in Handlers : pc'[h] # "idle")
    /\ crossed' = (crossing' \/ IF GoneThrough THEN crossing ELSE crossed)
    /\ unfinished' = IF \E h \in Handlers : pc[h] = "start.swap" /\ pc'[h] = "idle"
                     THEN FALSE
                     ELSE unfinished \/ BrokenOff

Next ==
    /\ \/ BootFind \/ BootRefused \/ BootStart
       \/ \E h \in Handlers : Call(h) \/ Step(h) \/ CallRefused(h)
       \/ \E r \in Runners : Run(r)
       \/ PushArrives \/ PushAges
    /\ Recorded
    /\ UNCHANGED setting

Spec == Init /\ [][Next]_vars

(* Calls in flight, the boot loop, timers and beats go on; a push grows    *)
(* old.  Clients need not call and services need not push.                 *)
Fairness ==
    /\ WF_moving(BootFind) /\ WF_moving(BootStart) /\ WF_moving(PushAges)
    /\ \A h \in Handlers : WF_moving(Step(h))
    /\ \A r \in Runners : WF_moving(Run(r))

FairSpec == Spec /\ Fairness

-----------------------------------------------------------------------------
Running(r) == phase[r] \in {"starting", "delay", "timer", "beat"}

Settled == boot = "done" /\ \A h \in Handlers : pc[h] = "idle"

(* However calls interleave, a runner that will go on beating is the one   *)
(* in monitorList: the next pause, restart or delete reaches it.           *)
UnstoppedIsListed ==
    \A r \in Runners : Running(r) /\ ~stopped[r] => r = list

(* A stopped runner is left without a timer: it ends the beat or start it  *)
(* is in and begins no other.  test-monitor-push-watchdog.js of its tests: *)
(* each stops the monitor "in a `finally` so no timer outlives the test".  *)
StopLeavesNoTimer ==
    \A r \in Runners : stopped[r] => phase[r] \notin {"timer", "delay"}

(* For the types that are polled, stop() does leave none.                  *)
PolledStopLeavesNoTimer == ~Passive => StopLeavesNoTimer

(* Where calls that start a monitor have not overlapped with such as pause *)
(* or delete it, whichever others have, whichever statements were refused  *)
(* and whatever the boot loop does beside them: a paused or deleted one    *)
(* has no runner that goes on, and an active one has the listed one,       *)
(* unless a statement was refused half-way and no start has come since.    *)
(* After an overlap the next call that goes through alone restores this.   *)
RowAgreesWithRunner ==
    Settled /\ ~crossed =>
        /\ row = "active" /\ ~unfinished
              => list # None /\ Running(list) /\ ~stopped[list] /\ flag[list]
        /\ row # "active" => \A r \in Runners : Running(r) => stopped[r]

(* Under the same condition a monitor that stays paused, and one that is   *)
(* deleted, ends up without any timer or beat.                             *)
PauseEndsRunners ==
    [](~crossed /\ row # "active" /\ Settled =>
        <>(row = "active" \/ ~Settled \/ \A r \in Runners : ~Running(r)))
=============================================================================
