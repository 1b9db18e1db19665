----------------------- MODULE MonitorLifecycleProofs -----------------------
(***************************************************************************)
(* For any number of beans and client calls: no runner that will go on     *)
(* beating is out of reach of the next stop, and stop() leaves a runner of *)
(* a polled type without a timer.                                          *)
(***************************************************************************)
EXTENDS MonitorLifecycle, TLAPS

(* Nothing has happened to any runner before startMonitors() found the     *)
(* active monitors; the bean it is about to start is the listed one, or    *)
(* whoever replaced it has stopped it.                                     *)
BootInv ==
    /\ boot = "find" => /\ list = None
                        /\ \A r \in Runners : phase[r] = "free"
                        /\ \A h \in Handlers : pc[h] = "idle"
    /\ boot = "loop" => bootBean \in Runners /\ (bootBean = list \/ stopped[bootBean])

(* A call that is about to swap has loaded the bean it will list.          *)
SwapInv == \A h \in Handlers : pc[h] = "start.swap" => bean[h] \in Runners

(* Whatever a step does to runners and calls, the histories stay truth     *)
(* values.                                                                 *)
HistoryTyped == {crossing, crossed, unfinished} \subseteq BOOLEAN

(* UnstoppedIsListed made inductive                                        *)
ReachInv == TypeOK /\ BootInv /\ SwapInv /\ UnstoppedIsListed

-----------------------------------------------------------------------------
(* Loading a bean makes no runner run.                                     *)
LEMMA LoadedDoesNotRun ==
    ASSUME TypeOK, NEW b \in Runners, Load(b)
    PROVE  /\ b # list /\ b # bootBean
           /\ phase' \in [Runners -> Phases]
           /\ stopped' \in [Runners -> BOOLEAN]
           /\ flag' \in [Runners -> BOOLEAN]
           /\ \A r \in Runners : /\ Running(r)' => Running(r) /\ r # b
                                 /\ r # b => stopped'[r] = stopped[r]
                                 /\ phase'[r] \in {"timer", "delay"}
                                      => r # b /\ phase[r] = phase'[r]
  BY DEF Load, Collected, TypeOK, Phases, Running

LEMMA ReachInit == Init => ReachInv
  BY DEF Init, ReachInv, TypeOK, BootInv, SwapInv, UnstoppedIsListed, Running, Phases

LEMMA RecordsAreTyped == Recorded => HistoryTyped'
  BY DEF Recorded, HistoryTyped

LEMMA BootKeepsReach ==
    ASSUME ReachInv, UNCHANGED setting, HistoryTyped', BootFind \/ BootRefused \/ BootStart
    PROVE  ReachInv'
  <1>1. CASE BootFind /\ row = "active"
    <2>1. PICK b \in Runners : Load(b) /\ list' = b /\ bootBean' = b /\ boot' = "loop"
      BY <1>1 DEF BootFind
    <2>2. \A r \in Runners : ~Running(r)
      BY <1>1 DEF BootFind, ReachInv, BootInv, Running
    <2>3. QED
      BY <1>1, <2>1, <2>2, LoadedDoesNotRun
      DEF BootFind, ReachInv, TypeOK, HistoryTyped, BootInv, SwapInv,
          UnstoppedIsListed, Running, calls
  <1>2. CASE (BootFind /\ row # "active") \/ BootRefused
    BY <1>2
    DEF BootFind, BootRefused, ReachInv, TypeOK, HistoryTyped, BootInv, SwapInv,
        UnstoppedIsListed, Running, runners, calls
  <1>3. CASE BootStart
    BY <1>3, RunnersAssumption
    DEF BootStart, ReachInv, TypeOK, HistoryTyped, BootInv, SwapInv, UnstoppedIsListed, Running,
        Phases, calls
  <1>4. QED
    BY <1>1, <1>2, <1>3

LEMMA CallKeepsReach ==
    ASSUME ReachInv, UNCHANGED setting, HistoryTyped', NEW h \in Handlers, Call(h)
    PROVE  ReachInv'
  BY DEF Call, StartCall, ClearCall, EditCall, PauseCall, DeleteCall, GoTo,
         ReachInv, TypeOK, HistoryTyped, BootInv, SwapInv, UnstoppedIsListed, Running,
         runners, booting

(* Steps that touch neither a runner nor the list                          *)
LEMMA QuietStepKeepsReach ==
    ASSUME ReachInv, UNCHANGED setting, HistoryTyped', NEW h \in Handlers,
           StartUpdate(h) \/ EditStore(h) \/ PauseUpdate(h) \/ DeleteRow(h) \/ CallRefused(h)
    PROVE  ReachInv'
  BY DEF StartUpdate, EditStore, PauseUpdate, DeleteRow, CallRefused, GoTo, ReachInv,
         TypeOK, HistoryTyped,
         BootInv, SwapInv, UnstoppedIsListed, Running, runners, booting

LEMMA FindKeepsReach ==
    ASSUME ReachInv, UNCHANGED setting, HistoryTyped', NEW h \in Handlers, StartFind(h)
    PROVE  ReachInv'
  <1>1. CASE row = "gone"
    BY <1>1
    DEF StartFind, GoTo, ReachInv, TypeOK, HistoryTyped, BootInv, SwapInv, UnstoppedIsListed,
        Running, runners, booting
  <1>2. CASE row # "gone"
    <2>1. PICK b \in Runners : Load(b) /\ bean' = [bean EXCEPT ![h] = b] /\ GoTo(h, "start.swap")
      BY <1>2 DEF StartFind
    <2>2. UNCHANGED <<row, list, fresh, boot, bootBean>> /\ TypeOK /\ boot # "find"
      BY DEF StartFind, booting, ReachInv, BootInv
    <2>3. pc' \in [Handlers -> {"idle", "start.update", "start.find", "start.swap",
                            "pause.update", "pause.stop", "delete.stop",
                            "delete.row", "edit.store"}]
      BY <2>1, <2>2 DEF TypeOK, GoTo
    <2>4. bean' \in [Handlers -> Runners \cup {None}] /\ SwapInv'
      BY <2>1, <2>2 DEF TypeOK, GoTo, ReachInv, SwapInv
    <2>5. TypeOK'
      BY <2>1, <2>2, <2>3, <2>4, LoadedDoesNotRun DEF TypeOK, HistoryTyped
    <2>6. BootInv'
      BY <2>1, <2>2, LoadedDoesNotRun DEF ReachInv, BootInv
    <2>7. UnstoppedIsListed'
      BY <2>1, <2>2, LoadedDoesNotRun DEF ReachInv, UnstoppedIsListed
    <2>8. QED
      BY <2>4, <2>5, <2>6, <2>7 DEF ReachInv
  <1>3. QED
    BY <1>1, <1>2

(* The old runner is stopped as the new one is listed.                     *)
LEMMA SwapKeepsReach ==
    ASSUME ReachInv, UNCHANGED setting, HistoryTyped', NEW h \in Handlers, StartSwap(h)
    PROVE  ReachInv'
  <1>1. TypeOK' /\ boot # "find" /\ bean[h] \in Runners
    BY DEF StartSwap, GoTo, ReachInv, BootInv, SwapInv, TypeOK, HistoryTyped, Phases,
           booting
  <1>2. SwapInv'
    BY DEF StartSwap, GoTo, ReachInv, SwapInv, TypeOK
  <1>3. BootInv'
    BY <1>1, RunnersAssumption DEF StartSwap, ReachInv, BootInv, TypeOK, booting
  <1>4. UnstoppedIsListed'
    BY <1>1, RunnersAssumption
    DEF StartSwap, ReachInv, UnstoppedIsListed, TypeOK, Running
  <1>5. QED
    BY <1>1, <1>2, <1>3, <1>4 DEF ReachInv

(* A pause leaves the stopped runner listed, a delete unlists it.          *)
LEMMA StopKeepsReach ==
    ASSUME ReachInv, UNCHANGED setting, HistoryTyped', NEW h \in Handlers,
           PauseStop(h) \/ DeleteStop(h)
    PROVE  ReachInv'
  <1>1. TypeOK' /\ boot # "find"
    <2>1. /\ phase' \in [Runners -> Phases]
          /\ stopped' \in [Runners -> BOOLEAN]
          /\ flag' \in [Runners -> BOOLEAN]
      BY DEF PauseStop, DeleteStop, AfterStop, ReachInv, TypeOK, Phases
    <2>2. /\ pc' = [pc EXCEPT ![h] = "idle"] \/ pc' = [pc EXCEPT ![h] = "delete.row"]
          /\ list' \in {list, None}
          /\ UNCHANGED <<row, fresh, bean, boot, bootBean>>
      BY DEF PauseStop, DeleteStop, GoTo, booting
    <2>3. boot # "find"
      BY DEF PauseStop, DeleteStop, ReachInv, BootInv
    <2>4. QED
      BY <2>1, <2>2, <2>3 DEF ReachInv, TypeOK, HistoryTyped
  <1>2. SwapInv'
    BY DEF PauseStop, DeleteStop, GoTo, ReachInv, SwapInv, TypeOK
  <1>3. BootInv'
    BY <1>1, RunnersAssumption
    DEF PauseStop, DeleteStop, AfterStop, ReachInv, BootInv, TypeOK, booting
  <1>4. UnstoppedIsListed'
    BY <1>1, RunnersAssumption
    DEF PauseStop, DeleteStop, AfterStop, ReachInv, UnstoppedIsListed, TypeOK, Running
  <1>5. QED
    BY <1>1, <1>2, <1>3, <1>4 DEF ReachInv

LEMMA RunKeepsReach ==
    ASSUME ReachInv, UNCHANGED setting, HistoryTyped', NEW r \in Runners, Run(r)
    PROVE  ReachInv'
  <1>1. TypeOK'
    BY DEF Run, TagsLoaded, TimerFires, BeatEnds, WatchdogFresh, BeginBeat,
           ReachInv, TypeOK, HistoryTyped, Phases, calls, booting
  <1>2. BootInv' /\ SwapInv'
    BY DEF Run, TagsLoaded, TimerFires, BeatEnds, WatchdogFresh, BeginBeat,
           ReachInv, BootInv, SwapInv, calls, booting
  <1>3. UnstoppedIsListed'
    BY DEF Run, TagsLoaded, TimerFires, BeatEnds, WatchdogFresh, BeginBeat,
           ReachInv, UnstoppedIsListed, TypeOK, Running
  <1>4. QED
    BY <1>1, <1>2, <1>3 DEF ReachInv

LEMMA ReachStep == ReachInv /\ [Next]_vars => ReachInv'
  <1>. SUFFICES ASSUME ReachInv, [Next]_vars PROVE ReachInv'
    OBVIOUS
  <1>1. CASE UNCHANGED setting /\ HistoryTyped' /\ (PushArrives \/ PushAges)
    BY <1>1
    DEF PushArrives, PushAges, ReachInv, TypeOK, HistoryTyped, BootInv, SwapInv, UnstoppedIsListed,
        Running, runners, calls, booting
  <1>2. CASE UNCHANGED vars
    BY <1>2
    DEF vars, moving, history, ReachInv, TypeOK, BootInv, SwapInv, UnstoppedIsListed,
        Running, runners, calls, booting
  <1>3. ASSUME NEW h \in Handlers, Step(h) \/ CallRefused(h), UNCHANGED setting, HistoryTyped'
        PROVE  ReachInv'
    BY <1>3, QuietStepKeepsReach, FindKeepsReach, SwapKeepsReach, StopKeepsReach DEF Step
  <1>4. QED
    BY <1>1, <1>2, <1>3, RecordsAreTyped, BootKeepsReach, CallKeepsReach, RunKeepsReach
    DEF Next

(* Whatever calls interleave with the boot loop and with beats, and however *)
(* many: a runner that goes on beating is the listed one, so the next      *)
(* pauseMonitor(), startMonitor() or deleteMonitor() stops it.             *)
THEOREM RunnersAreReachable == Spec => []UnstoppedIsListed
  <1>1. ReachInv => UnstoppedIsListed
    BY DEF ReachInv
  <1>2. QED
    BY ReachInit, ReachStep, <1>1, PTL DEF Spec

(* Every variable of MonitorLifecycle keeps its type.                      *)
THEOREM LifecycleTypes == Spec => []TypeOK
  <1>1. ReachInv => TypeOK
    BY DEF ReachInv
  <1>2. QED
    BY ReachInit, ReachStep, <1>1, PTL DEF Spec

-----------------------------------------------------------------------------
(* A polled type has no first delay, the only timer stop() cannot clear.   *)
NoTimer  == StopLeavesNoTimer /\ \A r \in Runners : phase[r] # "delay"
TimerInv == TypeOK /\ (~Passive => NoTimer)

LEMMA TimerStep ==
    ASSUME TimerInv, TypeOK', [Next]_vars
    PROVE  TimerInv'
  <1>. SUFFICES ASSUME ~Passive PROVE NoTimer'
    BY DEF TimerInv, Next, vars, Passive
  <1>. USE DEF NoTimer
  <1>1. ASSUME NEW b \in Runners, Load(b),
               BootFind \/ \E h \in Handlers : StartFind(h)
        PROVE  NoTimer'
    BY <1>1, LoadedDoesNotRun DEF TimerInv, StopLeavesNoTimer
  <1>2. CASE BootFind \/ BootRefused \/ BootStart
    <2>1. CASE (BootFind /\ row # "active") \/ BootRefused
      BY <2>1 DEF BootFind, BootRefused, TimerInv, StopLeavesNoTimer, runners
    <2>2. CASE BootStart
      BY <2>2 DEF BootStart, TimerInv, StopLeavesNoTimer, TypeOK
    <2>3. QED
      BY <1>1, <1>2, <2>1, <2>2 DEF BootFind
  <1>3. ASSUME NEW h \in Handlers, Call(h)
        PROVE  NoTimer'
    BY <1>3
    DEF Call, StartCall, ClearCall, EditCall, PauseCall, DeleteCall, TimerInv,
        StopLeavesNoTimer, runners
  <1>4. ASSUME NEW h \in Handlers, Step(h) \/ CallRefused(h)
        PROVE  NoTimer'
    <2>1. CASE StartUpdate(h) \/ EditStore(h) \/ PauseUpdate(h) \/ DeleteRow(h) \/ CallRefused(h)
      BY <2>1
      DEF StartUpdate, EditStore, PauseUpdate, DeleteRow, CallRefused, TimerInv,
          StopLeavesNoTimer, runners
    <2>2. CASE StartFind(h)
      <3>1. CASE row = "gone"
        BY <2>2, <3>1 DEF StartFind, TimerInv, StopLeavesNoTimer, runners
      <3>2. QED
        BY <1>1, <2>2, <3>1 DEF StartFind
    <2>3. CASE StartSwap(h)
      BY <2>3, RunnersAssumption DEF StartSwap, TimerInv, StopLeavesNoTimer, TypeOK
    <2>4. CASE PauseStop(h) \/ DeleteStop(h)
      BY <2>4, RunnersAssumption
      DEF PauseStop, DeleteStop, AfterStop, TimerInv, StopLeavesNoTimer, TypeOK
    <2>5. QED
      BY <1>4, <2>1, <2>2, <2>3, <2>4 DEF Step
  <1>5. ASSUME NEW r \in Runners, Run(r)
        PROVE  NoTimer'
    BY <1>5
    DEF Run, TagsLoaded, TimerFires, BeatEnds, WatchdogFresh, BeginBeat, TimerInv,
        StopLeavesNoTimer, TypeOK
  <1>6. CASE PushArrives \/ PushAges \/ UNCHANGED vars
    BY <1>6 DEF PushArrives, PushAges, TimerInv, StopLeavesNoTimer, vars, moving, runners
  <1>7. QED
    BY <1>2, <1>3, <1>4, <1>5, <1>6 DEF Next

(* stop() leaves a runner of a polled type without a timer.                *)
THEOREM PolledStopIsFinal == Spec => []PolledStopLeavesNoTimer
  <1>1. Init => TimerInv
    BY ReachInit DEF Init, TimerInv, NoTimer, StopLeavesNoTimer, ReachInv
  <1>2. TimerInv /\ TypeOK' /\ [Next]_vars => TimerInv'
    BY TimerStep
  <1>3. TimerInv => PolledStopLeavesNoTimer
    BY DEF TimerInv, NoTimer, PolledStopLeavesNoTimer
  <1>4. QED
    BY LifecycleTypes, <1>1, <1>2, <1>3, PTL DEF Spec

-----------------------------------------------------------------------------
(* The runner an active monitor should have, which the boot loop may not   *)
(* have started yet, ...                                                   *)
Alive(r) ==
    /\ ~stopped[r] /\ flag[r]
    /\ Running(r) \/ (boot = "loop" /\ r = bootBean /\ phase[r] = "loaded")

(* ... and what is to be seen once a monitor is paused or deleted.         *)
Silent ==
    /\ \A r \in Runners : Running(r) => stopped[r]
    /\ boot = "loop" => stopped[bootBean]

(* While the calls in flight are of one kind, nobody undoes what a call    *)
(* has done to the row before it gets to the runner.                       *)
StageOf(h) ==
    /\ pc[h] = "start.find" => row # "paused"
    /\ pc[h] = "start.swap" =>
          row = "active" /\ flag[bean[h]] /\ ~stopped[bean[h]] /\ bean[h] # list
    /\ pc[h] = "pause.stop" => row # "active"
    /\ pc[h] = "delete.row" => Silent

StageInv == ~crossing => \A h \in Handlers : StageOf(h)

(* Two calls that are about to list a bean have loaded one each.           *)
OwnBeans ==
    \A g, h \in Handlers : pc[g] = "start.swap" /\ pc[h] = "start.swap" /\ g # h
        => bean[g] # bean[h]

OverlapInv ==
    /\ crossing => crossed
    /\ ~crossing => ~Mixed

(* The row runs ahead of the list from the UPDATE of a start or a pause to *)
(* the end of the call, and the list ahead of the row in a deletion.       *)
ActiveInv ==
    (/\ ~crossed /\ ~unfinished /\ boot # "find" /\ row = "active"
     /\ \A h \in Handlers : pc[h] \notin {"start.find", "start.swap", "delete.row"})
        => list \in Runners /\ Alive(list)

QuietInv ==
    (~crossed /\ row # "active" /\ \A h \in Handlers : pc[h] # "pause.stop") => Silent

CallInv  == OverlapInv /\ OwnBeans /\ StageInv
EndInv   == ActiveInv /\ QuietInv
AgreeInv == ReachInv /\ CallInv /\ EndInv

(* What the histories say after a step of what was so before it            *)
LEMMA WhatIsRecorded ==
    ASSUME OverlapInv, Recorded
    PROVE  /\ OverlapInv'
           /\ ~crossing' => ~crossing \/ \A h \in Handlers : pc'[h] = "idle"
           /\ ~crossing' => ~Mixed'
           /\ ~crossed' => ~crossing /\ ~crossing' /\ (~crossed \/ GoneThrough)
           /\ ~unfinished' => (~unfinished /\ ~BrokenOff)
                                \/ \E h \in Handlers : pc[h] = "start.swap" /\ pc'[h] = "idle"
  <1>1. ~crossing' => ~Mixed' /\ (~crossing \/ \A h \in Handlers : pc'[h] = "idle")
    BY DEF Recorded, Mixed, Opening, Ending
  <1>2. crossing' => crossed'
    BY DEF Recorded
  <1>3. ~crossed' => ~crossing /\ ~crossing' /\ (~crossed \/ GoneThrough)
    BY DEF Recorded, OverlapInv
  <1>4. QED
    BY <1>1, <1>2, <1>3 DEF Recorded, OverlapInv

(* Loading a bean leaves every other as it is.                             *)
LEMMA LoadedFollowsRow ==
    ASSUME TypeOK, NEW b \in Runners, Load(b)
    PROVE  /\ flag'[b] = (row = "active") /\ ~stopped'[b] /\ phase'[b] = "loaded"
           /\ \A r \in Runners \ {b} : /\ flag'[r] = flag[r] /\ stopped'[r] = stopped[r]
                                       /\ phase'[r] = phase[r]
           /\ \A h \in Handlers : bean[h] # b
  BY DEF Load, Collected, TypeOK

LEMMA OneHandlerMoves ==
    ASSUME ReachInv, NEW h \in Handlers, NEW s, GoTo(h, s)
    PROVE  \A g \in Handlers : pc'[g] = IF g = h THEN s ELSE pc[g]
  BY DEF GoTo, ReachInv, TypeOK

(* Beats, pushes and the boot loop's own steps leave calls and rows alone. *)
LEMMA OtherStepsKeepAgreement ==
    ASSUME AgreeInv, Recorded, ReachInv',
           UNCHANGED <<row, list, stopped, flag, pc, bean>>,
           (Silent => Silent') /\ \A r \in Runners : Alive(r) => Alive(r)',
           boot' # "find", boot = "find" => (boot' = "done" /\ Silent)
    PROVE  CallInv' /\ EndInv'
  <1>1. OverlapInv' /\ ~GoneThrough
    BY WhatIsRecorded DEF AgreeInv, CallInv, GoneThrough, ReachInv, TypeOK
  <1>2. OwnBeans' /\ StageInv'
    BY WhatIsRecorded DEF AgreeInv, CallInv, OwnBeans, StageInv, StageOf
  <1>3. ActiveInv'
    BY <1>1, WhatIsRecorded DEF AgreeInv, CallInv, EndInv, ActiveInv, BrokenOff
  <1>4. QuietInv'
    BY <1>1, WhatIsRecorded DEF AgreeInv, CallInv, EndInv, QuietInv
  <1>5. QED
    BY <1>1, <1>2, <1>3, <1>4 DEF CallInv, EndInv

LEMMA BootKeepsAgreement ==
    ASSUME AgreeInv, Recorded, ReachInv', BootFind \/ BootRefused \/ BootStart
    PROVE  CallInv' /\ EndInv'
  <1>1. CASE BootFind
    <2>1. /\ UNCHANGED <<row, pc, bean>> /\ \A h \in Handlers : pc[h] = "idle"
          /\ \A r \in Runners : phase[r] = "free"
      BY <1>1 DEF BootFind, calls, AgreeInv, ReachInv, BootInv
    <2>2. OverlapInv' /\ ~GoneThrough /\ OwnBeans' /\ StageInv'
      BY <2>1, WhatIsRecorded
      DEF AgreeInv, CallInv, GoneThrough, OwnBeans, StageInv, StageOf
    <2>3. CASE row = "active"
      <3>1. PICK b \in Runners : Load(b) /\ list' = b /\ bootBean' = b /\ boot' = "loop"
        BY <1>1, <2>3 DEF BootFind
      <3>2. Alive(b)'
        BY <2>3, <3>1, LoadedFollowsRow DEF Alive, AgreeInv, ReachInv
      <3>3. ActiveInv' /\ QuietInv'
        BY <2>1, <2>3, <3>1, <3>2 DEF ActiveInv, QuietInv
      <3>4. QED
        BY <2>2, <3>3 DEF CallInv, EndInv
    <2>4. CASE row # "active"
      <3>1. UNCHANGED <<phase, stopped>> /\ boot' = "done"
        BY <1>1, <2>4 DEF BootFind, runners
      <3>2. Silent'
        BY <2>1, <3>1 DEF Silent, Running
      <3>3. ActiveInv' /\ QuietInv'
        BY <2>1, <2>4, <3>2 DEF ActiveInv, QuietInv
      <3>4. QED
        BY <2>2, <3>3 DEF CallInv, EndInv
    <2>5. QED
      BY <2>3, <2>4
  <1>2. CASE BootRefused
    <2>1. /\ UNCHANGED <<row, list, phase, stopped, flag, pc, bean>>
          /\ boot = "find" /\ boot' = "done" /\ \A r \in Runners : phase[r] = "free"
      BY <1>2 DEF BootRefused, runners, calls, AgreeInv, ReachInv, BootInv
    <2>2. Silent /\ Silent' /\ \A r \in Runners : ~Alive(r)
      BY <2>1 DEF Silent, Alive, Running
    <2>3. QED
      BY <2>1, <2>2, OtherStepsKeepAgreement
  <1>3. CASE BootStart
    <2>1. /\ bootBean \in Runners /\ boot = "loop" /\ boot' = "done"
          /\ UNCHANGED <<row, list, stopped, flag, pc, bean>>
          /\ phase' = [phase EXCEPT ![bootBean] = "starting"]
      BY <1>3 DEF BootStart, AgreeInv, ReachInv, BootInv, calls
    <2>2. \A r \in Runners : Alive(r) => Alive(r)'
      BY <2>1 DEF AgreeInv, ReachInv, TypeOK, Alive, Running
    <2>3. Silent => Silent'
      BY <2>1 DEF AgreeInv, ReachInv, TypeOK, Silent, Running
    <2>4. QED
      BY <2>1, <2>2, <2>3, OtherStepsKeepAgreement
  <1>4. QED
    BY <1>1, <1>2, <1>3

(* A beat that ends takes only a stopped runner's timers away.             *)
LEMMA RunKeepsAgreement ==
    ASSUME AgreeInv, Recorded, ReachInv', NEW r \in Runners, Run(r)
    PROVE  CallInv' /\ EndInv'
  <1>1. /\ UNCHANGED <<row, list, stopped, flag, pc, bean, boot, bootBean>>
        /\ Running(r) /\ \A q \in Runners \ {r} : phase'[q] = phase[q]
        /\ ~stopped[r] => Running(r)'
    BY DEF Run, TagsLoaded, TimerFires, BeatEnds, WatchdogFresh, BeginBeat, Running, calls,
           booting, AgreeInv, ReachInv, TypeOK
  <1>2. \A q \in Runners : Alive(q) => Alive(q)'
    BY <1>1 DEF Alive, Running
  <1>3. (Silent => Silent') /\ boot # "find"
    BY <1>1 DEF Silent, Running, AgreeInv, ReachInv, BootInv
  <1>4. QED
    BY <1>1, <1>2, <1>3, OtherStepsKeepAgreement

(* A call that begins, or that is refused, and a statement that has to do  *)
(* with the row alone                                                      *)
LEMMA RowStepKeepsAgreement ==
    ASSUME AgreeInv, Recorded, ReachInv', NEW h \in Handlers,
           \/ Call(h)
           \/ StartUpdate(h) \/ EditStore(h) \/ PauseUpdate(h) \/ DeleteRow(h)
           \/ StartFind(h) /\ row = "gone"
           \/ CallRefused(h)
    PROVE  CallInv' /\ EndInv'
  <1>1. UNCHANGED <<list, phase, stopped, flag, bean, boot, bootBean>>
    BY DEF Call, StartCall, ClearCall, EditCall, PauseCall, DeleteCall, StartUpdate,
           EditStore, PauseUpdate, DeleteRow, StartFind, CallRefused, runners, booting
  <1>2. boot # "find"
    BY DEF Call, StartUpdate, EditStore, PauseUpdate, DeleteRow, StartFind, CallRefused,
           AgreeInv, ReachInv, BootInv
  <1>3. (Silent' <=> Silent) /\ \A r \in Runners : Alive(r)' <=> Alive(r)
    BY <1>1 DEF Silent, Alive, Running
  <1>4. PICK s \in {"idle", "start.update", "start.find", "edit.store", "pause.update",
                    "pause.stop", "delete.stop"} : GoTo(h, s)
    BY DEF Call, StartCall, ClearCall, EditCall, PauseCall, DeleteCall, StartUpdate,
           EditStore, PauseUpdate, DeleteRow, StartFind, CallRefused
  <1>5. \A g \in Handlers : pc'[g] = IF g = h THEN s ELSE pc[g]
    BY <1>4, OneHandlerMoves DEF AgreeInv
  <1>6. /\ s = "start.find" => pc[h] = "start.update" /\ row' # "paused"
        /\ s = "pause.stop" => pc[h] = "pause.update" /\ row' # "active"
        /\ row' # row => \/ pc[h] = "start.update" /\ row' = "active" /\ s = "start.find"
                         \/ pc[h] = "pause.update" /\ row' = "paused" /\ s = "pause.stop"
                         \/ pc[h] = "delete.row" /\ row' = "gone" /\ s = "idle"
        /\ pc[h] # "start.swap" /\ pc[h] # "pause.stop"
        /\ pc[h] = "delete.row" => s = "idle"
        /\ pc[h] = "start.find" => s = "idle"
    <2>1. /\ pc'[h] = s
          /\ row \in {"active", "paused", "gone"}
      BY <1>5 DEF AgreeInv, ReachInv, TypeOK
    <2>2. CASE Call(h)
      BY <1>4, <2>1, <2>2
      DEF Call, StartCall, ClearCall, EditCall, PauseCall, DeleteCall, GoTo, AgreeInv,
          ReachInv, TypeOK
    <2>3. CASE StartUpdate(h)
      BY <2>1, <2>3 DEF StartUpdate, GoTo, AgreeInv, ReachInv, TypeOK
    <2>4. CASE EditStore(h)
      BY <2>1, <2>4 DEF EditStore, GoTo, AgreeInv, ReachInv, TypeOK
    <2>5. CASE PauseUpdate(h)
      BY <2>1, <2>5 DEF PauseUpdate, GoTo, AgreeInv, ReachInv, TypeOK
    <2>6. CASE DeleteRow(h)
      BY <2>1, <2>6 DEF DeleteRow, GoTo, AgreeInv, ReachInv, TypeOK
    <2>7. CASE (StartFind(h) /\ row = "gone") \/ CallRefused(h)
      BY <2>1, <2>7 DEF StartFind, CallRefused, GoTo, AgreeInv, ReachInv, TypeOK
    <2>8. QED
      BY <2>2, <2>3, <2>4, <2>5, <2>6, <2>7
  <1>7. OverlapInv' /\ OwnBeans'
    BY <1>1, <1>5, WhatIsRecorded DEF AgreeInv, CallInv, OwnBeans
  <1>8. StageInv'
    <2>. SUFFICES ASSUME ~crossing', NEW g \in Handlers PROVE StageOf(g)'
      BY DEF StageInv
    <2>1. CASE \A q \in Handlers : pc'[q] = "idle"
      BY <2>1 DEF StageOf
    <2>2. CASE ~crossing
      <3>1. ~Mixed /\ ~Mixed' /\ StageOf(g)
        BY <2>2, WhatIsRecorded DEF AgreeInv, CallInv, OverlapInv, StageInv
      <3>2. QED
        BY <3>1, <1>1, <1>3, <1>5, <1>6 DEF StageOf, Mixed, Opening, Ending
    <2>3. QED
      BY <2>1, <2>2, WhatIsRecorded DEF AgreeInv, CallInv
  <1>9. ActiveInv'
    <2>. SUFFICES ASSUME ~crossed', ~unfinished', row' = "active",
                         \A g \in Handlers : pc'[g] \notin {"start.find", "start.swap",
                                                            "delete.row"}
                  PROVE  list \in Runners /\ Alive(list)
      BY <1>1, <1>3 DEF ActiveInv
    <2>1. row = "active" /\ pc[h] \notin {"start.find", "delete.row"} /\ ~unfinished
      BY <1>5, <1>6, WhatIsRecorded DEF BrokenOff, AgreeInv, CallInv
    <2>2. ~GoneThrough /\ ~crossed
      BY <1>5, <1>6, <2>1, WhatIsRecorded DEF GoneThrough, AgreeInv, CallInv
    <2>3. QED
      BY <1>2, <1>5, <1>6, <2>1, <2>2 DEF AgreeInv, EndInv, ActiveInv
  <1>10. QuietInv'
    <2>. SUFFICES ASSUME ~crossed', row' # "active", \A g \in Handlers : pc'[g] # "pause.stop"
                  PROVE  Silent
      BY <1>3 DEF QuietInv
    <2>1. CASE pc[h] = "delete.row"
      BY <2>1, WhatIsRecorded DEF AgreeInv, CallInv, StageInv, StageOf
    <2>2. CASE pc[h] # "delete.row"
      <3>1. ~GoneThrough /\ ~crossed
        BY <1>5, <1>6, <2>2, WhatIsRecorded DEF GoneThrough, AgreeInv, CallInv
      <3>2. row # "active" /\ \A g \in Handlers : pc[g] # "pause.stop"
        BY <1>5, <1>6, <2>2
      <3>3. QED
        BY <3>1, <3>2 DEF AgreeInv, EndInv, QuietInv
    <2>3. QED
      BY <2>1, <2>2
  <1>11. QED
    BY <1>7, <1>8, <1>9, <1>10 DEF CallInv, EndInv

(* The bean is loaded from an active row, and belongs to nobody else.      *)
LEMMA FindKeepsAgreement ==
    ASSUME AgreeInv, Recorded, ReachInv', NEW h \in Handlers, StartFind(h), row # "gone"
    PROVE  CallInv' /\ EndInv'
  <1>1. PICK b \in Runners :
           Load(b) /\ bean' = [bean EXCEPT ![h] = b] /\ GoTo(h, "start.swap")
    BY DEF StartFind
  <1>2. UNCHANGED <<row, list, boot, bootBean>> /\ pc[h] = "start.find"
    BY DEF StartFind, booting
  <1>3. \A g \in Handlers : /\ pc'[g] = IF g = h THEN "start.swap" ELSE pc[g]
                            /\ bean'[g] = IF g = h THEN b ELSE bean[g]
    BY <1>1, OneHandlerMoves DEF AgreeInv, ReachInv, TypeOK
  <1>4. TypeOK
    BY DEF AgreeInv, ReachInv
  <1>5. OverlapInv' /\ OwnBeans'
    BY <1>1, <1>3, <1>4, LoadedFollowsRow, WhatIsRecorded DEF AgreeInv, CallInv, OwnBeans
  <1>6. Silent => Silent'
    BY <1>1, <1>2, <1>4, LoadedDoesNotRun DEF Silent, AgreeInv, ReachInv, BootInv
  <1>7. StageInv'
    <2>. SUFFICES ASSUME ~crossing', NEW g \in Handlers PROVE StageOf(g)'
      BY DEF StageInv
    <2>1. CASE \A q \in Handlers : pc'[q] = "idle"
      BY <2>1 DEF StageOf
    <2>2. CASE ~crossing
      <3>1. StageOf(g) /\ StageOf(h)
        BY <2>2 DEF AgreeInv, CallInv, StageInv
      <3>2. CASE g = h
        BY <3>1, <3>2, <1>1, <1>2, <1>3, <1>4, LoadedFollowsRow, LoadedDoesNotRun
        DEF StageOf, TypeOK
      <3>3. CASE g # h
        BY <3>1, <3>3, <1>1, <1>2, <1>3, <1>4, <1>6, LoadedFollowsRow
        DEF StageOf, AgreeInv, ReachInv, SwapInv
      <3>4. QED
        BY <3>2, <3>3
    <2>3. QED
      BY <2>1, <2>2, WhatIsRecorded DEF AgreeInv, CallInv
  <1>8. ActiveInv'
    BY <1>3 DEF ActiveInv
  <1>9. QuietInv'
    <2>1. ~GoneThrough
      BY <1>3 DEF GoneThrough
    <2>2. QED
      BY <1>2, <1>3, <1>6, <2>1, WhatIsRecorded DEF AgreeInv, CallInv, EndInv, QuietInv
  <1>10. QED
    BY <1>5, <1>7, <1>8, <1>9 DEF CallInv, EndInv

LEMMA SwapKeepsAgreement ==
    ASSUME AgreeInv, Recorded, ReachInv', NEW h \in Handlers, StartSwap(h)
    PROVE  CallInv' /\ EndInv'
  <1>1. PICK b \in Runners : b = bean[h]
    BY DEF StartSwap, AgreeInv, ReachInv, SwapInv
  <1>2. /\ UNCHANGED <<row, flag, boot, bootBean>> /\ list' = b /\ pc[h] = "start.swap"
        /\ phase'[b] = "starting"
        /\ \A r \in Runners : stopped'[r] = (r = list \/ stopped[r])
    BY <1>1, RunnersAssumption DEF StartSwap, booting, AgreeInv, ReachInv, TypeOK
  <1>3. \A g \in Handlers : /\ pc'[g] = IF g = h THEN "idle" ELSE pc[g]
                            /\ g # h => bean'[g] = bean[g]
    BY OneHandlerMoves DEF StartSwap, AgreeInv, ReachInv, TypeOK
  <1>4. OverlapInv' /\ OwnBeans'
    BY <1>3, WhatIsRecorded DEF AgreeInv, CallInv, OwnBeans
  <1>5. StageInv'
    <2>. SUFFICES ASSUME ~crossing', NEW g \in Handlers, g # h PROVE StageOf(g)'
      BY <1>3 DEF StageInv, StageOf
    <2>1. CASE \A q \in Handlers : pc'[q] = "idle"
      BY <2>1 DEF StageOf
    <2>2. CASE ~crossing
      <3>1. StageOf(g) /\ ~Mixed
        BY <2>2 DEF AgreeInv, CallInv, StageInv, OverlapInv
      <3>2. pc[g] \notin Ending
        BY <1>2, <3>1 DEF Mixed, Opening
      <3>3. pc[g] = "start.swap" => bean[g] # b /\ bean[g] \in Runners
        BY <1>1, <1>2 DEF AgreeInv, CallInv, OwnBeans, ReachInv, SwapInv
      <3>4. QED
        BY <1>2, <1>3, <3>1, <3>2, <3>3 DEF StageOf, Ending
    <2>3. QED
      BY <2>1, <2>2, WhatIsRecorded DEF AgreeInv, CallInv
  <1>6. ~crossed' => row = "active" /\ flag[b] /\ ~stopped[b] /\ b # list
    BY <1>1, <1>2, WhatIsRecorded DEF AgreeInv, CallInv, StageInv, StageOf
  <1>7. ActiveInv' /\ QuietInv'
    BY <1>2, <1>6 DEF ActiveInv, QuietInv, Alive, Running
  <1>8. QED
    BY <1>4, <1>5, <1>7 DEF CallInv, EndInv

(* Once the listed runner is stopped, nothing goes on.                     *)
LEMMA StopIsSilent ==
    ASSUME ReachInv, boot # "find", UNCHANGED booting,
           IF list = None THEN UNCHANGED <<phase, stopped>> ELSE AfterStop(list)
    PROVE  Silent'
  <1>1. \A r \in Runners : Running(r)' => stopped'[r]
    BY RunnersAssumption
    DEF AfterStop, ReachInv, UnstoppedIsListed, TypeOK, Running
  <1>2. boot = "loop" => stopped'[bootBean]
    BY RunnersAssumption DEF AfterStop, ReachInv, BootInv, TypeOK
  <1>3. QED
    BY <1>1, <1>2 DEF Silent, booting

LEMMA StopKeepsAgreement ==
    ASSUME AgreeInv, Recorded, ReachInv', NEW h \in Handlers, PauseStop(h) \/ DeleteStop(h)
    PROVE  CallInv' /\ EndInv'
  <1>1. boot # "find" /\ UNCHANGED booting
    BY DEF PauseStop, DeleteStop, AgreeInv, ReachInv, BootInv
  <1>2. Silent'
    BY <1>1, StopIsSilent DEF PauseStop, DeleteStop, AgreeInv
  <1>3. PICK s \in {"idle", "delete.row"} :
           GoTo(h, s) /\ (s = "idle" => pc[h] = "pause.stop")
    BY DEF PauseStop, DeleteStop
  <1>4. \A g \in Handlers : pc'[g] = IF g = h THEN s ELSE pc[g]
    BY <1>3, OneHandlerMoves DEF AgreeInv
  <1>5. UNCHANGED <<row, bean>> /\ pc[h] \in Ending
    BY DEF PauseStop, DeleteStop, Ending
  <1>6. OverlapInv' /\ OwnBeans'
    BY <1>4, <1>5, WhatIsRecorded DEF AgreeInv, CallInv, OwnBeans
  <1>7. StageInv'
    <2>. SUFFICES ASSUME ~crossing', NEW g \in Handlers PROVE StageOf(g)'
      BY DEF StageInv
    <2>1. CASE \A q \in Handlers : pc'[q] = "idle"
      BY <2>1 DEF StageOf
    <2>2. CASE ~crossing
      <3>1. StageOf(g) /\ ~Mixed
        BY <2>2 DEF AgreeInv, CallInv, StageInv, OverlapInv
      <3>2. pc[g] \notin Opening
        BY <1>5, <3>1 DEF Mixed
      <3>3. QED
        BY <1>2, <1>4, <1>5, <3>1, <3>2 DEF StageOf, Opening
    <2>3. QED
      BY <2>1, <2>2, WhatIsRecorded DEF AgreeInv, CallInv
  <1>8. ActiveInv'
    <2>1. ~crossed' /\ s = "idle" => row # "active"
      BY <1>3, WhatIsRecorded DEF AgreeInv, CallInv, StageInv, StageOf
    <2>2. QED
      BY <1>4, <1>5, <2>1 DEF ActiveInv
  <1>9. QuietInv'
    BY <1>2 DEF QuietInv
  <1>10. QED
    BY <1>6, <1>7, <1>8, <1>9 DEF CallInv, EndInv

LEMMA AgreeStep == AgreeInv /\ [Next]_vars => AgreeInv'
  <1>. SUFFICES ASSUME AgreeInv, [Next]_vars PROVE CallInv' /\ EndInv'
    BY ReachStep DEF AgreeInv
  <1>1. ReachInv /\ ReachInv'
    BY ReachStep DEF AgreeInv
  <1>2. CASE UNCHANGED vars
    <2>1. (Silent' <=> Silent) /\ (Mixed' <=> Mixed)
          /\ \A r \in Runners : Alive(r)' <=> Alive(r)
      BY <1>2 DEF vars, moving, runners, calls, booting, Silent, Alive, Running, Mixed
    <2>2. QED
      BY <1>2, <2>1
      DEF vars, moving, history, runners, calls, booting, AgreeInv, CallInv, EndInv,
          OverlapInv, OwnBeans, StageInv, StageOf, ActiveInv, QuietInv
  <1>3. CASE Recorded /\ (PushArrives \/ PushAges)
    <2>1. /\ UNCHANGED <<row, list, phase, stopped, flag, pc, bean, boot, bootBean>>
          /\ PushArrives => row = "active"
      BY <1>3 DEF PushArrives, PushAges, runners, calls, booting
    <2>2. (Silent' <=> Silent) /\ \A r \in Runners : Alive(r)' <=> Alive(r)
      BY <2>1 DEF Silent, Alive, Running
    <2>3. CASE boot # "find"
      BY <1>1, <1>3, <2>1, <2>2, <2>3, OtherStepsKeepAgreement
    <2>4. CASE boot = "find"
      <3>1. (\A h \in Handlers : pc[h] = "idle") /\ Silent' /\ boot' = "find"
        BY <1>1, <2>1, <2>2, <2>4 DEF ReachInv, BootInv, Silent, Running
      <3>2. QED
        BY <1>3, <2>1, <3>1, WhatIsRecorded
        DEF AgreeInv, CallInv, EndInv, OwnBeans, StageInv, StageOf, ActiveInv, QuietInv
    <2>5. QED
      BY <2>3, <2>4
  <1>4. ASSUME NEW h \in Handlers, Recorded, Call(h) \/ Step(h) \/ CallRefused(h)
        PROVE  CallInv' /\ EndInv'
    BY <1>1, <1>4, RowStepKeepsAgreement, FindKeepsAgreement, SwapKeepsAgreement,
       StopKeepsAgreement DEF Step
  <1>5. QED
    BY <1>1, <1>2, <1>3, <1>4, BootKeepsAgreement, RunKeepsAgreement DEF Next

(* However calls overlap, whichever statements are refused and whatever    *)
(* the boot loop does: once no call is in flight, and unless starts have   *)
(* overlapped with pauses or deletions, a paused or deleted monitor has no *)
(* runner that goes on, and an active one has the listed one, or a refused *)
(* statement broke off the call that was to give it one.                   *)
THEOREM RowRulesRunner == Spec => []RowAgreesWithRunner
  <1>1. Init => AgreeInv
    <2>1. Init => CallInv /\ EndInv
      BY DEF Init, CallInv, EndInv, OverlapInv, OwnBeans, StageInv, StageOf, ActiveInv,
             QuietInv, Silent, Running, Mixed, Opening
    <2>2. QED
      BY <2>1, ReachInit DEF AgreeInv
  <1>2. AgreeInv => RowAgreesWithRunner
    BY RunnersAssumption
    DEF AgreeInv, EndInv, ActiveInv, QuietInv, RowAgreesWithRunner, Settled, Alive, Silent
  <1>3. QED
    BY <1>1, <1>2, AgreeStep, PTL DEF Spec
=============================================================================
