------------------------- MODULE MaintenanceProofs -------------------------
(***************************************************************************)
(* For any settings, any clock and any number of calls in flight: types,   *)
(* no window without a timer that ends it, a row that ends up as the bean; *)
(* and with calls in turn no job that stop() cannot reach, and windows     *)
(* that are open inside the slots asked for and only there.                *)
(***************************************************************************)
EXTENDS Maintenance, TLAPS

LEMMA StopTypes ==
    ASSUME TypeOK, stop
    PROVE  /\ job' = None
           /\ jobs' \in [Jobs -> Patterns \cup {None}]
           /\ due' \subseteq {j \in Jobs : jobs'[j] # None}
  BY NoneAssumption DEF stop, TypeOK

LEMMA PatternTypes ==
    ASSUME TypeOK, NEW s \in Sets
    PROVE  PatternOf(s) \in Patterns
  BY TimeAssumption DEF PatternOf, Patterns, Sets, TypeOK

LEMMA StartTypes ==
    ASSUME TypeOK, NEW cur \in Nat, NEW delay \in Int,
           StartEvent(cur, delay) \/ StartEventUnstored(cur, delay)
    PROVE  /\ status' = "under-maintenance"
           /\ timer' \in Nat
           /\ bean' \in Beans
           /\ row' \in Beans \cup {None}
           /\ skipped' \in Nat
           /\ torn' \in BOOLEAN
  <1>1. FiresAt(delay) \in Nat
    BY TimeAssumption DEF FiresAt, TypeOK
  <1>2. torn' \in BOOLEAN
    <2>1. torn' = torn \/ torn' = TRUE
      BY Zenon DEF StartEvent, StartEventUnstored
    <2>2. QED
      BY <2>1 DEF TypeOK
  <1>3. OpenWindow(cur, delay) /\ row' \in {row, None, bean'}
    BY Zenon DEF StartEvent, StartEventUnstored
  <1>4. QED
    BY <1>1, <1>2, <1>3 DEF OpenWindow, TypeOK, Beans

LEMMA RunTypes ==
    ASSUME TypeOK, NEW h \in Handlers, NEW b \in Beans, RunBegins(h, b)
    PROVE  /\ pc' \in [Handlers -> {"idle", "edit", "pause", "resume", "delete", "run"}]
           /\ held' \in [Handlers -> Patterns \cup {None}]
           /\ status' \in {"none", "scheduled", "under-maintenance"}
           /\ job' = None
           /\ jobs' \in [Jobs -> Patterns \cup {None}]
           /\ due' \subseteq {j \in Jobs : jobs'[j] # None}
  BY StopTypes, PatternTypes DEF RunBegins, RunUpToTimezone, TypeOK, Beans

LEMMA TypesInit == Init => TypeOK
  <1>. SUFFICES ASSUME Init PROVE TypeOK
    OBVIOUS
  <1>1. bean \in Beans /\ row = bean
    BY SettingsAssumption DEF Init, NewBean, Beans
  <1>2. up \in BOOLEAN /\ listed \in BOOLEAN /\ torn \in BOOLEAN /\ raced \in BOOLEAN
    BY Zenon DEF Init
  <1>3. QED
    BY <1>1, <1>2, TimeAssumption DEF Init, TypeOK

LEMMA CallKeepsTypes ==
    ASSUME TypeOK, NEW h \in Handlers, Call(h)
    PROVE  TypeOK'
  <1>1. CASE Add(h)
    <2>1. PICK s \in Settings, a \in BOOLEAN :
             /\ bean' = NewBean(s, a) /\ row' = bean'
             /\ listed' = TRUE
             /\ IF s.strategy = "manual"
                THEN status' = "none" /\ UNCHANGED <<pc, held>>
                ELSE /\ Await(h, "run")
                     /\ held' = [held EXCEPT ![h] = PatternOf(s)]
                     /\ status' = IF s.strategy = "single" THEN "none" ELSE "scheduled"
      BY <1>1 DEF Add
    <2>2. bean' \in Beans /\ PatternOf(s) \in Patterns
      BY <2>1, SettingsAssumption, PatternTypes DEF NewBean, Beans
    <2>3. QED
      BY <1>1, <2>1, <2>2 DEF Add, Begin, Await, TypeOK, crons
  <1>2. CASE EditCall(h) \/ EditRejected(h)
    <2>1. CASE EditCall(h)
      <3>1. PICK s \in Settings, a \in BOOLEAN :
               bean' = [bean EXCEPT !.set = s, !.active = a]
        BY <2>1 DEF EditCall
      <3>2. s \in Sets
        BY SettingsAssumption
      <3>3. bean' \in Beans
        BY <3>1, <3>2 DEF TypeOK, Beans
      <3>4. QED
        BY <2>1, <3>3 DEF EditCall, Begin, Await, TypeOK, crons, window
    <2>2. CASE EditRejected(h)
      <3>1. PICK s \in Settings, a \in BOOLEAN :
               bean' = [bean EXCEPT !.set.strategy = s.strategy, !.set.every = s.every,
                                    !.active = a]
        BY <2>2 DEF EditRejected
      <3>2. s.strategy \in Strategies /\ s.every \in Nat
        BY SettingsAssumption DEF Sets
      <3>3. bean' \in Beans
        BY <3>1, <3>2 DEF TypeOK, Beans, Sets
      <3>4. torn' \in BOOLEAN
        BY <2>2, Zenon DEF EditRejected
      <3>5. QED
        BY <2>2, <3>3, <3>4 DEF EditRejected, Begin, TypeOK, crons, window
    <2>3. QED
      BY <1>2, <2>1, <2>2
  <1>3. CASE PauseCall(h) \/ ResumeCall(h)
    <2>1. bean' \in Beans
      BY <1>3 DEF PauseCall, ResumeCall, SetActive, TypeOK, Beans
    <2>2. QED
      BY <1>3, <2>1
      DEF PauseCall, ResumeCall, SetActive, Begin, Await, TypeOK, crons, window
  <1>4. CASE DeleteCall(h)
    <2>1. /\ job' \in Jobs \cup {None} /\ jobs' \in [Jobs -> Patterns \cup {None}]
          /\ due' \subseteq {j \in Jobs : jobs'[j] # None}
      <3>1. CASE listed
        BY <1>4, <3>1, StopTypes DEF DeleteCall
      <3>2. CASE ~listed
        BY <1>4, <3>2 DEF DeleteCall, crons, TypeOK
      <3>3. QED
        BY <3>1, <3>2
    <2>2. QED
      BY <1>4, <2>1 DEF DeleteCall, Begin, Await, TypeOK, window
  <1>5. QED
    BY <1>1, <1>2, <1>3, <1>4 DEF Call

LEMMA RunEndTypes ==
    ASSUME TypeOK, NEW h \in Handlers, RunEnds(h), held[h] \in Patterns
    PROVE  TypeOK'
  <1>1. PICK j \in Jobs : jobs[j] = None /\ jobs' = [jobs EXCEPT ![j] = held[h]] /\ job' = j
    BY DEF RunEnds, KeepJob
  <1>2. /\ jobs' \in [Jobs -> Patterns \cup {None}] /\ job' \in Jobs
        /\ due' \subseteq {k \in Jobs : jobs'[k] # None}
    BY <1>1, NoneAssumption DEF RunEnds, KeepJob, TypeOK
  <1>3. /\ bean' \in Beans /\ row' \in Beans \cup {None} /\ skipped' \in Nat
        /\ timer' \in Nat \cup {None}
        /\ status' \in {"none", "scheduled", "under-maintenance"} /\ torn' \in BOOLEAN
    <2>1. /\ held[h].cur \in Nat
          /\ bean.set.duration - Into(held[h].at, now) \in Int
      BY TimeAssumption DEF Into, Patterns, TypeOK, Beans, Sets
    <2>2. QED
      BY <2>1, StartTypes DEF RunEnds, TypeOK, window
  <1>4. QED
    BY <1>2, <1>3 DEF RunEnds, KeepJob, TypeOK

(* A run() that waits for the time zone holds a pattern.                   *)
HeldInv == \A h \in Handlers : pc[h] = "run" => held[h] # None

LEMMA StepKeepsTypes ==
    ASSUME TypeOK, HeldInv, NEW h \in Handlers, Step(h) \/ Boot(h)
    PROVE  TypeOK'
  <1>1. CASE EditStored(h) \/ ResumeStored(h)
    <2>1. bean \in Beans /\ row' \in Beans \cup {None} /\ RunBegins(h, bean)
      BY <1>1 DEF EditStored, ResumeStored, TypeOK
    <2>2. torn' \in BOOLEAN
      <3>1. CASE EditStored(h)
        BY <3>1, Zenon DEF EditStored
      <3>2. CASE ResumeStored(h)
        BY <3>2 DEF ResumeStored, TypeOK
      <3>3. QED
        BY <1>1, <3>1, <3>2
    <2>3. QED
      BY <1>1, <2>1, <2>2, RunTypes DEF EditStored, ResumeStored, TypeOK
  <1>2. CASE PauseStored(h)
    BY <1>2, StopTypes DEF PauseStored, Await, TypeOK, window
  <1>3. CASE StoreFails(h) \/ RunFails(h)
    <2>1. torn' \in BOOLEAN
      BY <1>3, Zenon DEF StoreFails, RunFails
    <2>2. QED
      BY <1>3, <2>1 DEF StoreFails, RunFails, Await, TypeOK, window, crons
  <1>4. CASE DeleteRow(h) \/ DeleteFails(h)
    BY <1>4 DEF DeleteRow, DeleteFails, Await, TypeOK, window, crons
  <1>5. CASE RunEnds(h)
    BY <1>5, RunEndTypes DEF HeldInv, RunEnds, KeepJob, TypeOK
  <1>6. CASE Boot(h)
    <2>1. up' \in BOOLEAN
      BY <1>6, Zenon DEF Boot
    <2>2. CASE row = None
      BY <1>6, <2>1, <2>2 DEF Boot, TypeOK, crons
    <2>3. CASE row # None
      <3>1. row \in Beans /\ bean' = row /\ listed' = TRUE /\ RunBegins(h, row)
        BY <1>6, <2>3 DEF Boot, TypeOK
      <3>2. QED
        BY <1>6, <2>1, <3>1, RunTypes DEF Boot, TypeOK
    <2>4. QED
      BY <2>2, <2>3
  <1>7. QED
    BY <1>1, <1>2, <1>3, <1>4, <1>5, <1>6 DEF Step

LEMMA JobKeepsTypes ==
    ASSUME TypeOK, NEW j \in Jobs, JobFires(j)
    PROVE  TypeOK'
  <1>1. CASE TooEarly(jobs[j])
    BY <1>1 DEF JobFires, TypeOK, window
  <1>2. CASE ~TooEarly(jobs[j])
    <2>1. jobs[j].cur \in Nat /\ inferDuration(bean.set, now) \in Int
      BY DEF JobFires, TypeOK, Patterns, inferDuration, Beans, Sets
    <2>2. QED
      BY <1>2, <2>1, StartTypes DEF JobFires, TypeOK
  <1>3. QED
    BY <1>1, <1>2

LEMMA TypesStep == TypeOK /\ HeldInv /\ [Next]_vars => TypeOK'
  <1>. SUFFICES ASSUME TypeOK, HeldInv, [Next]_vars PROVE TypeOK'
    OBVIOUS
  <1>1. CASE Tick
    BY <1>1, TimeAssumption DEF Tick, TypeOK, window, calls
  <1>2. CASE TimerFires
    BY <1>2 DEF TimerFires, TypeOK, crons, calls
  <1>3. CASE Crash
    <2>1. up' \in BOOLEAN /\ listed' \in BOOLEAN
      BY <1>3, Zenon DEF Crash
    <2>2. QED
      BY <1>3, <2>1 DEF Crash, TypeOK
  <1>4. CASE UNCHANGED vars
    BY <1>4 DEF vars, window, crons, calls, TypeOK
  <1>5. QED
    BY <1>1, <1>2, <1>3, <1>4, CallKeepsTypes, StepKeepsTypes, JobKeepsTypes DEF Next

-----------------------------------------------------------------------------
(* Windows and the row                                                     *)

(* Whoever is between bean and row stores the bean before its call ends.   *)
RowInv ==
    up /\ listed /\ ~torn /\ row # None
      /\ (\A h \in Handlers : pc[h] \notin {"edit", "pause", "resume"})
        => row = bean

IInv == TypeOK /\ HeldInv /\ OpenWindowHasTimer /\ RowInv

LEMMA IInvInit == Init => IInv
  BY TypesInit DEF Init, IInv, HeldInv, OpenWindowHasTimer, RowInv

LEMMA RunBeginsKeeps ==
    ASSUME TypeOK, HeldInv, OpenWindowHasTimer, NEW h \in Handlers, NEW b \in Beans,
           RunBegins(h, b), timer' = timer
    PROVE  /\ HeldInv' /\ OpenWindowHasTimer'
           /\ pc'[h] \in {"idle", "run"}
           /\ \A g \in Handlers : g # h => pc'[g] = pc[g]
  BY PatternTypes, NoneAssumption
  DEF RunBegins, RunUpToTimezone, HeldInv, OpenWindowHasTimer, TypeOK, Beans

LEMMA StartKeeps ==
    ASSUME TypeOK, NEW cur \in Nat, NEW delay \in Int,
           StartEvent(cur, delay) \/ StartEventUnstored(cur, delay)
    PROVE  OpenWindowHasTimer' /\ (row' # None /\ ~torn' => row' = bean')
  <1>1. OpenWindowHasTimer'
    BY StartTypes, TimeAssumption DEF OpenWindowHasTimer
  <1>2. CASE StartEvent(cur, delay)
    <2>1. row' = IF row = None THEN None ELSE bean'
      BY <1>2 DEF StartEvent
    <2>2. QED
      BY <1>1, <2>1
  <1>3. CASE StartEventUnstored(cur, delay)
    BY <1>1, <1>3, Zenon DEF StartEventUnstored
  <1>4. QED
    BY <1>2, <1>3

LEMMA IInvCall ==
    ASSUME IInv, NEW h \in Handlers, Call(h)
    PROVE  HeldInv' /\ OpenWindowHasTimer' /\ RowInv'
  <1>. USE DEF IInv
  <1>1. CASE Add(h)
    <2>1. PICK s \in Settings : /\ row' = bean'
                               /\ \/ status' = "none" /\ UNCHANGED <<pc, held>>
                                  \/ /\ Await(h, "run")
                                     /\ held' = [held EXCEPT ![h] = PatternOf(s)]
                                     /\ status' \in {"none", "scheduled"}
      BY <1>1 DEF Add
    <2>2. PatternOf(s) # None
      BY SettingsAssumption, PatternTypes, NoneAssumption
    <2>3. QED
      BY <2>1, <2>2 DEF Await, HeldInv, OpenWindowHasTimer, RowInv, TypeOK
  <1>2. CASE EditCall(h)
    BY <1>2 DEF EditCall, Await, HeldInv, OpenWindowHasTimer, RowInv, TypeOK, window
  <1>3. CASE EditRejected(h)
    BY <1>3 DEF EditRejected, HeldInv, OpenWindowHasTimer, RowInv, TypeOK, window
  <1>4. CASE PauseCall(h) \/ ResumeCall(h)
    BY <1>4 DEF PauseCall, ResumeCall, SetActive, Await, HeldInv, OpenWindowHasTimer,
                RowInv, TypeOK, window
  <1>5. CASE DeleteCall(h)
    BY <1>5 DEF DeleteCall, Await, HeldInv, OpenWindowHasTimer, RowInv, TypeOK, window
  <1>6. QED
    BY <1>1, <1>2, <1>3, <1>4, <1>5 DEF Call

LEMMA IInvStep ==
    ASSUME IInv, NEW h \in Handlers, Step(h) \/ Boot(h)
    PROVE  HeldInv' /\ OpenWindowHasTimer' /\ RowInv'
  <1>. USE DEF IInv
  <1>1. CASE EditStored(h) \/ ResumeStored(h)
    <2>1. bean \in Beans /\ RunBegins(h, bean) /\ timer' = timer
      BY <1>1 DEF EditStored, ResumeStored, TypeOK
    <2>2. RowInv'
      BY <1>1 DEF EditStored, ResumeStored, RowInv
    <2>3. QED
      BY <2>1, <2>2, RunBeginsKeeps
  <1>2. CASE PauseStored(h)
    BY <1>2 DEF PauseStored, Await, HeldInv, OpenWindowHasTimer, RowInv, TypeOK, window
  <1>3. CASE StoreFails(h) \/ RunFails(h)
    BY <1>3 DEF StoreFails, RunFails, Await, HeldInv, OpenWindowHasTimer, RowInv, TypeOK, window
  <1>4. CASE DeleteRow(h) \/ DeleteFails(h)
    BY <1>4 DEF DeleteRow, DeleteFails, Await, HeldInv, OpenWindowHasTimer, RowInv, TypeOK, window
  <1>5. CASE RunEnds(h)
    <2>1. HeldInv' /\ \A g \in Handlers : g # h => pc'[g] = pc[g]
      BY <1>5 DEF RunEnds, KeepJob, HeldInv, TypeOK
    <2>2. CASE UNCHANGED <<row, bean, window, skipped, torn>>
      BY <1>5, <2>1, <2>2
      DEF RunEnds, KeepJob, OpenWindowHasTimer, RowInv, window, TypeOK
    <2>3. CASE \/ StartEvent(held[h].cur, bean.set.duration - Into(held[h].at, now))
               \/ StartEventUnstored(held[h].cur, bean.set.duration - Into(held[h].at, now))
      <3>1. held[h] \in Patterns
        BY <1>5 DEF RunEnds, KeepJob, HeldInv, TypeOK
      <3>2. held[h].cur \in Nat /\ bean.set.duration - Into(held[h].at, now) \in Int
        BY <3>1, TimeAssumption DEF Into, Patterns, TypeOK, Beans, Sets
      <3>3. QED
        BY <2>1, <2>3, <3>2, StartKeeps DEF RowInv
    <2>4. QED
      BY <1>5, <2>2, <2>3 DEF RunEnds
  <1>6. CASE Boot(h)
    <2>1. CASE row = None
      BY <1>6, <2>1 DEF Boot, HeldInv, OpenWindowHasTimer, RowInv, crons
    <2>2. CASE row # None
      <3>1. row \in Beans /\ RunBegins(h, row) /\ timer' = timer
        BY <1>6, <2>2 DEF Boot, TypeOK
      <3>2. RowInv'
        BY <1>6, <2>2 DEF Boot, RowInv
      <3>3. QED
        BY <3>1, <3>2, RunBeginsKeeps
    <2>3. QED
      BY <2>1, <2>2
  <1>7. QED
    BY <1>1, <1>2, <1>3, <1>4, <1>5, <1>6 DEF Step

LEMMA IInvNext == IInv /\ [Next]_vars => IInv'
  <1>. SUFFICES ASSUME IInv, [Next]_vars PROVE HeldInv' /\ OpenWindowHasTimer' /\ RowInv'
    BY TypesStep DEF IInv
  <1>. USE DEF IInv
  <1>1. CASE Tick
    BY <1>1 DEF Tick, HeldInv, OpenWindowHasTimer, RowInv, window, calls
  <1>2. CASE TimerFires
    BY <1>2 DEF TimerFires, HeldInv, OpenWindowHasTimer, RowInv, calls
  <1>3. CASE Crash
    BY <1>3 DEF Crash, HeldInv, OpenWindowHasTimer, RowInv
  <1>4. ASSUME NEW j \in Jobs, JobFires(j)
        PROVE  HeldInv' /\ OpenWindowHasTimer' /\ RowInv'
    <2>1. CASE UNCHANGED <<row, bean, window, torn>>
      BY <1>4, <2>1 DEF JobFires, HeldInv, OpenWindowHasTimer, RowInv, window
    <2>2. CASE \/ StartEvent(jobs[j].cur, inferDuration(bean.set, now))
               \/ StartEventUnstored(jobs[j].cur, inferDuration(bean.set, now))
      <3>1. jobs[j].cur \in Nat /\ inferDuration(bean.set, now) \in Int
        BY <1>4 DEF JobFires, TypeOK, Patterns, inferDuration, Beans, Sets
      <3>2. QED
        BY <1>4, <2>2, <3>1, StartKeeps DEF JobFires, HeldInv, RowInv
    <2>3. QED
      BY <1>4, <2>1, <2>2 DEF JobFires
  <1>5. CASE UNCHANGED vars
    BY <1>5 DEF vars, window, calls, HeldInv, OpenWindowHasTimer, RowInv
  <1>6. QED
    BY <1>1, <1>2, <1>3, <1>4, <1>5, IInvCall, IInvStep DEF Next

(* Every variable of Maintenance keeps its type.                           *)
THEOREM MaintenanceTypes == Spec => []TypeOK
  <1>1. IInv => TypeOK
    BY DEF IInv
  <1>2. QED
    BY IInvInit, IInvNext, <1>1, PTL DEF Spec

(* An open window has the timer that closes it, whatever calls overlap.    *)
THEOREM WindowsAreClosed == Spec => []OpenWindowHasTimer
  <1>1. IInv => OpenWindowHasTimer
    BY DEF IInv
  <1>2. QED
    BY IInvInit, IInvNext, <1>1, PTL DEF Spec

(* Calls that overlap on the shared bean leave its last state in the row.  *)
THEOREM RowFollowsBean == Spec => []RowIsBean
  <1>1. IInv => RowIsBean
    BY DEF IInv, RowInv, RowIsBean, Quiet
  <1>2. QED
    BY IInvInit, IInvNext, <1>1, PTL DEF Spec

-----------------------------------------------------------------------------
(* Jobs, while calls take turns: a run() that waits has dropped the old    *)
(* job, and only a listed maintenance runs.                                *)
TurnInv ==
    ~raced =>
        /\ \A g, h \in Handlers : pc[g] # "idle" /\ pc[h] # "idle" => g = h
        /\ \A h \in Handlers : pc[h] \in {"edit", "pause", "resume", "run"} => listed
        /\ \A h \in Handlers : pc[h] = "run" => job = None
        /\ job # None => jobs[job] # None
        /\ ~up => job = None /\ \A h \in Handlers : pc[h] = "idle"

JobsInv == TypeOK /\ HeldInv /\ TurnInv /\ OneJob

LEMMA StopDropsJobs ==
    ASSUME TypeOK, OneJob, stop, ~raced
    PROVE  job' = None /\ \A j \in Jobs : jobs'[j] = None
  BY DEF stop, OneJob, TypeOK

LEMMA CallKeepsJobs ==
    ASSUME JobsInv, NEW h \in Handlers, Call(h), ~raced'
    PROVE  TurnInv' /\ OneJob'
  <1>. USE DEF JobsInv
  <1>1. ~raced /\ up /\ \A g \in Handlers : pc[g] = "idle"
    BY DEF Call, Add, EditCall, EditRejected, PauseCall, ResumeCall, SetActive, DeleteCall, Begin
  <1>2. CASE Add(h)
    <2>1. /\ listed' /\ up' /\ UNCHANGED crons /\ jobs = [j \in Jobs |-> None]
          /\ UNCHANGED pc \/ Await(h, "run")
      BY <1>1, <1>2 DEF Add
    <2>2. job = None
      BY <1>1, <2>1 DEF TurnInv, TypeOK
    <2>3. job' = None /\ \A j \in Jobs : jobs'[j] = None
      BY <2>1, <2>2 DEF crons
    <2>4. \A g \in Handlers : g # h => pc'[g] = "idle"
      BY <1>1, <2>1 DEF Await, TypeOK
    <2>5. QED
      BY <2>1, <2>3, <2>4 DEF TurnInv, OneJob
  <1>3. CASE EditCall(h) \/ EditRejected(h) \/ PauseCall(h) \/ ResumeCall(h)
    <2>1. /\ listed /\ listed' /\ up' /\ UNCHANGED crons
          /\ UNCHANGED pc \/ Await(h, "edit") \/ Await(h, "pause") \/ Await(h, "resume")
      <3>1. CASE EditCall(h)
        BY <1>1, <3>1 DEF EditCall, crons
      <3>2. CASE EditRejected(h)
        BY <1>1, <3>2 DEF EditRejected, crons
      <3>3. ASSUME NEW active, NEW where \in {"pause", "resume"}, SetActive(h, active, where)
            PROVE  /\ listed /\ listed' /\ up' /\ UNCHANGED crons
                   /\ Await(h, "pause") \/ Await(h, "resume")
        BY <1>1, <3>3 DEF SetActive
      <3>4. QED
        BY <1>3, <3>1, <3>2, <3>3 DEF PauseCall, ResumeCall
    <2>2. OneJob'
      BY <1>1, <2>1 DEF OneJob, crons
    <2>3. /\ \A g \in Handlers : g # h => pc'[g] = "idle"
          /\ pc'[h] # "run"
      BY <1>1, <2>1 DEF Await, TypeOK
    <2>4. QED
      BY <1>1, <2>1, <2>2, <2>3 DEF TurnInv, crons
  <1>4. CASE DeleteCall(h)
    <2>1. job' = None /\ \A j \in Jobs : jobs'[j] = None
      <3>1. CASE listed
        BY <1>1, <1>4, <3>1, StopDropsJobs DEF DeleteCall
      <3>2. CASE ~listed
        <4>1. job = None /\ \A j \in Jobs : jobs[j] = None
          BY <1>1, <3>2, NoneAssumption DEF OneJob, TypeOK
        <4>2. QED
          BY <1>4, <3>2, <4>1 DEF DeleteCall, crons
      <3>3. QED
        BY <3>1, <3>2
    <2>2. QED
      BY <1>1, <1>4, <2>1 DEF DeleteCall, Await, TurnInv, OneJob, TypeOK
  <1>5. QED
    BY <1>2, <1>3, <1>4 DEF Call

LEMMA RunBeginsKeepsJobs ==
    ASSUME JobsInv, NEW h \in Handlers, NEW b, RunBegins(h, b), ~raced', raced' = raced,
           up', listed',
           \A g \in Handlers : g # h => pc[g] = "idle"
    PROVE  TurnInv' /\ OneJob'
  BY StopDropsJobs DEF JobsInv, RunBegins, RunUpToTimezone, TurnInv, OneJob, TypeOK

LEMMA StepKeepsJobs ==
    ASSUME JobsInv, NEW h \in Handlers, Step(h) \/ Boot(h), ~raced'
    PROVE  TurnInv' /\ OneJob'
  <1>. USE DEF JobsInv
  <1>1. ~raced /\ raced' = raced
    BY DEF Step, EditStored, PauseStored, ResumeStored, StoreFails, DeleteRow, DeleteFails,
           RunEnds, RunFails, KeepJob, Boot
  <1>2. \A g \in Handlers : g # h => pc[g] = "idle"
    BY <1>1 DEF Step, EditStored, PauseStored, ResumeStored, StoreFails, DeleteRow, DeleteFails,
           RunEnds, RunFails, KeepJob, Boot, TurnInv
  <1>3. CASE EditStored(h) \/ ResumeStored(h)
    BY <1>1, <1>2, <1>3, RunBeginsKeepsJobs DEF EditStored, ResumeStored, TurnInv
  <1>4. CASE PauseStored(h)
    BY <1>1, <1>2, <1>4, StopDropsJobs DEF PauseStored, Await, TurnInv, OneJob, TypeOK
  <1>5. CASE StoreFails(h) \/ DeleteRow(h) \/ DeleteFails(h) \/ RunFails(h)
    BY <1>1, <1>2, <1>5
    DEF StoreFails, DeleteRow, DeleteFails, RunFails, Await, TurnInv, OneJob, TypeOK, crons
  <1>6. CASE RunEnds(h)
    BY <1>1, <1>2, <1>6, NoneAssumption DEF RunEnds, KeepJob, HeldInv, TurnInv, OneJob, TypeOK
  <1>7. CASE Boot(h)
    BY <1>1, <1>2, <1>7, RunBeginsKeepsJobs DEF Boot, TurnInv, OneJob, crons
  <1>8. QED
    BY <1>3, <1>4, <1>5, <1>6, <1>7 DEF Step

LEMMA JobsStep == JobsInv /\ TypeOK' /\ HeldInv' /\ [Next]_vars => JobsInv'
  <1>. SUFFICES ASSUME JobsInv, [Next]_vars, ~raced' PROVE TurnInv' /\ OneJob'
    BY DEF JobsInv, TurnInv, OneJob
  <1>1. CASE Tick
    BY <1>1 DEF Tick, JobsInv, TurnInv, OneJob, calls
  <1>2. CASE TimerFires
    BY <1>2 DEF TimerFires, JobsInv, TurnInv, OneJob, calls, crons
  <1>3. CASE Crash
    BY <1>3 DEF Crash, JobsInv, TurnInv, OneJob, TypeOK
  <1>4. ASSUME NEW j \in Jobs, JobFires(j)
        PROVE  TurnInv' /\ OneJob'
    BY <1>4 DEF JobFires, JobsInv, TurnInv, OneJob, calls
  <1>5. CASE UNCHANGED vars
    BY <1>5 DEF vars, JobsInv, TurnInv, OneJob, calls, crons
  <1>6. QED
    BY <1>1, <1>2, <1>3, <1>4, <1>5, CallKeepsJobs, StepKeepsJobs DEF Next

(* With calls in turn, whatever their number, stop() reaches the only job. *)
THEOREM JobsAreReachable == Spec => []OneJob
  <1>1. Init => JobsInv
    BY IInvInit DEF Init, IInv, JobsInv, TurnInv, OneJob
  <1>2. IInv => TypeOK /\ HeldInv
    BY DEF IInv
  <1>3. JobsInv => OneJob
    BY DEF JobsInv
  <1>4. QED
    BY IInvInit, IInvNext, JobsStep, <1>1, <1>2, <1>3, PTL DEF Spec

-----------------------------------------------------------------------------
(* Windows: where in a slot a unit is, and what that says of jobs and      *)
(* timers.                                                                 *)

(* The units a setting opens a slot in.                                    *)
StartOf(set) == IF set.strategy = "recurring-interval" THEN set.from ELSE 0
Opens(set, t) == StartOf(set) = 0 \/ StartOf(set) <= t
Open(set, t) == Into(set.at, t) < set.duration /\ Opens(set, t - Into(set.at, t))

HasSlots == bean.set.strategy \in {"cron", "recurring-interval"}

(* A job's pattern is that of the bean.                                    *)
Matches(pattern) ==
    /\ pattern.kind = bean.set.strategy /\ pattern.at = bean.set.at
    /\ pattern.start = StartOf(bean.set)

(* A job whose time has come is at the beginning of one of its slots.      *)
DueInv ==
    \A j \in due : /\ jobs[j] # None /\ jobs[j].kind # "single"
                   /\ Into(jobs[j].at, now) = 0 /\ Occurs(jobs[j], now)

(* Jobs are of the settings in the bean, unless these are being edited.    *)
MatchInv ==
    (\A h \in Handlers : pc[h] # "edit") =>
        /\ \A j \in Jobs : jobs[j] # None => Matches(jobs[j])
        /\ \A h \in Handlers : pc[h] = "run" => Matches(held[h])

(* The timer of an open window does not outlive the slot.                  *)
ClosesInv ==
    (\A h \in Handlers : pc[h] # "edit") /\ HasSlots /\ status = "under-maintenance"
        => \A u \in Nat : now <= u /\ u < timer => Open(bean.set, u)

(* What is active has a job.                                               *)
AliveInv ==
    /\ (\A h \in Handlers : pc[h] = "idle") /\ bean.active /\ bean.set.strategy # "manual"
          => job # None
    /\ \A h \in Handlers : pc[h] # "delete" /\ (pc[h] = "pause" => ~bean.active)

(* A slot that has begun is open, and no timer closes it before its end.   *)
SlotHasBegun ==
    /\ \A h \in Handlers : pc[h] = "idle"
    /\ bean.active /\ HasSlots /\ due = {} /\ bean.set.duration <= MaxDelay
    /\ bean.set.strategy = "recurring-interval" => bean.set.every = 1
    /\ now < bean.set.until /\ Open(bean.set, now)

OpensInv ==
    SlotHasBegun =>
        /\ status = "under-maintenance"
        /\ \/ timer >= bean.set.until
           \/ timer >= now - Into(bean.set.at, now) + bean.set.duration

Tidy == up /\ listed /\ ~torn /\ ~raced

SlotInv ==
    /\ DueInv
    /\ listed => up
    /\ Tidy => MatchInv /\ ClosesInv /\ AliveInv /\ OpensInv

-----------------------------------------------------------------------------
(* Where in a slot a unit is.                                              *)
LEMMA IntoIs ==
    ASSUME NEW at \in Int, NEW t \in Int
    PROVE  /\ Into(at, t) \in 0 .. Day - 1
           /\ \E q \in Int : t - at = q * Day + Into(at, t)
<1>1. /\ t - at = ((t - at) \div Day) * Day + ((t - at) % Day)
      /\ (t - at) \div Day \in Int
    BY TimeAssumption
<1>2. PICK q \in Int : q = (t - at) \div Day BY <1>1
<1>3. t - at = q * Day + Into(at, t) BY <1>1, <1>2 DEF Into
<1>4. Into(at, t) \in 0 .. Day - 1 BY TimeAssumption DEF Into
<1> QED BY <1>3, <1>4

LEMMA IntoIsInt ==
    ASSUME NEW at \in Int, NEW t \in Int
    PROVE  Into(at, t) \in Int /\ Into(at, t) >= 0
<1>1. Into(at, t) \in 0 .. Day - 1 /\ Day \in Int BY IntoIs, TimeAssumption
<1> QED BY <1>1

LEMMA IntoGrows ==
    ASSUME NEW at \in Int, NEW t \in Int, NEW u \in Int, t <= u
    PROVE  Into(at, u) <= Into(at, t) + (u - t)
<1>1. PICK p \in Int : t - at = p * Day + Into(at, t) BY IntoIs
<1>2. PICK q \in Int : u - at = q * Day + Into(at, u) BY IntoIs
<1>3. Into(at, t) \in 0 .. Day - 1 /\ Into(at, u) \in 0 .. Day - 1 BY IntoIs
<1>4. PICK k \in Int : k = q - p OBVIOUS
<1>5. k * Day = q * Day - p * Day BY <1>4, TimeAssumption
<1>6. CASE k >= 0
    <2>1. k * Day >= 0 BY <1>6, TimeAssumption
    <2>2. PICK x \in Int : x = p * Day BY TimeAssumption
    <2>3. PICK y \in Int : y = q * Day BY TimeAssumption
    <2>4. y >= x BY <1>5, <2>1, <2>2, <2>3
    <2> QED BY <1>1, <1>2, <1>3, <2>2, <2>3, <2>4, TimeAssumption
<1>7. CASE k <= -1
    <2>1. k * Day <= -Day BY <1>7, TimeAssumption
    <2>2. PICK x \in Int : x = p * Day BY TimeAssumption
    <2>3. PICK y \in Int : y = q * Day BY TimeAssumption
    <2>4. y - x <= -Day BY <1>5, <2>1, <2>2, <2>3
    <2> QED BY <1>1, <1>2, <1>3, <2>2, <2>3, <2>4, TimeAssumption
<1> QED BY <1>6, <1>7

LEMMA IntoNext ==
    ASSUME NEW at \in Int, NEW t \in Int, Into(at, t + 1) # 0
    PROVE  Into(at, t + 1) = Into(at, t) + 1
<1>0. PICK u \in Int : u = t + 1 OBVIOUS
<1>1. PICK p \in Int : t - at = p * Day + Into(at, t) BY IntoIs
<1>2. PICK q \in Int : u - at = q * Day + Into(at, u) BY IntoIs
<1>3. Into(at, t) \in 0 .. Day - 1 /\ Into(at, u) \in 0 .. Day - 1 BY IntoIs
<1>4. PICK k \in Int : k = q - p OBVIOUS
<1>5. k * Day = q * Day - p * Day BY <1>4, TimeAssumption
<1>6. k >= 1 => k * Day >= Day BY TimeAssumption
<1>7. k <= -1 => k * Day <= -Day BY TimeAssumption
<1>8. k = 0 => k * Day = 0 BY TimeAssumption
<1>9. PICK x \in Int : x = p * Day BY TimeAssumption
<1>10. PICK y \in Int : y = q * Day BY TimeAssumption
<1>11. PICK z \in Int : z = k * Day BY TimeAssumption
<1>12. z = y - x BY <1>5, <1>9, <1>10, <1>11
<1>13. PICK r \in 0 .. Day - 1 : r = Into(at, t) BY <1>3
<1>14. PICK s \in 0 .. Day - 1 : s = Into(at, u) BY <1>3
<1>15. r \in Int /\ s \in Int /\ Day \in Int /\ r < Day /\ s < Day /\ r >= 0 /\ s >= 0
    BY TimeAssumption
<1>16. t - at = x + r /\ u - at = y + s BY <1>1, <1>2, <1>9, <1>10, <1>13, <1>14
<1>17. z = r + 1 - s BY <1>0, <1>12, <1>15, <1>16
<1>18. s # 0 BY <1>0, <1>14
<1>19. z > -Day /\ z < Day BY <1>15, <1>17, <1>18
<1>20. k = 0 BY <1>6, <1>7, <1>11, <1>15, <1>19
<1>21. z = 0 BY <1>8, <1>11, <1>20
<1> QED BY <1>0, <1>13, <1>14, <1>15, <1>17, <1>21

LEMMA SlotGoesOn ==
    ASSUME NEW s \in Sets, NEW t \in Int, NEW u \in Int, t <= u,
           Into(s.at, t) + (u - t) < s.duration, Opens(s, t - Into(s.at, t))
    PROVE  Open(s, u)
<1>1. s.at \in Int /\ s.duration \in Int /\ StartOf(s) \in Int BY DEF Sets, StartOf
<1>2. PICK i \in Int : i = Into(s.at, t) BY <1>1, IntoIsInt
<1>3. PICK k \in Int : k = Into(s.at, u) BY <1>1, IntoIsInt
<1>4. Into(s.at, u) <= Into(s.at, t) + (u - t) BY <1>1, IntoGrows
<1>5. k <= i + (u - t) BY <1>2, <1>3, <1>4
<1>6. k < s.duration /\ t - i <= u - k BY <1>1, <1>2, <1>5
<1>7. Opens(s, u - k) BY <1>1, <1>2, <1>6 DEF Opens
<1> QED BY <1>3, <1>6, <1>7 DEF Open

(* A slot that has begun before was open a unit ago.                       *)
LEMMA SlotWasOpen ==
    ASSUME NEW s \in Sets, NEW t \in Int, Open(s, t + 1), Into(s.at, t + 1) # 0
    PROVE  Open(s, t) /\ t - Into(s.at, t) = (t + 1) - Into(s.at, t + 1)
<1>1. s.at \in Int /\ s.duration \in Int BY DEF Sets
<1>2. PICK i \in Int : i = Into(s.at, t) BY <1>1, IntoIsInt
<1>3. PICK u \in Int : u = t + 1 OBVIOUS
<1>4. PICK k \in Int : k = Into(s.at, u) BY <1>1, <1>3, IntoIsInt
<1>5. Into(s.at, t + 1) = Into(s.at, t) + 1 BY <1>1, IntoNext
<1>6. k = i + 1 BY <1>2, <1>3, <1>4, <1>5
<1>7. t - i = u - k BY <1>3, <1>6
<1>8. k < s.duration /\ Opens(s, u - k) BY <1>3, <1>4 DEF Open
<1>9. i < s.duration /\ Opens(s, t - i) BY <1>1, <1>6, <1>7, <1>8
<1> QED BY <1>2, <1>3, <1>4, <1>7, <1>9 DEF Open

LEMMA PatternOpens ==
    ASSUME NEW s \in Sets, NEW p, NEW t \in Int, p.at = s.at, p.start = StartOf(s)
    PROVE  InSlot(p, s.duration, t) <=> Open(s, t)
BY DEF InSlot, Open, Opens, Occurs

WInv == IInv /\ JobsInv /\ SlotInv

LEMMA DueKeeps ==
    ASSUME TypeOK, DueInv, [Next]_vars
    PROVE  DueInv'
<1>1. CASE Tick
    <2>1. /\ now' = now + 1 /\ jobs' = jobs
          /\ due' = {j \in Jobs : /\ jobs[j] # None /\ jobs[j].kind # "single"
                                  /\ Into(jobs[j].at, now + 1) = 0 /\ Occurs(jobs[j], now + 1)}
        BY <1>1 DEF Tick
    <2> QED BY <2>1 DEF DueInv
<1>2. ASSUME now' = now, due' \subseteq due, \A j \in due' : jobs'[j] = jobs[j]
      PROVE  DueInv'
    BY <1>2 DEF DueInv
<1>3. ASSUME stop, now' = now PROVE DueInv'
    <2>1. due' \subseteq due /\ \A j \in due' : jobs'[j] = jobs[j]
        BY <1>3 DEF stop, TypeOK
    <2> QED BY <1>2, <1>3, <2>1
<1>4. ASSUME UNCHANGED <<now, due, jobs>> PROVE DueInv'
    BY <1>2, <1>4
<1>5. CASE TimerFires \/ UNCHANGED vars
    BY <1>4, <1>5 DEF TimerFires, crons, vars
<1>6. CASE Crash BY <1>6 DEF Crash, DueInv
<1>7. ASSUME NEW j \in Jobs, JobFires(j) PROVE DueInv'
    BY <1>2, <1>7 DEF JobFires
<1>8. ASSUME NEW h \in Handlers, Call(h) PROVE DueInv'
    <2>1. CASE DeleteCall(h) BY <1>3, <1>4, <2>1 DEF DeleteCall, crons
    <2>2. CASE Add(h) \/ EditCall(h) \/ EditRejected(h) \/ PauseCall(h) \/ ResumeCall(h)
        BY <1>4, <2>2 DEF Add, EditCall, EditRejected, PauseCall, ResumeCall, SetActive, crons
    <2> QED BY <1>8, <2>1, <2>2 DEF Call
<1>9. ASSUME NEW h \in Handlers, Step(h) \/ Boot(h) PROVE DueInv'
    <2>1. CASE EditStored(h) \/ ResumeStored(h) \/ PauseStored(h)
        BY <1>3, <2>1 DEF EditStored, ResumeStored, PauseStored, RunBegins
    <2>2. CASE StoreFails(h) \/ DeleteRow(h) \/ DeleteFails(h) \/ RunFails(h)
        BY <1>4, <2>2 DEF StoreFails, DeleteRow, DeleteFails, RunFails, crons
    <2>3. CASE RunEnds(h)
        <3>1. PICK j \in Jobs : jobs[j] = None /\ jobs' = [jobs EXCEPT ![j] = held[h]]
            BY <2>3 DEF RunEnds, KeepJob
        <3>2. now' = now /\ due' = due BY <2>3 DEF RunEnds, KeepJob
        <3>3. j \notin due BY <3>1 DEF DueInv
        <3>4. \A k \in due' : jobs'[k] = jobs[k] BY <3>1, <3>2, <3>3 DEF TypeOK
        <3> QED BY <1>2, <3>2, <3>4
    <2>4. CASE Boot(h)
        BY <1>3, <1>4, <2>4 DEF Boot, RunBegins, crons
    <2> QED BY <1>9, <2>1, <2>2, <2>3, <2>4 DEF Step
<1> QED BY <1>1, <1>5, <1>6, <1>7, <1>8, <1>9 DEF Next

LEMMA ListedIsUp == (listed => up) /\ [Next]_vars => (listed => up)'
<1> SUFFICES ASSUME listed => up, [Next]_vars PROVE (listed => up)' OBVIOUS
<1>1. CASE Tick \/ TimerFires \/ Crash \/ UNCHANGED vars
    BY <1>1 DEF Tick, TimerFires, Crash, vars
<1>2. ASSUME NEW j \in Jobs, JobFires(j) PROVE (listed => up)'
    BY <1>2 DEF JobFires
<1>3. ASSUME NEW h \in Handlers, Call(h) PROVE (listed => up)'
    BY <1>3 DEF Call, Add, EditCall, EditRejected, PauseCall, ResumeCall, SetActive, DeleteCall,
       Begin
<1>4. ASSUME NEW h \in Handlers, Step(h) \/ Boot(h) PROVE (listed => up)'
    BY <1>4 DEF Step, Boot, EditStored, PauseStored, ResumeStored, StoreFails, DeleteRow,
       DeleteFails, RunEnds, RunFails, KeepJob
<1> QED BY <1>1, <1>2, <1>3, <1>4 DEF Next

-----------------------------------------------------------------------------
TidyInv == MatchInv /\ ClosesInv /\ AliveInv /\ OpensInv

(* A call that begins.                                                     *)
LEMMA CallKeepsSlots ==
    ASSUME WInv, NEW h \in Handlers, Call(h), Tidy'
    PROVE  TidyInv'
<1> USE DEF WInv
<1>0. TypeOK /\ IInv /\ JobsInv BY DEF IInv
<1>1. /\ up /\ pc[h] = "idle" /\ ~raced /\ \A g \in Handlers : pc[g] = "idle"
    BY DEF Call, Add, EditCall, EditRejected, PauseCall, ResumeCall, SetActive, DeleteCall, Begin,
       Tidy
<1>2. CASE Add(h)
    <2>1. PICK s \in Settings, a \in BOOLEAN :
             /\ bean' = NewBean(s, a)
             /\ IF s.strategy = "manual"
                THEN status' = "none" /\ UNCHANGED <<pc, held>>
                ELSE /\ Await(h, "run")
                     /\ held' = [held EXCEPT ![h] = PatternOf(s)]
                     /\ status' = IF s.strategy = "single" THEN "none" ELSE "scheduled"
        BY <1>2 DEF Add
    <2>2. bean'.set = s /\ status' # "under-maintenance" BY <2>1 DEF NewBean
    <2>3. \A j \in Jobs : jobs'[j] = None BY <1>2 DEF Add, crons
    <2>4. \A g \in Handlers : g # h => pc'[g] = "idle"
        BY <1>0, <1>1, <2>1 DEF Await, TypeOK
    <2>5. IF s.strategy = "manual" THEN pc'[h] = "idle"
          ELSE pc'[h] = "run" /\ held'[h] = PatternOf(s)
        BY <1>0, <1>1, <2>1 DEF Await, TypeOK
    <2>6. MatchInv'
        <3>1. \A g \in Handlers : pc'[g] = "run" => held'[g] = PatternOf(s)
            BY <2>4, <2>5
        <3>2. \A p : p = PatternOf(s) =>
                  p.kind = s.strategy /\ p.at = s.at /\ p.start = StartOf(s)
            BY DEF PatternOf, StartOf
        <3> QED BY <2>2, <2>3, <3>1, <3>2 DEF MatchInv, Matches
    <2>7. ClosesInv' BY <2>2 DEF ClosesInv
    <2>8. AliveInv' BY <2>2, <2>4, <2>5 DEF AliveInv
    <2>9. OpensInv'
        <3>1. HasSlots' => pc'[h] = "run" BY <2>2, <2>5 DEF HasSlots
        <3> QED BY <3>1 DEF OpensInv, SlotHasBegun
    <2> QED BY <2>6, <2>7, <2>8, <2>9 DEF TidyInv
<1>3. CASE EditCall(h)
    <2>1. pc'[h] = "edit" /\ \A g \in Handlers : g # h => pc'[g] = "idle"
        BY <1>0, <1>1, <1>3 DEF EditCall, Await, TypeOK
    <2> QED BY <2>1 DEF TidyInv, MatchInv, ClosesInv, AliveInv, OpensInv, SlotHasBegun
<1>4. CASE EditRejected(h)
    BY <1>4 DEF EditRejected, Tidy
<1>5. ASSUME NEW active \in BOOLEAN, NEW where \in {"pause", "resume"},
             SetActive(h, active, where), where = "pause" => active = FALSE
      PROVE  TidyInv'
    <2>1. /\ pc'[h] = where /\ \A g \in Handlers : g # h => pc'[g] = "idle"
          /\ bean' = [bean EXCEPT !.active = active]
          /\ UNCHANGED <<now, up, window, jobs, held, torn>> /\ listed /\ raced' = raced
        BY <1>0, <1>1, <1>5 DEF SetActive, Begin, Await, TypeOK, crons, Tidy
    <2>2. bean'.set = bean.set /\ bean'.active = active BY <1>0, <2>1 DEF TypeOK, Beans
    <2>3. MatchInv /\ ClosesInv BY <1>1, <2>1 DEF SlotInv, Tidy
    <2>4. \A g \in Handlers : pc[g] # "edit" BY <1>1
    <2>5. MatchInv'
        <3>1. \A j \in Jobs : jobs[j] # None => Matches(jobs[j]) BY <2>3, <2>4 DEF MatchInv
        <3>2. \A g \in Handlers : pc'[g] # "run" BY <2>1
        <3>3. \A p : Matches(p)' <=> Matches(p) BY <2>2 DEF Matches
        <3> QED BY <2>1, <2>2, <3>1, <3>2 DEF MatchInv, Matches
    <2>6. ClosesInv' BY <2>1, <2>2, <2>3, <2>4 DEF ClosesInv, HasSlots, window
    <2>7. AliveInv' BY <1>5, <2>1, <2>2 DEF AliveInv
    <2>8. OpensInv' BY <2>1 DEF OpensInv, SlotHasBegun
    <2> QED BY <2>5, <2>6, <2>7, <2>8 DEF TidyInv
<1>6. CASE PauseCall(h) BY <1>5, <1>6 DEF PauseCall
<1>7. CASE ResumeCall(h) BY <1>5, <1>7 DEF ResumeCall
<1>8. CASE DeleteCall(h) BY <1>8 DEF DeleteCall, Tidy
<1> QED BY <1>2, <1>3, <1>4, <1>6, <1>7, <1>8 DEF Call

(* A run() up to the time zone.                                            *)
LEMMA RunBeginsKeepsSlots ==
    ASSUME TypeOK, OneJob, ~raced, NEW h \in Handlers, \A g \in Handlers : g # h => pc[g] = "idle",
           bean' \in Beans, RunBegins(h, bean')
    PROVE  TidyInv'
<1>1. \A j \in Jobs : jobs'[j] = None BY StopDropsJobs DEF RunBegins
<1>2. \A g \in Handlers : g # h => pc'[g] = "idle"
    BY DEF RunBegins, RunUpToTimezone, TypeOK
<1>3. IF bean'.set.strategy = "manual" THEN pc'[h] = "idle"
      ELSE /\ pc'[h] = "run" /\ held'[h] = PatternOf(bean'.set)
           /\ status' = IF bean'.set.strategy = "single" THEN status ELSE "scheduled"
    BY DEF RunBegins, RunUpToTimezone, TypeOK
<1>4. MatchInv'
    <2>1. \A p, s : p = PatternOf(s) =>
              p.kind = s.strategy /\ p.at = s.at /\ p.start = StartOf(s)
        BY DEF PatternOf, StartOf
    <2>2. \A g \in Handlers : pc'[g] = "run" => held'[g] = PatternOf(bean'.set)
        BY <1>2, <1>3
    <2> QED BY <1>1, <2>1, <2>2 DEF MatchInv, Matches
<1>5. HasSlots' => status' = "scheduled" /\ pc'[h] = "run" BY <1>3 DEF HasSlots
<1>6. ClosesInv' BY <1>5 DEF ClosesInv
<1>7. AliveInv' BY <1>2, <1>3 DEF AliveInv
<1>8. OpensInv' BY <1>5 DEF OpensInv, SlotHasBegun
<1> QED BY <1>4, <1>6, <1>7, <1>8 DEF TidyInv

LEMMA FiresWithin ==
    ASSUME TypeOK, NEW d \in Int
    PROVE  /\ FiresAt(d) \in Nat
           /\ FiresAt(d) = now \/ (FiresAt(d) = now + d /\ d >= 0)
           /\ (d >= 0 /\ d <= MaxDelay) => FiresAt(d) = now + d
<1>1. now \in Nat /\ MaxDelay \in Nat BY TimeAssumption DEF TypeOK
<1>2. CASE d >= 0 /\ d <= MaxDelay
    <2>1. d \in 0 .. MaxDelay BY <1>1, <1>2
    <2>2. FiresAt(d) = now + d BY <2>1 DEF FiresAt
    <2> QED BY <1>1, <1>2, <2>2
<1>3. CASE ~(d >= 0 /\ d <= MaxDelay)
    <2>1. d \notin 0 .. MaxDelay BY <1>1, <1>3
    <2>2. FiresAt(d) = now + 0 BY <2>1 DEF FiresAt
    <2>3. FiresAt(d) = now BY <1>1, <2>2
    <2> QED BY <1>1, <1>3, <2>3
<1> QED BY <1>2, <1>3

(* A window that opens within a slot.                                      *)
LEMMA StartKeepsSlots ==
    ASSUME TypeOK, NEW cur \in Nat, NEW delay \in Int, StartEvent(cur, delay), now' = now,
           NEW s \in Sets, s = bean.set, Opens(s, now - Into(s.at, now)),
           delay <= s.duration - Into(s.at, now),
           \/ delay = s.duration - Into(s.at, now)
           \/ delay = s.until - now
    PROVE  /\ bean'.set = bean.set /\ bean'.active = bean.active
           /\ ClosesInv' /\ OpensInv'
<1>0. /\ s.at \in Int /\ s.duration \in Int /\ s.until \in Int /\ now \in Int
      /\ s.duration \in Nat /\ MaxDelay \in Int
    BY TimeAssumption DEF TypeOK, Sets
<1>1. bean'.set = s /\ bean'.active = bean.active /\ status' = "under-maintenance"
      /\ timer' = FiresAt(delay)
    BY DEF StartEvent, OpenWindow, TypeOK, Beans
<1>2. PICK i \in Int : i = Into(s.at, now) /\ i >= 0 BY <1>0, IntoIsInt
<1>3. timer' \in Nat /\ (timer' = now \/ timer' = now + delay)
    BY <1>1, FiresWithin
<1>4. ClosesInv'
    <2>1. ASSUME NEW u \in Nat, now <= u, u < timer' PROVE Open(s, u)
        <3>1. timer' = now + delay BY <1>0, <1>3, <2>1
        <3>2. i + (u - now) < s.duration BY <1>0, <1>2, <2>1, <3>1
        <3>3. u \in Int OBVIOUS
        <3> QED BY <1>0, <1>2, <2>1, <3>2, <3>3, SlotGoesOn
    <2> QED BY <1>1, <2>1 DEF ClosesInv
<1>5. OpensInv'
    <2>1. ASSUME s.duration <= MaxDelay, now < s.until, Open(s, now)
          PROVE  timer' >= s.until \/ timer' >= now - i + s.duration
        <3>1. i < s.duration BY <1>2, <2>1 DEF Open
        <3>2. delay >= 0 /\ delay <= MaxDelay BY <1>0, <1>2, <2>1, <3>1
        <3>3. timer' = now + delay BY <1>1, <3>2, FiresWithin
        <3> QED BY <1>0, <1>2, <3>3
    <2>2. SlotHasBegun' => s.duration <= MaxDelay /\ now < s.until /\ Open(s, now)
        BY <1>1 DEF SlotHasBegun
    <2> QED BY <1>1, <1>2, <2>1, <2>2 DEF OpensInv
<1> QED BY <1>1, <1>4, <1>5

LEMMA RunEndKeepsSlots ==
    ASSUME WInv, NEW h \in Handlers, RunEnds(h), Tidy, ~torn'
    PROVE  TidyInv'
<1> USE DEF WInv
<1>0. TypeOK /\ HeldInv /\ TurnInv /\ OneJob /\ ~raced BY DEF IInv, JobsInv, Tidy
<1>1. /\ pc[h] = "run" /\ UNCHANGED <<now, up, listed, due, raced>>
      /\ pc' = [pc EXCEPT ![h] = "idle"] /\ held' = [held EXCEPT ![h] = None]
    BY DEF RunEnds, KeepJob
<1>2. PICK j \in Jobs : jobs[j] = None /\ jobs' = [jobs EXCEPT ![j] = held[h]] /\ job' = j
    BY DEF RunEnds, KeepJob
<1>3. \A g \in Handlers : g # h => pc[g] = "idle" BY <1>0, <1>1 DEF TurnInv
<1>4. \A g \in Handlers : pc'[g] = "idle" BY <1>0, <1>1, <1>3 DEF TypeOK
<1>5. MatchInv /\ ClosesInv /\ Matches(held[h]) /\ held[h] \in Patterns /\ bean.set \in Sets
    BY <1>0, <1>1, <1>3 DEF SlotInv, MatchInv, TypeOK, HeldInv, Beans
<1>6. \A k \in Jobs : jobs'[k] # None => jobs'[k] = held[h]
    <2>1. job = None BY <1>0, <1>1 DEF TurnInv
    <2>2. \A k \in Jobs : jobs[k] = None BY <1>0, <2>1, NoneAssumption DEF OneJob
    <2> QED BY <1>0, <1>2, <2>2 DEF TypeOK
<1>7. job' # None BY <1>2, NoneAssumption
<1>8. ASSUME bean'.set = bean.set, bean'.active = bean.active PROVE MatchInv' /\ AliveInv'
    <2>1. \A p : Matches(p)' <=> Matches(p) BY <1>8 DEF Matches
    <2>2. MatchInv' BY <1>4, <1>5, <1>6, <2>1 DEF MatchInv, Matches
    <2>3. AliveInv' BY <1>4, <1>7 DEF AliveInv
    <2> QED BY <2>2, <2>3
<1> DEFINE s == bean.set
           inSlot == held[h].kind # "single" /\ InSlot(held[h], s.duration, now)
<1>9. InSlot(held[h], s.duration, now) <=> Open(s, now)
    <2>1. now \in Int BY <1>0 DEF TypeOK
    <2> QED BY <1>5, <2>1, PatternOpens DEF Matches
<1>10. CASE inSlot
    <2>1. StartEvent(held[h].cur, s.duration - Into(held[h].at, now))
        BY <1>10 DEF RunEnds, StartEventUnstored
    <2>2. held[h].at = s.at /\ held[h].cur \in Nat BY <1>5 DEF Matches, Patterns
    <2>3. now \in Int /\ s.at \in Int /\ s.duration \in Int BY <1>0, <1>5 DEF TypeOK, Sets
    <2>4. s.duration - Into(s.at, now) \in Int
        <3>1. PICK i \in Int : i = Into(s.at, now) BY <2>3, IntoIsInt
        <3>2. PICK d \in Int : d = s.duration BY <2>3
        <3>3. d - i \in Int OBVIOUS
        <3> QED BY <3>1, <3>2, <3>3
    <2>5. Opens(s, now - Into(s.at, now)) BY <1>9, <1>10 DEF Open
    <2>6. s.duration - Into(s.at, now) <= s.duration - Into(s.at, now) BY <2>4
    <2>7. bean'.set = bean.set /\ bean'.active = bean.active /\ ClosesInv' /\ OpensInv'
        BY <1>0, <1>1, <1>5, <2>1, <2>2, <2>4, <2>5, <2>6, StartKeepsSlots
    <2> QED BY <1>8, <2>7 DEF TidyInv
<1>11. CASE ~inSlot
    <2>1. UNCHANGED <<row, bean, window, skipped, torn>> BY <1>11 DEF RunEnds
    <2>2. MatchInv' /\ AliveInv' BY <1>8, <2>1
    <2>3. ClosesInv' BY <1>1, <1>3, <1>5, <2>1 DEF ClosesInv, HasSlots, window
    <2>4. OpensInv'
        <3>1. HasSlots => ~Open(s, now) BY <1>5, <1>9, <1>11 DEF HasSlots, Matches
        <3> QED BY <1>1, <2>1, <3>1 DEF OpensInv, SlotHasBegun, HasSlots
    <2> QED BY <2>2, <2>3, <2>4 DEF TidyInv
<1> QED BY <1>10, <1>11

(* A call that goes on, and the start of the server.                       *)
LEMMA StepKeepsSlots ==
    ASSUME WInv, TypeOK', NEW h \in Handlers, Step(h) \/ Boot(h), Tidy'
    PROVE  TidyInv'
<1> USE DEF WInv
<1>0. TypeOK /\ OneJob /\ TurnInv BY DEF IInv, JobsInv
<1>1. ~raced
    BY DEF Step, EditStored, PauseStored, ResumeStored, StoreFails, DeleteRow, DeleteFails,
       RunEnds, RunFails, KeepJob, Boot, Tidy
<1>2. \A g \in Handlers : g # h => pc[g] = "idle"
    BY <1>0, <1>1
    DEF Step, EditStored, PauseStored, ResumeStored, StoreFails, DeleteRow, DeleteFails, RunEnds,
        RunFails, KeepJob, Boot, TurnInv
<1>3. bean' \in Beans BY DEF TypeOK
<1>4. CASE EditStored(h) \/ ResumeStored(h)
    <2>1. RunBegins(h, bean') BY <1>4 DEF EditStored, ResumeStored
    <2> QED BY <1>0, <1>1, <1>2, <1>3, <2>1, RunBeginsKeepsSlots
<1>5. CASE Boot(h)
    <2>1. CASE row = None
        <3>1. ~up /\ listed' = listed BY <1>5, <2>1 DEF Boot
        <3> QED BY <3>1 DEF SlotInv, Tidy
    <2>2. CASE row # None
        <3>1. RunBegins(h, bean') BY <1>5, <2>2 DEF Boot
        <3> QED BY <1>0, <1>1, <1>2, <1>3, <3>1, RunBeginsKeepsSlots
    <2> QED BY <2>1, <2>2
<1>6. CASE PauseStored(h)
    <2>1. /\ pc[h] = "pause" /\ stop /\ Await(h, "idle")
          /\ UNCHANGED <<now, up, bean, listed, window, held, torn, raced>>
        BY <1>6 DEF PauseStored
    <2>2. Tidy /\ MatchInv /\ ClosesInv /\ AliveInv BY <2>1 DEF Tidy, SlotInv
    <2>3. ~bean.active BY <2>1, <2>2 DEF AliveInv
    <2>4. \A j \in Jobs : jobs'[j] = None BY <1>0, <1>1, <2>1, StopDropsJobs
    <2>5. \A g \in Handlers : pc'[g] = "idle" BY <1>0, <1>2, <2>1 DEF Await, TypeOK
    <2>6. MatchInv' BY <2>4, <2>5 DEF MatchInv
    <2>7. ClosesInv' BY <1>2, <2>1, <2>2 DEF ClosesInv, HasSlots, window
    <2>8. AliveInv' BY <2>1, <2>3, <2>5 DEF AliveInv
    <2>9. OpensInv' BY <2>1, <2>3 DEF OpensInv, SlotHasBegun
    <2> QED BY <2>6, <2>7, <2>8, <2>9 DEF TidyInv
<1>7. CASE StoreFails(h) \/ RunFails(h) BY <1>7 DEF StoreFails, RunFails, Tidy
<1>8. CASE DeleteRow(h) \/ DeleteFails(h)
    <2>1. CASE DeleteRow(h)
        BY <2>1 DEF DeleteRow, Tidy, SlotInv, AliveInv
    <2>2. CASE DeleteFails(h)
        BY <2>2 DEF DeleteFails, Tidy, SlotInv, AliveInv
    <2> QED BY <1>8, <2>1, <2>2
<1>9. CASE RunEnds(h)
    <2>1. ~torn
        BY <1>9 DEF RunEnds, StartEvent, StartEventUnstored, Tidy
    <2>2. Tidy /\ ~torn' BY <1>9, <2>1 DEF RunEnds, KeepJob, Tidy
    <2> QED BY <1>9, <2>2, RunEndKeepsSlots
<1> QED BY <1>4, <1>5, <1>6, <1>7, <1>8, <1>9 DEF Step

(* A unit passes: what begins with it has a job that is due.               *)
LEMMA TickKeepsSlots ==
    ASSUME WInv, Tick, Tidy
    PROVE  TidyInv'
<1> USE DEF WInv
<1>0. TypeOK /\ TurnInv /\ ~raced /\ MatchInv /\ ClosesInv /\ AliveInv /\ OpensInv
    BY DEF IInv, JobsInv, SlotInv, Tidy
<1>1. /\ Quiet /\ now' = now + 1
      /\ UNCHANGED <<bean, status, timer, job, jobs, pc, held>>
      /\ due' = {j \in Jobs : /\ jobs[j] # None /\ jobs[j].kind # "single"
                              /\ Into(jobs[j].at, now + 1) = 0 /\ Occurs(jobs[j], now + 1)}
    BY DEF Tick, window, calls
<1>2. \A h \in Handlers : pc[h] = "idle" BY <1>1 DEF Quiet
<1>3. MatchInv'
    <2>1. \A p : Matches(p)' <=> Matches(p) BY <1>1 DEF Matches
    <2> QED BY <1>0, <1>1, <2>1 DEF MatchInv, Matches
<1>4. AliveInv' BY <1>0, <1>1 DEF AliveInv
<1>5. ClosesInv'
    <2>1. now \in Int BY <1>0 DEF TypeOK
    <2>2. \A u \in Nat : now + 1 <= u => now <= u BY <2>1
    <2> QED BY <1>0, <1>1, <2>2 DEF ClosesInv, HasSlots
<1>6. OpensInv'
    <2>0. PICK s \in Sets : s = bean.set BY <1>0 DEF TypeOK, Beans
    <2>1. /\ s.at \in Int /\ s.until \in Int /\ s.duration \in Int /\ now \in Int
          /\ StartOf(s) \in Int
        BY <1>0, <2>0 DEF TypeOK, Sets, StartOf
    <2>2. SUFFICES ASSUME SlotHasBegun'
                   PROVE  /\ status = "under-maintenance"
                          /\ \/ timer >= s.until
                             \/ timer >= (now + 1) - Into(s.at, now + 1) + s.duration
        BY <1>1, <2>0 DEF OpensInv
    <2>3. /\ bean.active /\ HasSlots /\ due' = {} /\ s.duration <= MaxDelay
          /\ s.strategy = "recurring-interval" => s.every = 1
          /\ now + 1 < s.until /\ Open(s, now + 1)
        BY <1>1, <2>0, <2>2 DEF SlotHasBegun, HasSlots
    <2>4. Into(s.at, now + 1) # 0
        <3>1. SUFFICES ASSUME Into(s.at, now + 1) = 0 PROVE FALSE OBVIOUS
        <3>2. job # None /\ job \in Jobs /\ jobs[job] # None
            BY <1>0, <1>2, <2>3 DEF AliveInv, HasSlots, TurnInv, TypeOK
        <3>3. Matches(jobs[job]) BY <1>0, <1>2, <3>2 DEF MatchInv
        <3>4. /\ jobs[job].kind # "single" /\ jobs[job].at = s.at
              /\ jobs[job].start = StartOf(s)
            BY <2>0, <2>3, <3>3 DEF Matches, HasSlots
        <3>5. Opens(s, now + 1)
            <4>1. (now + 1) - Into(s.at, now + 1) = now + 1 BY <2>1, <3>1
            <4> QED BY <2>3, <4>1 DEF Open
        <3>6. Occurs(jobs[job], now + 1) BY <3>4, <3>5 DEF Occurs, Opens
        <3> QED BY <1>1, <2>3, <3>1, <3>2, <3>4, <3>6
    <2>5. Open(s, now) /\ now - Into(s.at, now) = (now + 1) - Into(s.at, now + 1)
        BY <2>0, <2>1, <2>3, <2>4, SlotWasOpen
    <2>6. now < s.until BY <2>1, <2>3
    <2>7. SlotHasBegun BY <1>1, <1>2, <2>0, <2>3, <2>5, <2>6 DEF SlotHasBegun, Quiet
    <2>8. /\ status = "under-maintenance"
          /\ timer >= s.until \/ timer >= now - Into(s.at, now) + s.duration
        BY <1>0, <2>0, <2>7 DEF OpensInv
    <2> QED BY <2>5, <2>8
<1> QED BY <1>3, <1>4, <1>5, <1>6 DEF TidyInv

(* A job opens its window at the beginning of a slot, unless it is passed  *)
(* over.                                                                   *)
LEMMA JobKeepsSlots ==
    ASSUME WInv, NEW j \in Jobs, JobFires(j), Tidy, ~torn'
    PROVE  TidyInv'
<1> USE DEF WInv
<1>0. TypeOK /\ MatchInv /\ ClosesInv /\ AliveInv BY DEF IInv, SlotInv, Tidy
<1>1. UNCHANGED <<now, job, jobs, pc, held>> BY DEF JobFires
<1>2. /\ jobs[j] # None /\ jobs[j].kind # "single" /\ jobs[j].cur \in Nat
      /\ Into(jobs[j].at, now) = 0 /\ Occurs(jobs[j], now)
    BY <1>0 DEF JobFires, SlotInv, DueInv, TypeOK, Patterns
<1>3. PICK s \in Sets : s = bean.set BY <1>0 DEF TypeOK, Beans
<1>4. /\ bean'.set = bean.set /\ bean'.active = bean.active
      /\ \/ TooEarly(jobs[j]) /\ UNCHANGED <<status, timer>>
         \/ StartEvent(jobs[j].cur, inferDuration(s, now))
    BY <1>0, <1>3
    DEF JobFires, StartEvent, StartEventUnstored, OpenWindow, TypeOK, Beans, window
<1>5. MatchInv'
    <2>1. \A p : Matches(p)' <=> Matches(p) BY <1>4 DEF Matches
    <2> QED BY <1>0, <1>1, <2>1 DEF MatchInv, Matches
<1>6. AliveInv' BY <1>0, <1>1, <1>4 DEF AliveInv
<1>7. ClosesInv' /\ OpensInv'
    <2>1. CASE \E h \in Handlers : pc[h] = "edit"
        BY <1>1, <2>1 DEF ClosesInv, OpensInv, SlotHasBegun
    <2>2. CASE \A h \in Handlers : pc[h] # "edit"
        <3>1. /\ jobs[j].kind = s.strategy /\ jobs[j].at = s.at /\ jobs[j].start = StartOf(s)
            BY <1>0, <1>2, <1>3, <2>2 DEF MatchInv, Matches
        <3>2. CASE TooEarly(jobs[j]) /\ UNCHANGED <<status, timer>>
            <4>1. ClosesInv' BY <1>0, <1>1, <1>4, <3>2 DEF ClosesInv, HasSlots
            <4>2. s.strategy = "recurring-interval" /\ s.every # 1
                BY <1>3, <3>1, <3>2 DEF TooEarly
            <4>3. ~SlotHasBegun' BY <1>3, <1>4, <4>2 DEF SlotHasBegun
            <4> QED BY <4>1, <4>3 DEF OpensInv
        <3>3. CASE StartEvent(jobs[j].cur, inferDuration(s, now))
            <4>1. s.duration \in Int /\ s.until \in Int /\ now \in Int
                BY <1>0 DEF TypeOK, Sets
            <4>2. PICK d \in Int : d = inferDuration(s, now)
                BY <4>1 DEF inferDuration
            <4>3. Into(s.at, now) = 0 BY <1>2, <3>1
            <4>4. /\ d <= s.duration - Into(s.at, now)
                  /\ d = s.duration - Into(s.at, now) \/ d = s.until - now
                BY <4>1, <4>2, <4>3 DEF inferDuration
            <4>5. now - Into(s.at, now) = now BY <4>1, <4>3
            <4>6. Opens(s, now - Into(s.at, now))
                BY <1>2, <3>1, <4>5 DEF Occurs, Opens
            <4> QED BY <1>0, <1>1, <1>2, <1>3, <3>3, <4>2, <4>4, <4>6, StartKeepsSlots
        <3> QED BY <1>4, <3>2, <3>3
    <2> QED BY <2>1, <2>2
<1> QED BY <1>5, <1>6, <1>7 DEF TidyInv

(* A timer that fires does so after the end of its slot.                   *)
LEMMA TimerKeepsSlots ==
    ASSUME WInv, TimerFires, Tidy
    PROVE  TidyInv'
<1> USE DEF WInv
<1>0. TypeOK /\ MatchInv /\ AliveInv /\ OpensInv BY DEF IInv, SlotInv, Tidy
<1>1. /\ timer # None /\ timer <= now /\ status' = "scheduled" /\ timer' = None
      /\ UNCHANGED <<now, bean, job, jobs, due, pc, held>>
    BY DEF TimerFires, TimerDue, calls, crons
<1>2. MatchInv'
    <2>1. \A p : Matches(p)' <=> Matches(p) BY <1>1 DEF Matches
    <2> QED BY <1>0, <1>1, <2>1 DEF MatchInv, Matches
<1>3. AliveInv' BY <1>0, <1>1 DEF AliveInv
<1>4. ClosesInv' BY <1>1 DEF ClosesInv
<1>5. ~SlotHasBegun'
    <2>1. SUFFICES ASSUME SlotHasBegun PROVE FALSE
        BY <1>1 DEF SlotHasBegun, HasSlots
    <2>2. PICK s \in Sets : s = bean.set BY <1>0 DEF TypeOK, Beans
    <2>3. /\ s.at \in Int /\ s.until \in Int /\ s.duration \in Int /\ now \in Int
          /\ timer \in Int
        BY <1>0, <1>1 DEF TypeOK, Sets
    <2>4. now < s.until /\ Into(s.at, now) < s.duration
        BY <2>1, <2>2 DEF SlotHasBegun, Open
    <2>5. timer >= s.until \/ timer >= now - Into(s.at, now) + s.duration
        BY <1>0, <2>1, <2>2 DEF OpensInv
    <2>6. PICK i \in Int : i = Into(s.at, now) BY <2>3, IntoIsInt
    <2> QED BY <1>1, <2>3, <2>4, <2>5, <2>6
<1> QED BY <1>2, <1>3, <1>4, <1>5 DEF TidyInv, OpensInv

LEMMA SlotStep == WInv /\ [Next]_vars => WInv'
<1> SUFFICES ASSUME WInv, [Next]_vars PROVE WInv' OBVIOUS
<1>1. IInv' /\ JobsInv' /\ TypeOK'
    BY IInvNext, JobsStep DEF WInv, IInv
<1>2. DueInv' /\ (listed => up)'
    BY DueKeeps, ListedIsUp DEF WInv, IInv, SlotInv
<1>3. ASSUME Tidy' PROVE TidyInv'
    <2>1. CASE Tick
        <3>1. Tidy BY <1>3, <2>1 DEF Tick, Tidy, calls
        <3> QED BY <2>1, <3>1, TickKeepsSlots
    <2>2. CASE TimerFires
        <3>1. Tidy BY <1>3, <2>2 DEF TimerFires, Tidy, calls
        <3> QED BY <2>2, <3>1, TimerKeepsSlots
    <2>3. CASE Crash BY <1>3, <2>3 DEF Crash, Tidy
    <2>4. ASSUME NEW j \in Jobs, JobFires(j) PROVE TidyInv'
        <3>1. ~torn /\ ~torn'
            BY <1>3, <2>4 DEF JobFires, StartEvent, StartEventUnstored, Tidy
        <3>2. Tidy BY <1>3, <2>4, <3>1 DEF JobFires, Tidy
        <3> QED BY <2>4, <3>1, <3>2, JobKeepsSlots
    <2>5. CASE UNCHANGED vars
        <3>1. /\ UNCHANGED <<now, up, bean, listed, status, timer, job, jobs, due, pc, held, torn,
                             raced>>
            BY <2>5 DEF vars, window, crons, calls
        <3>2. MatchInv /\ ClosesInv /\ AliveInv /\ OpensInv
            BY <1>3, <3>1 DEF WInv, SlotInv, Tidy
        <3>3. MatchInv' BY <3>1, <3>2 DEF MatchInv, Matches
        <3>4. ClosesInv' BY <3>1, <3>2 DEF ClosesInv, HasSlots
        <3>5. AliveInv' BY <3>1, <3>2 DEF AliveInv
        <3>6. OpensInv' BY <3>1, <3>2 DEF OpensInv, SlotHasBegun, HasSlots
        <3> QED BY <3>3, <3>4, <3>5, <3>6 DEF TidyInv
    <2>6. ASSUME NEW h \in Handlers, Call(h) PROVE TidyInv'
        BY <1>3, <2>6, CallKeepsSlots
    <2>7. ASSUME NEW h \in Handlers, Step(h) \/ Boot(h) PROVE TidyInv'
        BY <1>1, <1>3, <2>7, StepKeepsSlots
    <2> QED BY <2>1, <2>2, <2>3, <2>4, <2>5, <2>6, <2>7 DEF Next
<1> QED BY <1>1, <1>2, <1>3 DEF WInv, SlotInv, TidyInv

LEMMA SlotInit == Init => WInv
<1> SUFFICES ASSUME Init PROVE WInv OBVIOUS
<1>1. IInv BY IInvInit
<1>2. JobsInv BY <1>1 DEF Init, IInv, JobsInv, TurnInv, OneJob
<1>3. SlotInv BY DEF Init, SlotInv, DueInv, Tidy
<1> QED BY <1>1, <1>2, <1>3 DEF WInv

LEMMA SlotsAreExact == WInv => WindowExact
<1> SUFFICES ASSUME WInv, Orderly PROVE WindowExact BY DEF WindowExact
<1> USE DEF WInv
<1>0. TypeOK /\ OpenWindowHasTimer /\ ClosesInv /\ OpensInv
    BY DEF IInv, SlotInv, Tidy, Orderly
<1>1. due = {} /\ ~TimerDue /\ \A h \in Handlers : pc[h] = "idle"
    BY DEF Orderly, Quiet
<1>2. PICK s \in Sets : s = bean.set BY <1>0 DEF TypeOK, Beans
<1>3. now \in Nat /\ now \in Int BY <1>0 DEF TypeOK
<1>4. s.strategy \in Strategies /\ s.from \in Int /\ s.until \in Int BY DEF Sets
<1>5. CASE HasSlots
    <2>1. s.strategy \in {"cron", "recurring-interval"} BY <1>2, <1>5 DEF HasSlots
    <2>2. InSlot(PatternOf(s), s.duration, now) <=> Open(s, now)
        <3>1. PatternOf(s).at = s.at /\ PatternOf(s).start = StartOf(s)
            BY DEF PatternOf, StartOf
        <3> QED BY <1>3, <3>1, PatternOpens
    <2>3. isUnderMaintenance <=>
              /\ bean.active /\ s.from <= now /\ now < s.until
              /\ status = "under-maintenance"
        BY <1>2, <1>3, <1>4, <2>1 DEF isUnderMaintenance, getStatus
    <2>4. Promised <=> bean.active /\ s.from <= now /\ now < s.until /\ Open(s, now)
        BY <1>2, <2>1, <2>2 DEF Promised
    <2>5. status = "under-maintenance" => Open(s, now)
        <3>1. SUFFICES ASSUME status = "under-maintenance" PROVE Open(s, now) OBVIOUS
        <3>2. timer \in Nat /\ ~(timer <= now)
            BY <1>0, <1>1, <3>1 DEF OpenWindowHasTimer, TimerDue, TypeOK
        <3>3. now <= now /\ now < timer BY <1>3, <3>2
        <3> QED BY <1>0, <1>1, <1>2, <1>3, <1>5, <3>1, <3>3 DEF ClosesInv
    <2>6. ASSUME Promised, s.duration <= MaxDelay,
                 s.strategy = "recurring-interval" => s.every = 1
          PROVE  status = "under-maintenance"
        <3>1. SlotHasBegun BY <1>1, <1>2, <1>5, <2>4, <2>6 DEF SlotHasBegun
        <3> QED BY <1>0, <3>1 DEF OpensInv
    <2> QED BY <1>2, <2>3, <2>4, <2>5, <2>6 DEF WindowExact
<1>6. CASE ~HasSlots
    <2>1. s.strategy \in {"manual", "single"}
        BY <1>2, <1>4, <1>6 DEF HasSlots, Strategies
    <2>2. isUnderMaintenance <=> Promised
        BY <1>2, <1>3, <1>4, <2>1 DEF isUnderMaintenance, getStatus, Promised
    <2> QED BY <2>2 DEF WindowExact
<1> QED BY <1>5, <1>6

(* WindowExact of maintenance.js's run(), startEvent() and getStatus(),    *)
(* for any settings: a maintenance whose calls took turns and did not fail *)
(* is under way inside the slots its client asked for, and only there.     *)
THEOREM WindowsAreExact == Spec => []WindowExact
<1> QED BY SlotInit, SlotStep, SlotsAreExact, PTL DEF Spec
=============================================================================
