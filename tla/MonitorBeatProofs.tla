-------------------------- MODULE MonitorBeatProofs --------------------------
(***************************************************************************)
(* The safety properties of MonitorBeat for every set of settings, every   *)
(* cap and every combination of faults, and that the runner implements     *)
(* AlertFeed.                                                              *)
(***************************************************************************)
EXTENDS MonitorBeat, TLAPS

(* beat() is under way and has read what the table said. *)
Underway == pc \in {"window", "probe", "notify", "uptime", "store"}

(* The closure mirrors the table except while a stored beat is forwarded,  *)
(* and a runner without a previous beat reads one before anything else.    *)
ClosureInv ==
    /\ pc \in {"off", "read"} => prev = NoBeat
    /\ Underway => prev = table
    /\ pc = "timer" /\ prev # NoBeat => prev = table
    /\ pc = "forward" => beat = table
    /\ Decided => beat.status \in Statuses /\ beat.retries = retries

(* No retry counter, in memory or stored, exceeds the failures it counts.  *)
RetryInv ==
    /\ retries <= fails
    /\ table.retries <= fails
    /\ DownOnlyAfterRetries

(* What has to be announced has been once the notification is behind us.   *)
AnnounceInv ==
    /\ pc \in {"uptime", "store"} /\ IsNotified(table.status, beat.status)
          => beat.status \in announced
    /\ pc = "notify" =>
          \/ IsNotified(table.status, beat.status)
          \/ table.status = DOWN /\ beat.status = DOWN

(* The stored downCount bounds the silent DOWN rows behind it.             *)
ReminderInv ==
    /\ quiet <= table.downCount
    /\ pc \in {"uptime", "store"} /\ beat.status = DOWN /\ DOWN \notin announced
         /\ mon.resendInterval > 0
          => beat.downCount = table.downCount + 1 /\ beat.downCount < mon.resendInterval
    /\ ReminderInTime

IInv == TypeOK /\ ClosureInv /\ RetryInv /\ AnnounceInv /\ ReminderInv

-----------------------------------------------------------------------------
LEMMA ConfigFields ==
    ASSUME NEW m \in Configs
    PROVE  /\ m.maxretries \in 0 .. Cap - 1
           /\ m.resendInterval \in Nat
           /\ m.upsideDown \in BOOLEAN
           /\ m.codeOnly \in BOOLEAN
           /\ Cap \in Nat \ {0}
  BY ConfigsAssumption, CapAssumption

(* Every outcome of a check leaves one of the four statuses.               *)
LEMMA StatusAfterType ==
    ASSUME NEW m \in Configs, NEW r \in Counters, NEW o \in Outcomes
    PROVE  StatusAfter(m, r, o) \in Statuses
  <1>1. StatusBeforeCatch(m, o) \in Statuses
    BY DEF StatusBeforeCatch, StatusSetBy, Oriented, FlipStatus, Outcomes,
           Statuses, UP, DOWN, PENDING, MAINTENANCE
  <1>2. QED
    BY <1>1 DEF StatusAfter, Statuses, PENDING

LEMMA RetriesAfterType ==
    ASSUME NEW m \in Configs, NEW r \in Counters, NEW o \in Outcomes
    PROVE  RetriesAfter(m, r, o, Cap) \in Counters
  BY CapAssumption DEF RetriesAfter, Counters

(* The count of failures a failed check leaves behind covers the retries.  *)
LEMMA RetriesAreFailures ==
    ASSUME NEW m \in Configs, NEW o \in Outcomes,
           NEW r \in Counters, NEW f \in Counters, NEW g \in Counters,
           r <= f,
           g = IF ResetsRetries(m, o) \/ f = Cap THEN f ELSE f + 1
    PROVE  /\ f <= g
           /\ RetriesAfter(m, r, o, Cap) <= g
           /\ StatusAfter(m, r, o) = DOWN /\ RetriesAfter(m, r, o, Cap) > 0
                => g > m.maxretries
  <1>1. m.maxretries \in 0 .. Cap - 1 /\ Cap \in Nat \ {0}
    BY ConfigFields
  <1>2. f <= g /\ RetriesAfter(m, r, o, Cap) <= g
    BY <1>1 DEF RetriesAfter, Counters
  <1>3. ASSUME StatusAfter(m, r, o) = DOWN, RetriesAfter(m, r, o, Cap) > 0
        PROVE  g > m.maxretries
    <2>1. ~ResetsRetries(m, o)
      BY <1>3 DEF RetriesAfter
    <2>2. ~RetriesAvailable(m, r)
      BY <1>3, <2>1 DEF StatusAfter, PENDING, DOWN
    <2>3. QED
      BY <1>1, <2>1, <2>2 DEF RetriesAvailable, Counters
  <1>4. QED
    BY <1>2, <1>3

-----------------------------------------------------------------------------
(* Decide() keeps the invariant whenever the new counter is covered.       *)
LEMMA DecideStep ==
    ASSUME IInv, pc \in {"window", "probe"},
           NEW s \in Statuses, NEW r \in Counters, Decide(s, r),
           fails' \in Counters, fails <= fails', r <= fails',
           s = DOWN /\ r > 0 => fails' > mon.maxretries,
           UNCHANGED <<mon, prev, table, world, announced, told, quiet>>
    PROVE  IInv'
  <1>1. mon.resendInterval \in Nat
    BY ConfigFields DEF IInv, TypeOK
  <1>2. /\ mon' = mon /\ prev' = prev /\ table' = table /\ window' = window
        /\ service' = service /\ announced' = announced /\ told' = told
        /\ quiet' = quiet
    BY DEF world
  <1>3. /\ beat' = [status |-> s, retries |-> r, downCount |-> beat'.downCount]
        /\ beat'.status = s /\ beat'.retries = r /\ retries' = r
        /\ pc' \in {"notify", "uptime"}
    BY DEF Decide
  <1>4. prev = table /\ prev.downCount \in Nat
    BY DEF IInv, ClosureInv, Underway, TypeOK, BeatRows, NoBeat
  <1>5. beat'.downCount \in Nat
    BY <1>4 DEF Decide, DownCountAfterQuietBeat
  <1>6. TypeOK'
    BY <1>2, <1>3, <1>5 DEF IInv, TypeOK, BeatRows, Counters
  <1>7. ClosureInv'
    BY <1>2, <1>3, <1>4 DEF ClosureInv, Underway, Decided
  <1>8. RetryInv'
    BY <1>2, <1>3 DEF IInv, RetryInv, DownOnlyAfterRetries, Decided, TypeOK, BeatRows,
                      NoBeat, Counters
  <1>9. AnnounceInv'
    <2>1. pc' = "uptime" => ~IsNotified(table.status, s)
      BY <1>4 DEF Decide, IsNotified, IsImportantForNotification, IsImportantBeat,
                  NONE, UP, DOWN, PENDING, MAINTENANCE
    <2>2. pc' = "notify" => IsNotified(table.status, s) \/ (s = DOWN /\ table.status = DOWN)
      <3>1. SUFFICES ASSUME pc' = "notify", ~IsNotified(table.status, s)
                     PROVE  s = DOWN /\ table.status = DOWN
        OBVIOUS
      <3>2. s = DOWN /\ ~IsImportantBeat(table.status, s)
        BY <1>4, <3>1 DEF Decide
      <3>3. table.status \in Statuses \cup {NONE}
        BY DEF IInv, TypeOK, BeatRows, NoBeat
      <3>4. QED
        BY <3>2, <3>3 DEF IsImportantBeat, Statuses, NONE, UP, DOWN, PENDING, MAINTENANCE
    <2>3. QED
      BY <1>2, <1>3, <2>1, <2>2 DEF AnnounceInv
  <1>10. ReminderInv'
    <2>1. ASSUME pc' = "uptime", s = DOWN, mon.resendInterval > 0
          PROVE  /\ beat'.downCount = table.downCount + 1
                 /\ beat'.downCount < mon.resendInterval
      <3>1. IsImportantBeat(prev.status, s) => IsNotified(prev.status, s)
        BY <2>1 DEF IsNotified, SendsNotification, IsImportantBeat,
                    IsImportantForNotification, NONE, UP, DOWN, PENDING, MAINTENANCE
      <3>2. ~IsImportantBeat(prev.status, s) /\ ~ResendDue(mon, prev.downCount)
        BY <2>1, <3>1 DEF Decide
      <3>3. beat'.downCount = prev.downCount + 1
        BY <2>1, <3>2 DEF Decide, DownCountAfterQuietBeat
      <3>4. QED
        BY <1>1, <1>4, <2>1, <3>2, <3>3 DEF ResendDue
    <2>2. QED
      BY <1>2, <1>3, <2>1 DEF IInv, ReminderInv, ReminderInTime
  <1>11. QED
    BY <1>6, <1>7, <1>8, <1>9, <1>10 DEF IInv

LEMMA InitIInv == Init => IInv
  <1> SUFFICES ASSUME Init PROVE IInv
    OBVIOUS
  <1>1. TypeOK
    <2>1. 0 \in Counters
      BY CapAssumption DEF Counters
    <2>2. QED
      BY <2>1 DEF Init, TypeOK
  <1>2. QED
    BY <1>1 DEF Init, IInv, ClosureInv, RetryInv, AnnounceInv, ReminderInv, Underway,
             Decided, DownOnlyAfterRetries, ReminderInTime, NoBeat

(* The invariant is inductive: one step per action.                        *)
LEMMA NextIInv == IInv /\ [Next]_vars => IInv'
  <1> SUFFICES ASSUME IInv, [Next]_vars PROVE IInv'
    OBVIOUS
  <1> USE CapAssumption DEF world, history, Counters
  <1>1. ASSUME NEW m \in Configs, Start(m) PROVE IInv'
    BY <1>1 DEF Start, IInv, TypeOK, ClosureInv, RetryInv, AnnounceInv, ReminderInv,
                Underway, Decided, DownOnlyAfterRetries, ReminderInTime
  <1>2. CASE Timer
    BY <1>2 DEF Timer, IInv, TypeOK, ClosureInv, RetryInv, AnnounceInv, ReminderInv,
                Underway, Decided, DownOnlyAfterRetries, ReminderInTime
  <1>3. CASE ReadPrevious
    <2>1. table.retries \in Counters
      BY DEF IInv, TypeOK, BeatRows, NoBeat
    <2>2. QED
      BY <1>3, <2>1 DEF ReadPrevious, IInv, TypeOK, ClosureInv, RetryInv, AnnounceInv,
                        ReminderInv, Underway, Decided, DownOnlyAfterRetries,
                        ReminderInTime
  <1>4. CASE EnterMaintenance
    <2>1. /\ pc \in {"window", "probe"} /\ Decide(MAINTENANCE, 0) /\ fails' = fails
          /\ UNCHANGED <<mon, prev, table, world, announced, told, quiet>>
      BY <1>4 DEF EnterMaintenance
    <2>2. 0 \in Counters /\ MAINTENANCE \in Statuses /\ fails \in Counters
      BY DEF IInv, TypeOK, Statuses
    <2>3. QED
      BY <2>1, <2>2, DecideStep
  <1>5. CASE BeginCheck
    BY <1>5 DEF BeginCheck, IInv, TypeOK, ClosureInv, RetryInv, AnnounceInv, ReminderInv,
                Underway, Decided, DownOnlyAfterRetries, ReminderInTime
  <1>6. ASSUME NEW o \in Outcomes, pc \in {"window", "probe"},
               Decide(StatusAfter(mon, retries, o), RetriesAfter(mon, retries, o, Cap)),
               fails' = IF ResetsRetries(mon, o) \/ fails = Cap THEN fails ELSE fails + 1,
               UNCHANGED <<mon, prev, table, world, announced, told, quiet>>
        PROVE  IInv'
    <2>1. mon \in Configs /\ retries \in Counters /\ fails \in Counters /\ retries <= fails
      BY DEF IInv, TypeOK, RetryInv
    <2>2. /\ StatusAfter(mon, retries, o) \in Statuses
          /\ RetriesAfter(mon, retries, o, Cap) \in Counters
      BY <2>1, StatusAfterType, RetriesAfterType
    <2>3. fails' \in Counters
      BY <1>6, <2>1
    <2>4. /\ fails <= fails'
          /\ RetriesAfter(mon, retries, o, Cap) <= fails'
          /\ StatusAfter(mon, retries, o) = DOWN /\ RetriesAfter(mon, retries, o, Cap) > 0
               => fails' > mon.maxretries
      BY <1>6, <2>1, <2>3, RetriesAreFailures
    <2>5. QED
      BY <1>6, <2>2, <2>3, <2>4, DecideStep
  <1>7. ASSUME NEW o \in Outcomes, Check(o) PROVE IInv'
    BY <1>6, <1>7 DEF Check
  <1>8. CASE WindowLookupFails
    BY <1>6, <1>8 DEF WindowLookupFails, Outcomes
  <1>9. CASE Notify
    <2>1. beat.status \in {UP, DOWN}
      BY <1>9 DEF Notify, IInv, AnnounceInv, IsNotified, IsImportantForNotification,
                  SendsNotification, ClosureInv, Decided, Statuses, NONE, UP, DOWN,
                  PENDING, MAINTENANCE
    <2>2. TypeOK'
      BY <1>9, <2>1 DEF Notify, IInv, TypeOK
    <2>3. table.downCount \in Nat
      BY DEF IInv, TypeOK, BeatRows, NoBeat
    <2>4. QED
      BY <1>9, <2>2, <2>3 DEF Notify, IInv, ClosureInv, RetryInv, AnnounceInv, ReminderInv,
                        Underway, Decided, DownOnlyAfterRetries, ReminderInTime
  <1>10. CASE UpdateUptime
    BY <1>10 DEF UpdateUptime, IInv, TypeOK, ClosureInv, RetryInv, AnnounceInv, ReminderInv,
                 Underway, Decided, DownOnlyAfterRetries, ReminderInTime
  <1>11. CASE Store
    <2>1. /\ mon.resendInterval \in Nat /\ quiet \in Nat /\ fails \in Nat
          /\ table.downCount \in Nat /\ beat \in BeatRows(Counters)
      BY <1>11, ConfigFields DEF Store, IInv, TypeOK, BeatRows, NoBeat, ClosureInv, Decided,
                                 Statuses, NONE, UP, DOWN, PENDING, MAINTENANCE
    <2>2. beat.downCount \in Nat /\ beat.retries \in Counters
      BY <2>1 DEF BeatRows
    <2>3. TypeOK'
      BY <1>11, <2>1 DEF Store, IInv, TypeOK
    <2>4. ClosureInv'
      BY <1>11 DEF Store, ClosureInv, Underway, Decided
    <2>5. RetryInv'
      BY <1>11, <2>1, <2>2 DEF Store, IInv, RetryInv, ClosureInv, Decided,
                               DownOnlyAfterRetries
    <2>6. AnnounceInv'
      BY <1>11 DEF Store, AnnounceInv
    <2>7. ReminderInv'
      BY <1>11, <2>1, <2>2 DEF Store, IInv, ReminderInv, ReminderInTime
    <2>8. QED
      BY <2>3, <2>4, <2>5, <2>6, <2>7 DEF IInv
  <1>12. CASE Forward
    BY <1>12 DEF Forward, IInv, TypeOK, ClosureInv, RetryInv, AnnounceInv, ReminderInv,
                 Underway, Decided, DownOnlyAfterRetries, ReminderInTime
  <1>13. CASE DatabaseFails
    BY <1>13 DEF DatabaseFails, IInv, TypeOK, ClosureInv, RetryInv, AnnounceInv, ReminderInv,
                 Underway, Decided, DownOnlyAfterRetries, ReminderInTime
  <1>14. CASE Halt
    BY <1>14 DEF Halt, IInv, TypeOK, ClosureInv, RetryInv, AnnounceInv, ReminderInv,
                 Underway, Decided, DownOnlyAfterRetries, ReminderInTime
  <1>15. CASE WindowChanges
    BY <1>15 DEF WindowChanges, closure, IInv, TypeOK, ClosureInv, RetryInv, AnnounceInv,
                 ReminderInv, Underway, Decided, DownOnlyAfterRetries, ReminderInTime
  <1>16. CASE ServiceChanges
    BY <1>16 DEF ServiceChanges, closure, IInv, TypeOK, ClosureInv, RetryInv, AnnounceInv,
                 ReminderInv, Underway, Decided, DownOnlyAfterRetries, ReminderInTime
  <1>17. CASE UNCHANGED vars
    BY <1>17 DEF vars, closure, IInv, TypeOK, ClosureInv, RetryInv, AnnounceInv, ReminderInv,
                 Underway, Decided, DownOnlyAfterRetries, ReminderInTime
  <1>18. QED
    BY <1>1, <1>2, <1>3, <1>4, <1>5, <1>7, <1>8, <1>9, <1>10, <1>11, <1>12, <1>13, <1>14,
       <1>15, <1>16, <1>17 DEF Next

LEMMA Inductive == Spec => []IInv
  BY InitIInv, NextIInv, PTL DEF Spec

-----------------------------------------------------------------------------
(* Every variable keeps its type.                                          *)
THEOREM TypeCorrect == Spec => []TypeOK
  BY Inductive, PTL DEF IInv

(* A beat the retry rules apply to is DOWN only after more than maxretries *)
(* failed checks, through crashes, refused statements and edits.           *)
THEOREM RetriesExhausted == Spec => []DownOnlyAfterRetries
  BY Inductive, PTL DEF IInv, RetryInv

(* Reminders of a standing DOWN are never later than resendInterval rows.  *)
THEOREM RemindersKeepPace == Spec => []ReminderInTime
  BY Inductive, PTL DEF IInv, ReminderInv

(* While a beat is judged, the closure's previous beat is the newest row.  *)
THEOREM JudgedAgainstNewest == Spec => []PreviousIsNewest
  <1>1. IInv => PreviousIsNewest
    BY DEF IInv, TypeOK, ClosureInv, PreviousIsNewest, Underway
  <1>2. QED
    BY <1>1, Inductive, PTL

-----------------------------------------------------------------------------
NoTcp == \A m \in Configs : m.type # "tcp"

(* A beat that is UP carries no counted failure, decided or recorded.      *)
UpInv ==
    /\ NoTcp
    /\ Decided /\ beat.status = UP => beat.retries = 0
    /\ FailureIsNotUp

(* Only tcp sets UP before it can still throw: every other check that ends *)
(* UP resets the retries.                                                  *)
LEMMA UpResets ==
    ASSUME NEW m \in Configs, NEW r \in Counters, NEW o \in Outcomes, o # "late",
           StatusAfter(m, r, o) = UP
    PROVE  RetriesAfter(m, r, o, Cap) = 0
  <1>1. StatusBeforeCatch(m, o) = UP
    BY DEF StatusAfter, UP, PENDING
  <1>2. ResetsRetries(m, o)
    BY <1>1 DEF Outcomes, ResetsRetries, ReachesCatch, Threw, StatusBeforeCatch, StatusSetBy,
                Oriented, FlipStatus, UP, DOWN, PENDING
  <1>3. QED
    BY <1>2 DEF RetriesAfter

(* Where no monitor can be of type tcp, no failure is recorded as UP: the  *)
(* disagreement the run of a tcp monitor finds is that type's alone.       *)
THEOREM OnlyTcpRecordsFailuresUp == Spec /\ NoTcp => []FailureIsNotUp
  <1>1. Init /\ NoTcp => UpInv
    BY DEF Init, UpInv, Decided, FailureIsNotUp, NoBeat
  <1>2. IInv /\ UpInv /\ [Next]_vars => UpInv'
    <2> SUFFICES ASSUME IInv, UpInv, [Next]_vars PROVE UpInv'
      OBVIOUS
    <2>1. ASSUME NEW s \in Statuses, NEW r \in Counters, Decide(s, r), s = UP => r = 0,
                 table' = table
          PROVE  UpInv'
      BY <2>1 DEF Decide, UpInv, FailureIsNotUp
    <2>2. CASE EnterMaintenance
      <3>1. MAINTENANCE \in Statuses /\ MAINTENANCE # UP /\ 0 \in Counters
        BY CapAssumption DEF Statuses, MAINTENANCE, UP, Counters
      <3>2. QED
        BY <2>1, <2>2, <3>1 DEF EnterMaintenance
    <2>3. ASSUME NEW o \in Outcomes, o # "late", table' = table,
                 Decide(StatusAfter(mon, retries, o), RetriesAfter(mon, retries, o, Cap))
          PROVE  UpInv'
      <3>1. mon \in Configs /\ retries \in Counters
        BY DEF IInv, TypeOK
      <3>2. /\ StatusAfter(mon, retries, o) \in Statuses
            /\ RetriesAfter(mon, retries, o, Cap) \in Counters
            /\ StatusAfter(mon, retries, o) = UP => RetriesAfter(mon, retries, o, Cap) = 0
        BY <2>3, <3>1, StatusAfterType, RetriesAfterType, UpResets
      <3>3. QED
        BY <2>1, <2>3, <3>2
    <2>4. ASSUME NEW o \in Outcomes, Check(o) PROVE UpInv'
      <3>1. mon \in Configs /\ o \in OutcomesOf(mon.type)
        BY <2>4 DEF IInv, TypeOK, Check, Answers
      <3>2. o # "late"
        BY <3>1 DEF OutcomesOf, UpInv, NoTcp
      <3>3. QED
        BY <2>3, <2>4, <3>2 DEF Check
    <2>5. CASE WindowLookupFails
      BY <2>3, <2>5 DEF WindowLookupFails, Outcomes
    <2>6. CASE Store
      BY <2>6 DEF Store, UpInv, Decided, FailureIsNotUp
    <2>7. ASSUME \/ \E m \in Configs : Start(m)
                 \/ Timer \/ ReadPrevious \/ BeginCheck \/ Notify \/ UpdateUptime
                 \/ Forward \/ DatabaseFails \/ Halt \/ WindowChanges \/ ServiceChanges
                 \/ UNCHANGED vars
          PROVE  UpInv'
      BY <2>7 DEF Start, Timer, ReadPrevious, BeginCheck, Notify, UpdateUptime, Forward,
                  DatabaseFails, Halt, WindowChanges, ServiceChanges, vars, closure, UpInv,
                  Decided, FailureIsNotUp
    <2>8. QED
      BY <2>2, <2>4, <2>5, <2>6, <2>7 DEF Next
  <1>3. UpInv => FailureIsNotUp
    BY DEF UpInv
  <1>4. QED
    BY <1>1, <1>2, <1>3, Inductive, PTL DEF Spec

-----------------------------------------------------------------------------
(* The runner implements the feed: what has to be announced is announced   *)
(* before it is recorded, and nothing else is.                             *)
THEOREM ImplementsFeed == Spec => FeedImplemented
  <1>1. Init => Feed!Init
    BY DEF Init, Feed!Init, NoBeat, NONE, Feed!NONE
  <1>2. IInv /\ [Next]_vars => [Feed!Next]_Feed!vars
    <2> SUFFICES ASSUME IInv, [Next]_vars PROVE [Feed!Next]_Feed!vars
      OBVIOUS
    <2>1. CASE Notify
      <3>1. /\ pc = "notify" /\ beat.status \in Statuses
            /\ announced' = announced \cup {beat.status} /\ table' = table
        BY <2>1 DEF Notify, IInv, ClosureInv, Decided
      <3>2. IsNotified(table.status, beat.status) \/ (table.status = DOWN /\ beat.status = DOWN)
        BY <3>1 DEF IInv, AnnounceInv
      <3>3. Feed!Announce(beat.status)
        BY <3>1, <3>2 DEF Feed!Announce, Feed!IsNotified, Feed!DOWN, IsNotified, DOWN,
              Feed!IsImportantForNotification, IsImportantForNotification,
              Feed!SendsNotification, SendsNotification, Feed!NONE, NONE, Feed!UP, UP,
              Feed!PENDING, PENDING, Feed!MAINTENANCE, MAINTENANCE
      <3>4. QED
        BY <3>1, <3>3 DEF Feed!Next, Feed!Statuses, Statuses, UP, Feed!UP, DOWN,
              Feed!DOWN, PENDING, Feed!PENDING, MAINTENANCE, Feed!MAINTENANCE
    <2>2. CASE Store
      <3>1. /\ pc = "store" /\ beat.status \in Statuses
            /\ announced' = {} /\ table' = beat
        BY <2>2 DEF Store, IInv, ClosureInv, Decided
      <3>2. IsNotified(table.status, beat.status) => beat.status \in announced
        BY <3>1 DEF IInv, AnnounceInv
      <3>3. Feed!Record(beat.status)
        BY <3>1, <3>2 DEF Feed!Record, Feed!IsNotified, Feed!DOWN, IsNotified, DOWN,
              Feed!IsImportantForNotification, IsImportantForNotification,
              Feed!SendsNotification, SendsNotification, Feed!NONE, NONE, Feed!UP, UP,
              Feed!PENDING, PENDING, Feed!MAINTENANCE, MAINTENANCE
      <3>4. QED
        BY <3>1, <3>3 DEF Feed!Next, Feed!Statuses, Statuses, UP, Feed!UP, DOWN,
              Feed!DOWN, PENDING, Feed!PENDING, MAINTENANCE, Feed!MAINTENANCE
    <2>3. ASSUME [Next]_vars, ~Notify, ~Store
          PROVE  UNCHANGED <<table, announced>>
      BY <2>3 DEF Next, vars, closure, history, Start, Timer, ReadPrevious,
                  EnterMaintenance, BeginCheck, WindowLookupFails, Check, UpdateUptime,
                  Forward, DatabaseFails, Halt, WindowChanges, ServiceChanges
    <2>4. QED
      BY <2>1, <2>2, <2>3 DEF Feed!vars
  <1>3. QED
    BY <1>1, <1>2, Inductive, PTL DEF Spec, FeedImplemented, Feed!Spec
=============================================================================
