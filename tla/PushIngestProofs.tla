-------------------------- MODULE PushIngestProofs --------------------------
(***************************************************************************)
(* For any number of requests in flight: the types of PushIngest, and what *)
(* it promises where beats do not overlap, the feed of announcements, the  *)
(* pace of reminders, and the retries before DOWN.                         *)
(***************************************************************************)
EXTENDS PushIngest, TLAPS

Busy(a)    == pc[a] # "idle"
Decided(a) == pc[a] \in {"notify", "store"}

BeatsInv ==
    \A a \in Actors : /\ Decided(a) => beat[a].status \in Statuses
                      /\ pc[a] = "notify" => beat[a].status \in {UP, DOWN}
                      /\ pc[a] = "judge" /\ a # Watchdog => signal[a] \in {UP, DOWN}

OneBeat == \A a, b \in Actors : Busy(a) /\ Busy(b) => a = b

(* The row a beat has read is the newest and the latest.                   *)
NewestInv ==
    /\ byTime = byId
    /\ \A a \in Actors : older[a] = {} /\ ~overtaken[a] /\ (Busy(a) => prev[a] = byId)

(* What has to be announced has been once the notification is behind us.   *)
AnnounceInv ==
    \A a \in Actors :
        /\ pc[a] = "store" /\ IsNotified(byId.status, beat[a].status)
              => beat[a].status \in announced
        /\ pc[a] = "notify" => \/ IsNotified(byId.status, beat[a].status)
                               \/ byId.status = DOWN /\ beat[a].status = DOWN

(* The stored downCount bounds the silent DOWN rows behind it.             *)
ReminderInv ==
    /\ quiet <= byId.downCount
    /\ quiet > 0 => quiet < mon.resendInterval
    /\ \A a \in Actors :
          pc[a] = "store" /\ beat[a].status = DOWN /\ DOWN \notin announced
          /\ mon.resendInterval > 0
            => beat[a].downCount = byId.downCount + 1 /\ beat[a].downCount < mon.resendInterval

(* No counter, the watchdog's or a stored one, exceeds the failures.       *)
RetryInv ==
    /\ byId.retries <= fails
    /\ byId = NoBeat \/ Busy(Watchdog) => retries <= fails
    /\ \A a \in Actors : Decided(a) =>
          /\ beat[a].retries <= fails
          /\ beat[a].status \notin {PENDING, DOWN} => beat[a].retries = 0
          /\ mon.source = "push" /\ beat[a].status = DOWN /\ prev[a].status \in {UP, PENDING}
                => fails > mon.maxretries

TurnInv == OneBeat /\ NewestInv /\ AnnounceInv /\ ReminderInv /\ RetryInv
PushInv == TypeOK /\ BeatsInv /\ (mon.in_turn => TurnInv)

-----------------------------------------------------------------------------
LEMMA SettingFields ==
    ASSUME NEW m \in Settings
    PROVE  /\ Cap \in Nat \ {0} /\ m.maxretries \in 0 .. Cap - 1 /\ m.maxretries \in Nat
           /\ m.resendInterval \in Nat /\ m.upsideDown \in BOOLEAN /\ m.codeOnly = FALSE
           /\ m.source \in {"push", "otel", "federation"} /\ m.in_turn \in BOOLEAN
  <1>1. /\ m.maxretries \in 0 .. Cap - 1 /\ m.resendInterval \in Nat
        /\ m.upsideDown \in BOOLEAN /\ m.codeOnly \in {FALSE} /\ m.in_turn \in BOOLEAN
        /\ m.source \in {"push", "otel", "federation"}
    BY SettingsAssumption
  <1>2. Cap \in Nat
    BY SettingsAssumption
  <1>3. Cap # 0 /\ m.maxretries \in Nat
    BY <1>1, <1>2
  <1>4. QED
    BY <1>1, <1>2, <1>3

LEMMA RowFields ==
    ASSUME NEW r \in Rows
    PROVE  /\ r.status \in Statuses \cup {NONE} /\ r.retries \in Counters
           /\ r.downCount \in Nat
  <1>1. 0 \in Counters
    BY SettingsAssumption DEF Counters
  <1>2. CASE r \in BeatRows(Counters)
    BY <1>2 DEF BeatRows
  <1>3. CASE r = NoBeat
    BY <1>1, <1>3 DEF NoBeat
  <1>4. QED
    BY <1>2, <1>3 DEF Rows

Verdicts == [status : Statuses, retries : Counters]

(* A request is DOWN after one that was UP or PENDING only when the        *)
(* retries the row has counted are used up.                                *)
LEMMA PushJudged ==
    ASSUME NEW before \in Rows, NEW says \in {UP, DOWN}, mon \in Settings
    PROVE  LET v == DetermineStatus(before, says)
           IN  /\ v \in Verdicts
               /\ v.retries <= Bumped(before.retries)
               /\ v.status \notin {PENDING, DOWN} => v.retries = 0
               /\ v.status = DOWN /\ before.status \in {UP, PENDING}
                    => Bumped(before.retries) > mon.maxretries
  <1>1. /\ Cap \in Nat \ {0} /\ mon.maxretries \in 0 .. Cap - 1
        /\ before.retries \in 0 .. Cap
    BY SettingFields, RowFields DEF Counters
  <1>2. Bumped(before.retries) \in 0 .. Cap
    BY <1>1 DEF Bumped
  <1>3. CASE Retried(before, says)
    BY <1>1, <1>2, <1>3
    DEF DetermineStatus, Verdicts, Counters, Statuses, UP, DOWN, PENDING
  <1>4. CASE ~Retried(before, says)
    <2>1. DetermineStatus(before, says) =
            [status  |-> says,
             retries |-> IF says = DOWN /\ before.status \notin {NONE, UP}
                         THEN Bumped(before.retries) ELSE 0]
      BY <1>4 DEF DetermineStatus
    <2>2. says = DOWN /\ before.status \in {UP, PENDING}
            => Bumped(before.retries) > mon.maxretries
      BY <1>1, <1>4 DEF Retried, Bumped
    <2>3. QED
      BY <1>1, <1>2, <2>1, <2>2 DEF Verdicts, Counters, Statuses, UP, DOWN, PENDING
  <1>5. QED
    BY <1>3, <1>4

LEMMA RequestVerdict ==
    ASSUME NEW before \in Rows, NEW says \in {UP, DOWN}, mon \in Settings
    PROVE  LET v == Judged(before, says)
           IN  /\ v \in Verdicts
               /\ v.retries <= Bumped(before.retries)
               /\ v.status \notin {PENDING, DOWN} => v.retries = 0
               /\ mon.source = "push" /\ v.status = DOWN /\ before.status \in {UP, PENDING}
                    => Bumped(before.retries) > mon.maxretries
  <1>1. Oriented(mon.upsideDown, says) \in {UP, DOWN}
    BY DEF Oriented, FlipStatus, UP, DOWN
  <1>2. 0 \in Counters /\ 0 <= Bumped(before.retries)
    <2>1. Cap \in Nat /\ before.retries \in 0 .. Cap
      BY SettingFields, RowFields DEF Counters
    <2>2. QED
      BY <2>1 DEF Counters, Bumped
  <1>3. CASE mon.source = "push"
    <2>1. Judged(before, says) = DetermineStatus(before, Oriented(mon.upsideDown, says))
      BY <1>3 DEF Judged
    <2>2. QED
      BY <1>1, <2>1, PushJudged
  <1>4. CASE mon.source # "push"
    <2>1. PICK s \in {UP, DOWN} : Judged(before, says) = [status |-> s, retries |-> 0]
      BY <1>1, <1>4 DEF Judged
    <2>2. Judged(before, says).status = s /\ Judged(before, says).retries = 0
      BY <2>1
    <2>3. Judged(before, says) \in Verdicts
      BY <1>2, <2>1 DEF Verdicts, Statuses
    <2>4. QED
      BY <1>2, <1>4, <2>2, <2>3
  <1>5. QED
    BY <1>3, <1>4

(* The watchdog's miss: the same bounds, from its own counter.             *)
LEMMA MissVerdict ==
    ASSUME mon \in Settings, retries \in Counters
    PROVE  LET v == [status  |-> StatusAfter(mon, retries, "error"),
                     retries |-> RetriesAfter(mon, retries, "error", Cap)]
           IN  /\ v \in Verdicts
               /\ v.retries <= Bumped(retries)
               /\ v.status \notin {PENDING, DOWN} => v.retries = 0
               /\ v.status = DOWN => Bumped(retries) > mon.maxretries
  <1>1. /\ Cap \in Nat \ {0} /\ mon.maxretries \in 0 .. Cap - 1 /\ retries \in 0 .. Cap
        /\ mon.codeOnly = FALSE /\ mon.upsideDown \in BOOLEAN
    BY SettingFields DEF Counters
  <1>2. CASE mon.upsideDown
    <2>1. StatusBeforeCatch(mon, "error") = UP /\ ResetsRetries(mon, "error")
      BY <1>2 DEF StatusBeforeCatch, Threw, StatusSetBy, Oriented, FlipStatus, ResetsRetries,
                  UP, DOWN
    <2>2. StatusAfter(mon, retries, "error") = UP
          /\ RetriesAfter(mon, retries, "error", Cap) = 0
      BY <2>1 DEF StatusAfter, RetriesAfter
    <2>3. QED
      BY <1>1, <2>2 DEF Verdicts, Counters, Statuses, Bumped, UP, DOWN, PENDING
  <1>3. CASE ~mon.upsideDown
    <2>1. StatusBeforeCatch(mon, "error") = DOWN /\ ~ResetsRetries(mon, "error")
      BY <1>1, <1>3 DEF StatusBeforeCatch, Threw, StatusSetBy, Oriented, ResetsRetries,
                        ReachesCatch, UP, DOWN
    <2>2. RetriesAfter(mon, retries, "error", Cap) = Bumped(retries)
          /\ Bumped(retries) \in 0 .. Cap
      BY <1>1, <2>1 DEF RetriesAfter, Bumped
    <2>3. StatusAfter(mon, retries, "error") \in {PENDING, DOWN}
      BY <2>1 DEF StatusAfter
    <2>4. StatusAfter(mon, retries, "error") = DOWN => Bumped(retries) > mon.maxretries
      BY <1>1, <2>1 DEF StatusAfter, RetriesAvailable, Bumped, PENDING, DOWN
    <2>5. QED
      BY <1>1, <2>2, <2>3, <2>4 DEF Verdicts, Counters, Statuses
  <1>4. QED
    BY <1>1, <1>2, <1>3

-----------------------------------------------------------------------------
LEMMA PushInvInit == Init => PushInv
  <1> SUFFICES ASSUME Init PROVE PushInv
    OBVIOUS
  <1>1. 0 \in Counters /\ 0 <= 0
    BY SettingsAssumption DEF Counters
  <1>2. TypeOK
    BY <1>1 DEF Init, TypeOK, Rows
  <1>3. BeatsInv /\ TurnInv
    BY DEF Init, BeatsInv, TurnInv, OneBeat, NewestInv, AnnounceInv, ReminderInv, RetryInv,
           Busy, Decided, NoBeat
  <1>4. QED
    BY <1>2, <1>3 DEF PushInv

(* A beat that begins in its turn reads the newest row.                    *)
LEMMA BeginKeepsInv ==
    ASSUME PushInv, NEW a \in Actors, NEW before \in {byId, byTime},
           NEW says \in {UP, DOWN, NONE}, Begin(a, before, says),
           a # Watchdog => says \in {UP, DOWN},
           retries' = IF a = Watchdog /\ byTime # NoBeat THEN byTime.retries ELSE retries
    PROVE  PushInv'
  <1>1. /\ UNCHANGED <<mon, byId, byTime, beat, overtaken, aged, window>>
        /\ UNCHANGED <<announced, told, fails, quiet>>
        /\ pc[a] = "idle" /\ pc' = [pc EXCEPT ![a] = "judge"]
        /\ prev' = [prev EXCEPT ![a] = before]
        /\ older' = [older EXCEPT ![a] = {b \in Actors : pc[b] # "idle"}]
        /\ signal' = [signal EXCEPT ![a] = says]
    BY DEF Begin, rows, history
  <1>2. TypeOK
    BY DEF PushInv
  <1>3. retries' \in Counters
    BY <1>2, RowFields DEF TypeOK
  <1>4. TypeOK'
    BY <1>1, <1>2, <1>3 DEF TypeOK
  <1>5. BeatsInv'
    BY <1>1, <1>2 DEF PushInv, BeatsInv, Decided, TypeOK
  <1>6. ASSUME mon.in_turn PROVE TurnInv'
    <2>1. TurnInv /\ \A b \in Actors : pc[b] = "idle"
      BY <1>6 DEF PushInv, Begin
    <2>2. \A b \in Actors : pc'[b] = IF b = a THEN "judge" ELSE "idle"
      BY <1>1, <1>2, <2>1 DEF TypeOK
    <2>3. OneBeat'
      BY <2>2 DEF OneBeat, Busy
    <2>4. NewestInv'
      BY <1>1, <1>2, <2>1, <2>2 DEF TurnInv, NewestInv, Busy, TypeOK
    <2>5. AnnounceInv' /\ ReminderInv'
      BY <1>1, <2>1, <2>2 DEF TurnInv, AnnounceInv, ReminderInv
    <2>6. RetryInv'
      BY <1>1, <2>1, <2>2 DEF TurnInv, NewestInv, RetryInv, Busy, Decided
    <2>7. QED
      BY <2>3, <2>4, <2>5, <2>6 DEF TurnInv
  <1>7. QED
    BY <1>1, <1>4, <1>5, <1>6 DEF PushInv

(* Nothing is changed but time and windows.                                *)
LEMMA WorldKeepsInv ==
    ASSUME PushInv, UNCHANGED <<mon, rows, beats, retries, history>>,
           {aged', window'} \subseteq BOOLEAN
    PROVE  PushInv'
  BY DEF PushInv, rows, beats, history, TypeOK, BeatsInv, TurnInv, OneBeat, NewestInv,
         AnnounceInv, ReminderInv, RetryInv, Busy, Decided

-----------------------------------------------------------------------------
(* A verdict that is covered by the failures, and whose importance the     *)
(* caller has not missed, keeps the invariant.                             *)
LEMMA DecideKeepsInv ==
    ASSUME PushInv, NEW a \in Actors, NEW v \in Verdicts, NEW isReset \in BOOLEAN,
           pc[a] = "judge", Decide(a, v, isReset),
           IsImportantForNotification(prev[a].status, v.status) => isReset,
           isReset /\ v.status = DOWN => IsNotified(prev[a].status, DOWN),
           retries' \in Counters,
           mon.in_turn => /\ v.retries <= fails'
                          /\ v.status \notin {PENDING, DOWN} => v.retries = 0
                          /\ mon.source = "push" /\ v.status = DOWN
                             /\ prev[a].status \in {UP, PENDING} => fails' > mon.maxretries
                          /\ byId = NoBeat \/ a = Watchdog => retries' <= fails'
    PROVE  PushInv'
  <1> DEFINE count == IF isReset THEN 0
                      ELSE DownCountAfterQuietBeat(mon, v.status, prev[a].downCount)
             resend == ~isReset /\ v.status = DOWN /\ ResendDue(mon, prev[a].downCount)
             row == [status |-> v.status, retries |-> v.retries, downCount |-> count]
             notifies == (isReset /\ IsNotified(prev[a].status, v.status)) \/ resend
  <1>1. /\ UNCHANGED <<mon, byId, byTime, signal, prev, older, overtaken, aged, window>>
        /\ UNCHANGED <<announced, told, quiet>>
        /\ beat' = [beat EXCEPT ![a] = row]
        /\ pc' = [pc EXCEPT ![a] = IF notifies THEN "notify" ELSE "store"]
        /\ fails' = IF v.status \in {PENDING, DOWN} THEN Bumped(fails) ELSE fails
    BY DEF Decide, rows
  <1>2. TypeOK /\ BeatsInv
    BY DEF PushInv
  <1>3. /\ prev[a].downCount \in Nat /\ prev[a].status \in Statuses \cup {NONE}
        /\ mon.resendInterval \in Nat /\ Cap \in Nat
    BY <1>2, RowFields, SettingFields DEF TypeOK
  <1>4. count \in Nat
    BY <1>3 DEF DownCountAfterQuietBeat
  <1>5. row \in Rows /\ v.status \in Statuses
    BY <1>4 DEF Rows, BeatRows, Verdicts
  <1>6. fails' \in Counters
    BY <1>1, <1>2, <1>3 DEF TypeOK, Bumped, Counters
  <1>7. /\ beat'[a].status = v.status /\ beat'[a].retries = v.retries
        /\ beat'[a].downCount = count
        /\ \A b \in Actors \ {a} : beat'[b] = beat[b] /\ pc'[b] = pc[b]
        /\ pc'[a] = IF notifies THEN "notify" ELSE "store"
    BY <1>1, <1>2 DEF TypeOK
  <1>8. TypeOK'
    BY <1>1, <1>2, <1>5, <1>6 DEF TypeOK
  <1> HIDE DEF row
  <1>9. BeatsInv'
    <2>1. notifies => v.status \in {UP, DOWN}
      BY <1>5 DEF IsNotified, IsImportantForNotification, SendsNotification, NONE, UP, DOWN,
                  PENDING, MAINTENANCE
    <2>2. QED
      BY <1>1, <1>2, <1>5, <1>7, <2>1 DEF BeatsInv, Decided
  <1>10. ASSUME mon.in_turn PROVE TurnInv'
    <2>1. TurnInv
      BY <1>10 DEF PushInv
    <2>2. \A b \in Actors : b # a => pc[b] = "idle" /\ pc'[b] = "idle"
      BY <1>7, <2>1 DEF TurnInv, OneBeat, Busy
    <2>3. OneBeat' /\ NewestInv' /\ prev[a] = byId
      BY <1>1, <1>7, <2>1, <2>2 DEF TurnInv, OneBeat, NewestInv, Busy
    <2>4. AnnounceInv'
      <3>1. notifies => \/ IsNotified(byId.status, v.status)
                        \/ byId.status = DOWN /\ v.status = DOWN
        <4>1. SUFFICES ASSUME resend, ~IsNotified(byId.status, v.status)
                       PROVE  byId.status = DOWN
          BY <2>3
        <4>2. ~IsImportantForNotification(byId.status, DOWN)
          BY <2>3, <4>1
        <4>3. QED
          BY <1>3, <2>3, <4>2 DEF IsImportantForNotification, Statuses, NONE, UP, DOWN,
                                  PENDING, MAINTENANCE
      <3>2. IsNotified(byId.status, v.status) => notifies
        BY <2>3 DEF IsNotified
      <3>3. QED
        BY <1>1, <1>7, <2>2, <3>1, <3>2 DEF AnnounceInv
    <2>5. ReminderInv'
      <3>1. ~notifies /\ v.status = DOWN /\ mon.resendInterval > 0
              => count = byId.downCount + 1 /\ count < mon.resendInterval
        BY <1>3, <2>3 DEF ResendDue, DownCountAfterQuietBeat
      <3>2. QED
        BY <1>1, <1>7, <2>1, <2>2, <3>1 DEF TurnInv, ReminderInv
    <2>6. RetryInv'
      <3>1. fails <= fails'
        BY <1>1, <1>2, <1>3 DEF TypeOK, Bumped, Counters
      <3>2. byId.retries \in Nat /\ fails \in Nat /\ fails' \in Nat
        BY <1>2, <1>3, <1>6, RowFields DEF TypeOK, Counters
      <3>3. byId.retries <= fails'
        BY <2>1, <3>1, <3>2 DEF TurnInv, RetryInv
      <3>4. byId = NoBeat \/ Busy(Watchdog)' => retries' <= fails'
        BY <1>10, <2>2 DEF Busy, Actors
      <3>5. QED
        BY <1>1, <1>7, <1>10, <2>2, <3>3, <3>4 DEF RetryInv, Decided
    <2>7. QED
      BY <2>3, <2>4, <2>5, <2>6 DEF TurnInv
  <1>11. QED
    BY <1>1, <1>8, <1>9, <1>10 DEF PushInv

LEMMA BumpedType ==
    ASSUME Cap \in Nat, NEW n \in Counters
    PROVE  Bumped(n) \in Counters
  BY DEF Bumped, Counters

LEMMA BumpedGrows ==
    ASSUME Cap \in Nat, NEW m \in Counters, NEW n \in Counters, m <= n
    PROVE  Bumped(m) <= Bumped(n)
  BY DEF Bumped, Counters

(* The verdict that is covered by the counter before it is covered by the  *)
(* failures after it.                                                      *)
LEMMA VerdictCovered ==
    ASSUME Cap \in Nat, NEW m \in Counters, fails \in Counters, m <= fails,
           NEW v \in Verdicts, v.retries <= Bumped(m),
           v.status \notin {PENDING, DOWN} => v.retries = 0,
           fails' = IF v.status \in {PENDING, DOWN} THEN Bumped(fails) ELSE fails
    PROVE  v.retries <= fails' /\ (v.status = DOWN => Bumped(m) <= fails')
  <1>1. Bumped(m) <= Bumped(fails) /\ Bumped(fails) \in Counters /\ Bumped(m) \in Counters
    BY BumpedGrows, BumpedType
  <1>2. v.retries \in Counters
    BY DEF Verdicts
  <1>3. QED
    BY <1>1, <1>2 DEF Counters

LEMMA RequestKeepsInv ==
    ASSUME PushInv, NEW a \in Requests, RequestJudged(a)
    PROVE  PushInv'
  <1> DEFINE v == IF window THEN UnderMaintenance ELSE Judged(prev[a], signal[a])
  <1>1. /\ pc[a] = "judge" /\ UNCHANGED retries /\ a \in Actors /\ a # Watchdog
        /\ Decide(a, v, IsImportantForNotification(prev[a].status, v.status))
    BY ActorsAssumption DEF RequestJudged, Actors
  <1>2. TypeOK /\ prev[a] \in Rows /\ signal[a] \in {UP, DOWN} /\ mon \in Settings
    BY <1>1 DEF PushInv, BeatsInv, TypeOK
  <1>3. /\ Cap \in Nat /\ prev[a].retries \in Counters /\ Bumped(prev[a].retries) \in Counters
        /\ fails \in Counters
    <2>1. Cap \in Nat
      BY SettingsAssumption
    <2>2. prev[a].retries \in Counters
      BY <1>2, RowFields
    <2>3. QED
      BY <1>2, <2>1, <2>2, BumpedType DEF TypeOK
  <1>4. /\ v \in Verdicts /\ v.retries <= Bumped(prev[a].retries)
        /\ v.status \notin {PENDING, DOWN} => v.retries = 0
        /\ mon.source = "push" /\ v.status = DOWN /\ prev[a].status \in {UP, PENDING}
             => Bumped(prev[a].retries) > mon.maxretries
    <2>1. CASE window
      BY <1>3, <2>1
      DEF UnderMaintenance, Verdicts, Counters, Statuses, UP, DOWN, PENDING, MAINTENANCE
    <2>2. CASE ~window
      BY <1>2, <2>2, RequestVerdict
    <2>3. QED
      BY <2>1, <2>2
  <1> HIDE DEF v
  <1>5. /\ IsImportantForNotification(prev[a].status, v.status) \in BOOLEAN
        /\ IsImportantForNotification(prev[a].status, v.status) /\ v.status = DOWN
             => IsNotified(prev[a].status, DOWN)
    BY DEF IsImportantForNotification, IsNotified, SendsNotification
  <1>6. fails' = IF v.status \in {PENDING, DOWN} THEN Bumped(fails) ELSE fails
    BY <1>1 DEF Decide
  <1>7. fails' \in Counters /\ fails <= fails'
    BY <1>3, <1>6 DEF Bumped, Counters
  <1>8. ASSUME mon.in_turn
        PROVE  /\ v.retries <= fails'
               /\ v.status = DOWN => Bumped(prev[a].retries) <= fails'
               /\ byId = NoBeat => retries <= fails'
    <2>1. prev[a].retries <= fails /\ (byId = NoBeat => retries <= fails)
      BY <1>1, <1>8 DEF PushInv, TurnInv, NewestInv, RetryInv, Busy
    <2>2. retries \in Counters
      BY <1>2 DEF TypeOK
    <2>3. QED
      BY <1>3, <1>4, <1>6, <1>7, <2>1, <2>2, VerdictCovered DEF Counters
  <1>9. mon.maxretries \in Nat
    BY <1>2, SettingFields
  <1>10. mon.in_turn /\ mon.source = "push" /\ v.status = DOWN
           /\ prev[a].status \in {UP, PENDING} => fails' > mon.maxretries
    BY <1>3, <1>4, <1>7, <1>8, <1>9 DEF Counters
  <1>11. retries' \in Counters
    BY <1>1, <1>2 DEF TypeOK
  <1>12. QED
    BY <1>1, <1>4, <1>5, <1>8, <1>10, <1>11, DecideKeepsInv

(* What the watchdog makes of silence or of a window                       *)
LEMMA LapseKeepsInv ==
    ASSUME PushInv, NEW v \in Verdicts, Lapse(v),
           v.retries <= Bumped(retries),
           v.status \notin {PENDING, DOWN} => v.retries = 0,
           v.status = DOWN => Bumped(retries) > mon.maxretries
    PROVE  PushInv'
  <1>1. /\ Watchdog \in Actors /\ pc[Watchdog] = "judge" /\ retries' = v.retries
        /\ Decide(Watchdog, v, IsImportantBeat(prev[Watchdog].status, v.status))
    BY DEF Lapse, Actors
  <1>2. TypeOK /\ fails \in Counters /\ retries \in Counters /\ mon \in Settings
    BY DEF PushInv, TypeOK
  <1>3. Cap \in Nat /\ Bumped(retries) \in Counters /\ mon.maxretries \in Nat
    BY <1>2, SettingFields, BumpedType
  <1>4. fails' = IF v.status \in {PENDING, DOWN} THEN Bumped(fails) ELSE fails
    BY <1>1 DEF Decide
  <1>5. fails' \in Counters /\ v.retries \in Counters
    BY <1>2, <1>3, <1>4 DEF Bumped, Counters, Verdicts
  <1>6. mon.in_turn => /\ v.retries <= fails'
                       /\ v.status = DOWN => Bumped(retries) <= fails'
    BY <1>1, <1>2, <1>3, <1>4, VerdictCovered DEF PushInv, TurnInv, RetryInv, Busy
  <1>7. mon.in_turn /\ v.status = DOWN => fails' > mon.maxretries
    BY <1>3, <1>5, <1>6 DEF Counters
  <1>8. /\ IsImportantBeat(prev[Watchdog].status, v.status) \in BOOLEAN
        /\ IsImportantForNotification(prev[Watchdog].status, v.status)
             => IsImportantBeat(prev[Watchdog].status, v.status)
        /\ IsImportantBeat(prev[Watchdog].status, v.status) /\ v.status = DOWN
             => IsNotified(prev[Watchdog].status, DOWN)
    BY DEF IsImportantBeat, IsImportantForNotification, IsNotified, SendsNotification,
           NONE, UP, DOWN, PENDING, MAINTENANCE
  <1>9. QED
    BY <1>1, <1>5, <1>6, <1>7, <1>8, DecideKeepsInv

-----------------------------------------------------------------------------
(* A beat that is dropped, or was not needed, leaves nothing behind.       *)
LEMMA FinishKeepsInv ==
    ASSUME PushInv, NEW a \in Actors, Finish(a),
           overtaken' = [overtaken EXCEPT ![a] = FALSE],
           UNCHANGED <<mon, rows, aged, window, history>>,
           retries' \in {0, retries}
    PROVE  PushInv'
  <1>1. /\ UNCHANGED <<mon, byId, byTime, aged, window, announced, told, fails, quiet>>
        /\ pc' = [pc EXCEPT ![a] = "idle"] /\ signal' = [signal EXCEPT ![a] = NONE]
        /\ prev' = [prev EXCEPT ![a] = NoBeat] /\ beat' = [beat EXCEPT ![a] = NoBeat]
        /\ older' = [b \in Actors |-> IF b = a THEN {} ELSE older[b] \ {a}]
    BY DEF Finish, rows, history
  <1>2. TypeOK /\ BeatsInv
    BY DEF PushInv
  <1>3. 0 \in Counters
    BY SettingsAssumption DEF Counters
  <1>4. TypeOK'
    BY <1>1, <1>2, <1>3 DEF TypeOK, Rows
  <1>5. \A b \in Actors : pc'[b] = IF b = a THEN "idle" ELSE pc[b]
    BY <1>1, <1>2 DEF TypeOK
  <1>6. /\ \A b \in Actors \ {a} : beat'[b] = beat[b] /\ prev'[b] = prev[b]
                                  /\ signal'[b] = signal[b]
        /\ \A b \in Actors : (older[b] = {} => older'[b] = {})
                             /\ (~overtaken[b] => ~overtaken'[b])
    BY <1>1, <1>2 DEF TypeOK
  <1>7. BeatsInv'
    BY <1>2, <1>5, <1>6 DEF BeatsInv, Decided
  <1>8. ASSUME mon.in_turn PROVE TurnInv'
    <2>1. TurnInv
      BY <1>8 DEF PushInv
    <2>2. OneBeat' /\ NewestInv'
      BY <1>1, <1>5, <1>6, <2>1 DEF TurnInv, OneBeat, NewestInv, Busy
    <2>3. AnnounceInv' /\ ReminderInv'
      BY <1>1, <1>5, <1>6, <2>1 DEF TurnInv, AnnounceInv, ReminderInv
    <2>4. (byId = NoBeat \/ Busy(Watchdog)') => byId = NoBeat \/ Busy(Watchdog)
      BY <1>5 DEF Busy, Actors
    <2>5. fails \in Counters /\ 0 <= fails
      BY <1>2, SettingsAssumption DEF TypeOK, Counters
    <2>6. RetryInv'
      BY <1>1, <1>5, <1>6, <2>1, <2>4, <2>5 DEF TurnInv, RetryInv, Decided
    <2>7. QED
      BY <2>2, <2>3, <2>6 DEF TurnInv
  <1>9. QED
    BY <1>1, <1>4, <1>7, <1>8 DEF PushInv

LEMMA NotifyKeepsInv ==
    ASSUME PushInv, NEW a \in Actors, Notify(a)
    PROVE  PushInv'
  <1>1. /\ UNCHANGED <<mon, byId, byTime, signal, prev, beat, older, overtaken, retries>>
        /\ UNCHANGED <<aged, window, fails>>
        /\ pc[a] = "notify" /\ pc' = [pc EXCEPT ![a] = "store"]
        /\ announced' = announced \cup {beat[a].status} /\ told' = beat[a].status
        /\ quiet' = 0
    BY DEF Notify, rows
  <1>2. TypeOK /\ BeatsInv
    BY DEF PushInv
  <1>3. TypeOK'
    BY <1>1, <1>2 DEF TypeOK, BeatsInv
  <1>4. \A b \in Actors : pc'[b] = IF b = a THEN "store" ELSE pc[b]
    BY <1>1, <1>2 DEF TypeOK
  <1>5. BeatsInv'
    BY <1>1, <1>2, <1>4 DEF BeatsInv, Decided
  <1>6. ASSUME mon.in_turn PROVE TurnInv'
    <2>1. TurnInv
      BY <1>6 DEF PushInv
    <2>2. \A b \in Actors : b # a => pc[b] = "idle"
      BY <1>1, <2>1 DEF TurnInv, OneBeat, Busy
    <2>3. OneBeat' /\ NewestInv'
      BY <1>1, <1>4, <2>1 DEF TurnInv, OneBeat, NewestInv, Busy
    <2>4. AnnounceInv'
      BY <1>1, <1>4, <2>2 DEF AnnounceInv
    <2>5. byId.downCount \in Nat
      BY <1>2, RowFields DEF TypeOK
    <2>6. ReminderInv'
      BY <1>1, <1>4, <2>2, <2>5 DEF ReminderInv
    <2>7. RetryInv'
      BY <1>1, <1>4, <2>1 DEF TurnInv, RetryInv, Busy, Decided
    <2>8. QED
      BY <2>3, <2>4, <2>6, <2>7 DEF TurnInv
  <1>7. QED
    BY <1>1, <1>3, <1>5, <1>6 DEF PushInv

LEMMA StoreKeepsInv ==
    ASSUME PushInv, NEW a \in Actors, Store(a)
    PROVE  PushInv'
  <1>1. /\ UNCHANGED <<mon, retries, window, told>> /\ pc[a] = "store"
        /\ byId' = beat[a] /\ byTime' = IF ~overtaken[a] THEN beat[a] ELSE byTime
        /\ aged' = (aged /\ overtaken[a])
        /\ overtaken' = [b \in Actors |-> b # a /\ (overtaken[b] \/ b \in older[a])]
        /\ announced' = {}
        /\ fails' = IF beat[a].status \in {PENDING, DOWN} THEN fails ELSE 0
        /\ quiet' = IF beat[a].status # DOWN \/ mon.resendInterval = 0 \/ DOWN \in announced
                    THEN 0 ELSE IF quiet < mon.resendInterval THEN quiet + 1 ELSE quiet
    BY DEF Store
  <1>2. /\ pc' = [pc EXCEPT ![a] = "idle"] /\ signal' = [signal EXCEPT ![a] = NONE]
        /\ prev' = [prev EXCEPT ![a] = NoBeat] /\ beat' = [beat EXCEPT ![a] = NoBeat]
        /\ older' = [b \in Actors |-> IF b = a THEN {} ELSE older[b] \ {a}]
    BY DEF Store, Finish
  <1>3. TypeOK /\ BeatsInv
    BY DEF PushInv
  <1>4. /\ 0 \in Counters /\ Cap \in Nat /\ beat[a] \in Rows /\ beat[a].status \in Statuses
        /\ beat[a].downCount \in Nat /\ beat[a].retries \in Nat /\ quiet \in Nat
        /\ fails \in Nat /\ mon.resendInterval \in Nat /\ byId.downCount \in Nat
    <2>1. 0 \in Counters /\ Cap \in Nat
      BY SettingsAssumption DEF Counters
    <2>2. /\ mon \in Settings /\ byId \in Rows /\ beat[a] \in Rows /\ quiet \in Nat
          /\ fails \in Counters /\ beat[a].status \in Statuses
      BY <1>1, <1>3 DEF TypeOK, BeatsInv, Decided
    <2>3. mon.resendInterval \in Nat
      BY <2>2, SettingFields
    <2>4. beat[a].downCount \in Nat /\ beat[a].retries \in Counters /\ byId.downCount \in Nat
      BY <2>2, RowFields
    <2>5. fails \in Nat /\ beat[a].retries \in Nat
      BY <2>1, <2>2, <2>4 DEF Counters
    <2>6. QED
      BY <2>1, <2>2, <2>3, <2>4, <2>5
  <1>5. TypeOK'
    BY <1>1, <1>2, <1>3, <1>4 DEF TypeOK, Rows
  <1>6. \A b \in Actors : pc'[b] = IF b = a THEN "idle" ELSE pc[b]
    BY <1>2, <1>3 DEF TypeOK
  <1>7. \A b \in Actors \ {a} : beat'[b] = beat[b] /\ signal'[b] = signal[b]
    BY <1>2, <1>3 DEF TypeOK
  <1>8. BeatsInv'
    BY <1>3, <1>6, <1>7 DEF BeatsInv, Decided
  <1>9. ASSUME mon.in_turn PROVE TurnInv'
    <2>1. TurnInv
      BY <1>9 DEF PushInv
    <2>2. \A b \in Actors : pc'[b] = "idle"
      BY <1>1, <1>6, <2>1 DEF TurnInv, OneBeat, Busy
    <2>3. \A b \in Actors : older[b] = {} /\ ~overtaken[b]
      BY <2>1 DEF TurnInv, NewestInv
    <2>4. OneBeat' /\ NewestInv'
      BY <1>1, <1>2, <2>2, <2>3 DEF OneBeat, NewestInv, Busy
    <2>5. AnnounceInv'
      BY <2>2 DEF AnnounceInv
    <2>6. quiet' <= beat[a].downCount /\ (quiet' > 0 => quiet' < mon.resendInterval)
      BY <1>1, <1>4, <2>1 DEF TurnInv, ReminderInv
    <2>7. ReminderInv'
      BY <1>1, <2>2, <2>6 DEF ReminderInv
    <2>8. beat[a].retries <= fails'
      BY <1>1, <1>4, <2>1 DEF TurnInv, RetryInv, Decided
    <2>9. beat[a] # NoBeat
      BY <1>4 DEF NoBeat, Statuses, NONE, UP, DOWN, PENDING, MAINTENANCE
    <2>10. RetryInv'
      BY <1>1, <2>2, <2>8, <2>9 DEF RetryInv, Busy, Decided, Actors
    <2>11. QED
      BY <2>4, <2>5, <2>7, <2>10 DEF TurnInv
  <1>10. QED
    BY <1>1, <1>5, <1>8, <1>9 DEF PushInv

-----------------------------------------------------------------------------
(* The invariant is inductive: one step per action.                        *)
LEMMA PushInvNext == PushInv /\ [Next]_vars => PushInv'
  <1> SUFFICES ASSUME PushInv, [Next]_vars PROVE PushInv'
    OBVIOUS
  <1>1. ASSUME NEW a \in Requests, NEW says \in {UP, DOWN}, RequestArrives(a, says)
        PROVE  PushInv'
    BY <1>1, BeginKeepsInv, ActorsAssumption DEF RequestArrives, Actors
  <1>2. CASE WatchdogWakes
    <2>1. retries' = IF byTime # NoBeat THEN byTime.retries ELSE retries
      BY <1>2 DEF WatchdogWakes
    <2>2. QED
      BY <1>2, <2>1, BeginKeepsInv DEF WatchdogWakes, Actors
  <1>3. CASE WatchdogInWindow
    <2>1. /\ UnderMaintenance \in Verdicts /\ UnderMaintenance.retries = 0
          /\ UnderMaintenance.status \notin {PENDING, DOWN}
      BY SettingsAssumption
      DEF UnderMaintenance, Verdicts, Counters, Statuses, PENDING, DOWN, MAINTENANCE
    <2>2. 0 <= Bumped(retries)
      BY SettingsAssumption DEF PushInv, TypeOK, Bumped, Counters
    <2>3. QED
      BY <1>3, <2>1, <2>2, LapseKeepsInv DEF WatchdogInWindow
  <1>4. CASE WatchdogSatisfied
    BY <1>4, FinishKeepsInv DEF WatchdogSatisfied, Actors
  <1>5. CASE WatchdogMisses
    <2>1. mon \in Settings /\ retries \in Counters
      BY DEF PushInv, TypeOK
    <2>2. QED
      BY <1>5, <2>1, MissVerdict, LapseKeepsInv DEF WatchdogMisses
  <1>6. ASSUME NEW a \in Actors, Judges(a) PROVE PushInv'
    BY <1>3, <1>4, <1>5, <1>6, RequestKeepsInv DEF Judges, Actors
  <1>7. ASSUME NEW a \in Actors, Drop(a) PROVE PushInv'
    BY <1>7, FinishKeepsInv DEF Drop
  <1>8. CASE WindowChanges
    BY <1>8, WorldKeepsInv DEF WindowChanges, PushInv, TypeOK
  <1>9. CASE Ages
    BY <1>9, WorldKeepsInv DEF Ages, PushInv, TypeOK
  <1>10. CASE UNCHANGED vars
    BY <1>10, WorldKeepsInv DEF vars, PushInv, TypeOK
  <1>11. QED
    BY <1>1, <1>2, <1>6, <1>7, <1>8, <1>9, <1>10, NotifyKeepsInv, StoreKeepsInv DEF Next

LEMMA PushInvHolds == Spec => []PushInv
  BY PushInvInit, PushInvNext, PTL DEF Spec

-----------------------------------------------------------------------------
(* Every variable keeps its type, overlapping beats included.              *)
THEOREM PushTypes == Spec => []TypeOK
  <1>1. PushInv => TypeOK
    BY DEF PushInv
  <1>2. QED
    BY <1>1, PushInvHolds, PTL

(* Whoever judges a push monitor, a client's signal or the watchdog: DOWN  *)
(* comes after UP or PENDING only when maxretries failures have come       *)
(* before, counted together, through windows and refused statements.       *)
THEOREM PushRetriesExhausted == Spec => []DownOnlyAfterRetries
  <1>1. PushInv => DownOnlyAfterRetries
    BY DEF PushInv, TurnInv, RetryInv, Decided, DownOnlyAfterRetries
  <1>2. QED
    BY <1>1, PushInvHolds, PTL

(* Reminders keep their pace whoever stores the DOWN rows.                 *)
THEOREM PushRemindersKeepPace == Spec => []ReminderInTime
  <1>1. PushInv => ReminderInTime
    BY DEF PushInv, TurnInv, ReminderInv, ReminderInTime
  <1>2. QED
    BY <1>1, PushInvHolds, PTL

(* Beats that do not overlap implement the feed of the polled types: each  *)
(* of the three handlers and the watchdog announces what it has to before  *)
(* it records it, and nothing else.                                        *)
THEOREM PushImplementsFeed == Spec => FeedImplemented
  <1> USE DEF Feed!Statuses, Statuses, Feed!NONE, NONE, Feed!UP, UP, Feed!DOWN, DOWN,
              Feed!PENDING, PENDING, Feed!MAINTENANCE, MAINTENANCE
  <1>1. Init => Feed!Init
    BY DEF Init, Feed!Init, NoBeat
  <1>2. PushInv /\ [Next]_vars => [Feed!Next]_Feed!vars
    <2> SUFFICES ASSUME PushInv, [Next]_vars PROVE [Feed!Next]_Feed!vars
      OBVIOUS
    <2>1. mon' = mon
      BY DEF Next, vars, RequestArrives, WatchdogWakes, Begin, Judges, RequestJudged,
             WatchdogInWindow, WatchdogSatisfied, WatchdogMisses, Lapse, Decide, Notify,
             Store, Drop, WindowChanges, Ages
    <2>2. CASE ~mon.in_turn
      BY <2>1, <2>2 DEF Feed!vars
    <2>3. ASSUME mon.in_turn, NEW a \in Actors, Notify(a) PROVE Feed!Next
      <3>1. /\ byId' = byId /\ announced' = announced \cup {beat[a].status}
            /\ beat[a].status \in Statuses
            /\ \/ IsNotified(byId.status, beat[a].status)
               \/ byId.status = DOWN /\ beat[a].status = DOWN
        BY <2>3 DEF Notify, rows, PushInv, BeatsInv, Decided, TurnInv, AnnounceInv
      <3>2. Feed!Announce(beat[a].status)
        BY <2>1, <2>3, <3>1
        DEF Feed!Announce, Feed!IsNotified, IsNotified, Feed!IsImportantForNotification,
            IsImportantForNotification, Feed!SendsNotification, SendsNotification
      <3>3. QED
        BY <3>1, <3>2 DEF Feed!Next
    <2>4. ASSUME mon.in_turn, NEW a \in Actors, Store(a) PROVE Feed!Next
      <3>1. /\ byId' = beat[a] /\ announced' = {} /\ beat[a].status \in Statuses
            /\ IsNotified(byId.status, beat[a].status) => beat[a].status \in announced
        BY <2>4 DEF Store, PushInv, BeatsInv, Decided, TurnInv, AnnounceInv
      <3>2. Feed!Record(beat[a].status)
        BY <2>1, <2>4, <3>1
        DEF Feed!Record, Feed!IsNotified, IsNotified, Feed!IsImportantForNotification,
            IsImportantForNotification, Feed!SendsNotification, SendsNotification
      <3>3. QED
        BY <3>1, <3>2 DEF Feed!Next
    <2>5. ASSUME \A a \in Actors : ~Notify(a) /\ ~Store(a)
          PROVE  UNCHANGED <<mon, byId, announced>>
      BY <2>5 DEF Next, vars, RequestArrives, WatchdogWakes, Begin, Judges, RequestJudged,
                  WatchdogInWindow, WatchdogSatisfied, WatchdogMisses, Lapse, Decide, Drop,
                  WindowChanges, Ages, rows, history
    <2>6. QED
      BY <2>2, <2>3, <2>4, <2>5 DEF Feed!vars
  <1>3. QED
    BY <1>1, <1>2, PushInvHolds, PTL DEF Spec, FeedImplemented, Feed!Spec
=============================================================================
