--------------------------- MODULE ServiceProofs ---------------------------
(***************************************************************************)
(* Proofs about eight parts: the cache of settings, the cooldown of        *)
(* alerts, the buttons of IZAPIA messages, the groups of status pages,     *)
(* their addresses, the superadmins, the runners that take a monitor over  *)
(* from each other, and the tree of monitors.                              *)
(***************************************************************************)
EXTENDS SettingsCache, AlertCooldown, IzapiaButtons, PageGroups, StatusPages,
        Administrators, RunnerHandover, MonitorTree, FiniteSetTheorems, TLAPS

-----------------------------------------------------------------------------
(* The cache agrees with the table but for the excuses CacheAgrees names,  *)
(* for any number of keys, values and calls.  The argument: an answer that *)
(* no store has overtaken is what the row says, and what a call that has   *)
(* not thrown writes is what it will delete from the cache.                *)
AnswersAreCurrent ==
    \A r \in Readers :
        query[r].got # NoEntry =>
            /\ query[r].key # NoEntry
            /\ ~query[r].overtaken => query[r].got = setting[query[r].key]

WrittenIsDropped ==
    \A w \in Writers : w \notin threw => toFind[w] \cup toStore[w] \subseteq toDrop[w]

CacheInv == CacheTypeOK /\ AnswersAreCurrent /\ WrittenIsDropped /\ CacheAgrees

-----------------------------------------------------------------------------
LEMMA CacheInvInit == CacheInit => CacheInv
<1> SUFFICES ASSUME CacheInit PROVE CacheInv OBVIOUS
<1>1. CacheTypeOK BY DEF CacheInit, CacheTypeOK, Idle
<1>2. AnswersAreCurrent BY DEF CacheInit, AnswersAreCurrent, Idle
<1>3. WrittenIsDropped BY DEF CacheInit, WrittenIsDropped
<1>4. CacheAgrees BY DEF CacheInit, CacheAgrees
<1> QED BY <1>1, <1>2, <1>3, <1>4 DEF CacheInv

(* get(): a miss, its answer, its end.                                     *)
LEMMA GetKeepsInv ==
    ASSUME CacheInv, NEW r \in Readers,
           GetStep(r) \/ \E k \in Keys : GetMissed(r, k)
    PROVE  CacheInv'
<1> USE NoEntryAssumption DEF CacheInv
<1>1. ASSUME NEW k \in Keys, GetMissed(r, k) PROVE CacheInv'
    <2>1. CacheTypeOK' BY <1>1 DEF GetMissed, CacheTypeOK, setCalls, Idle
    <2>2. AnswersAreCurrent' BY <1>1 DEF GetMissed, CacheTypeOK, AnswersAreCurrent, Idle
    <2>3. WrittenIsDropped' /\ CacheAgrees'
        BY <1>1 DEF GetMissed, WrittenIsDropped, CacheAgrees, setCalls
    <2> QED BY <2>1, <2>2, <2>3
<1>2. CASE GetAnswered(r)
    <2>1. query[r].key \in Keys BY <1>2 DEF GetAnswered, CacheTypeOK
    <2>2. CacheTypeOK' BY <1>2, <2>1 DEF GetAnswered, CacheTypeOK, setCalls
    <2>3. AnswersAreCurrent' BY <1>2, <2>1 DEF GetAnswered, CacheTypeOK, AnswersAreCurrent
    <2>4. WrittenIsDropped' /\ CacheAgrees'
        BY <1>2 DEF GetAnswered, WrittenIsDropped, CacheAgrees, setCalls
    <2> QED BY <2>2, <2>3, <2>4
<1>3. CASE GetReturns(r)
    <2> DEFINE k == query[r].key
    <2>1. k \in Keys /\ query[r].got \in Values
        BY <1>3 DEF GetReturns, CacheTypeOK, AnswersAreCurrent
    <2>2. CacheTypeOK' BY <1>3, <2>1 DEF GetReturns, CacheTypeOK, setCalls, Idle
    <2>3. AnswersAreCurrent' BY <1>3 DEF GetReturns, CacheTypeOK, AnswersAreCurrent, Idle
    <2>4. WrittenIsDropped' BY <1>3 DEF GetReturns, WrittenIsDropped, setCalls
    <2>5. ~query[r].overtaken => query[r].got = setting[k]
        BY <1>3 DEF GetReturns, AnswersAreCurrent
    <2>6. CacheAgrees'
        BY <1>3, <2>1, <2>5 DEF GetReturns, CacheTypeOK, CacheAgrees, setCalls
    <2> QED BY <2>2, <2>3, <2>4, <2>6
<1>4. CASE GetRefused(r)
    <2>1. CacheTypeOK' BY <1>4 DEF GetRefused, CacheTypeOK, setCalls, Idle
    <2>2. AnswersAreCurrent' BY <1>4 DEF GetRefused, CacheTypeOK, AnswersAreCurrent, Idle
    <2>3. WrittenIsDropped' /\ CacheAgrees'
        BY <1>4 DEF GetRefused, WrittenIsDropped, CacheAgrees, setCalls
    <2> QED BY <2>1, <2>2, <2>3
<1> QED BY <1>1, <1>2, <1>3, <1>4 DEF GetStep

(* A call begins, and looks its keys up.                                   *)
LEMMA SetBeginsKeepsInv ==
    ASSUME CacheInv, NEW w \in Writers,
           \/ \E ks \in SUBSET Keys \ {{}}, v \in Values : SetCalled(w, ks, v)
           \/ \E k \in Keys : SetFound(w, k)
    PROVE  CacheInv'
<1> USE DEF CacheInv
<1>1. ASSUME NEW ks \in SUBSET Keys \ {{}}, NEW v \in Values, SetCalled(w, ks, v)
      PROVE  CacheInv'
    <2>1. CacheTypeOK' BY <1>1 DEF SetCalled, CacheTypeOK
    <2>2. AnswersAreCurrent' BY <1>1 DEF SetCalled, AnswersAreCurrent
    <2>3. WrittenIsDropped' BY <1>1 DEF SetCalled, CacheTypeOK, WrittenIsDropped
    <2>4. CacheAgrees' BY <1>1 DEF SetCalled, CacheTypeOK, CacheAgrees
    <2> QED BY <2>1, <2>2, <2>3, <2>4
<1>2. ASSUME NEW k \in Keys, SetFound(w, k) PROVE CacheInv'
    <2>1. CacheTypeOK' BY <1>2 DEF SetFound, CacheTypeOK
    <2>2. AnswersAreCurrent' /\ CacheAgrees'
        BY <1>2 DEF SetFound, AnswersAreCurrent, CacheAgrees
    <2>3. WrittenIsDropped' BY <1>2 DEF SetFound, CacheTypeOK, WrittenIsDropped
    <2> QED BY <2>1, <2>2, <2>3
<1> QED BY <1>1, <1>2

(* The row is written: an answer on its way to a get() is overtaken, and   *)
(* an entry is one that the call will drop, unless it threw.               *)
LEMMA SetStoredKeepsInv ==
    ASSUME CacheInv, NEW w \in Writers, NEW k \in Keys, SetStored(w, k)
    PROVE  CacheInv'
<1> USE DEF CacheInv
<1>1. CacheTypeOK'
    <2> DEFINE Query == [key : Keys \cup {NoEntry}, got : Values \cup {NoEntry},
                         overtaken : BOOLEAN]
    <2>1. \A r \in Readers : query[r] \in Query BY DEF CacheTypeOK
    <2>2. \A q \in Query : [q EXCEPT !.overtaken = TRUE] \in Query OBVIOUS
    <2>3. query' \in [Readers -> Query]
        <3> HIDE DEF Query
        <3> QED BY <2>1, <2>2 DEF SetStored
    <2>4. setting' \in [Keys -> Values] /\ toStore' \in [Writers -> SUBSET Keys]
          /\ late' \subseteq Keys
        BY DEF SetStored, CacheTypeOK
    <2> QED BY <2>3, <2>4 DEF SetStored, CacheTypeOK
<1>2. AnswersAreCurrent'
    <2> SUFFICES ASSUME NEW r \in Readers, query'[r].got # NoEntry
                 PROVE  /\ query'[r].key # NoEntry
                        /\ ~query'[r].overtaken => query'[r].got = setting'[query'[r].key]
        BY DEF AnswersAreCurrent
    <2>1. query'[r].key = query[r].key /\ query'[r].got = query[r].got
        BY DEF SetStored, CacheTypeOK
    <2>2. ~query'[r].overtaken => query[r].key # k /\ ~query[r].overtaken
        BY <2>1 DEF SetStored, CacheTypeOK
    <2> QED BY <2>1, <2>2 DEF SetStored, CacheTypeOK, AnswersAreCurrent
<1>3. WrittenIsDropped' BY DEF SetStored, CacheTypeOK, WrittenIsDropped
<1>4. w \in threw \/ k \in toDrop[w] BY DEF SetStored, WrittenIsDropped
<1>5. CacheAgrees' BY <1>4 DEF SetStored, CacheTypeOK, CacheAgrees
<1> QED BY <1>1, <1>2, <1>3, <1>5

(* The call returns, or throws and drops nothing.                          *)
LEMMA SetEndsKeepsInv ==
    ASSUME CacheInv, NEW w \in Writers,
           \/ SetReturns(w) \/ SetLookupRefused(w)
           \/ \E k \in Keys : SetStoreRefused(w, k)
    PROVE  CacheInv'
<1> USE DEF CacheInv
<1>1. CASE SetReturns(w)
    <2>1. CacheTypeOK' BY <1>1 DEF SetReturns, Delete, CacheTypeOK
    <2>2. AnswersAreCurrent' BY <1>1 DEF SetReturns, AnswersAreCurrent
    <2>3. WrittenIsDropped' BY <1>1 DEF SetReturns, CacheTypeOK, WrittenIsDropped
    <2>4. CacheAgrees' BY <1>1 DEF SetReturns, Delete, CacheTypeOK, CacheAgrees
    <2> QED BY <2>1, <2>2, <2>3, <2>4
<1>2. CASE SetLookupRefused(w)
    <2>1. CacheTypeOK' BY <1>2 DEF SetLookupRefused, CacheTypeOK
    <2>2. AnswersAreCurrent' BY <1>2 DEF SetLookupRefused, AnswersAreCurrent
    <2>3. WrittenIsDropped' BY <1>2 DEF SetLookupRefused, CacheTypeOK, WrittenIsDropped
    <2>4. CacheAgrees' BY <1>2 DEF SetLookupRefused, CacheTypeOK, CacheAgrees
    <2> QED BY <2>1, <2>2, <2>3, <2>4
<1>3. ASSUME NEW k \in Keys, SetStoreRefused(w, k) PROVE CacheInv'
    <2>1. CacheTypeOK' BY <1>3 DEF SetStoreRefused, CacheTypeOK
    <2>2. AnswersAreCurrent' BY <1>3 DEF SetStoreRefused, AnswersAreCurrent
    <2>3. WrittenIsDropped' BY <1>3 DEF SetStoreRefused, CacheTypeOK, WrittenIsDropped
    <2>4. CacheAgrees' BY <1>3 DEF SetStoreRefused, CacheTypeOK, CacheAgrees
    <2> QED BY <2>1, <2>2, <2>3, <2>4
<1> QED BY <1>1, <1>2, <1>3

LEMMA CacheInvNext == CacheInv /\ [CacheNext]_cacheVars => CacheInv'
<1> SUFFICES ASSUME CacheInv, [CacheNext]_cacheVars PROVE CacheInv' OBVIOUS
<1>1. CASE \E r \in Readers : GetStep(r) \/ \E k \in Keys : GetMissed(r, k)
    BY <1>1, GetKeepsInv
<1>2. CASE \E w \in Writers : SetStep(w)
    BY <1>2, SetBeginsKeepsInv, SetStoredKeepsInv, SetEndsKeepsInv DEF SetStep
<1>3. CASE \E w \in Writers, ks \in SUBSET Keys \ {{}}, v \in Values : SetCalled(w, ks, v)
    BY <1>3, SetBeginsKeepsInv
<1>4. CASE CleanerTick
    <2> USE DEF CacheInv
    <2>1. CacheTypeOK' BY <1>4 DEF CleanerTick, Delete, Listed, CacheTypeOK, setCalls
    <2>2. AnswersAreCurrent' BY <1>4 DEF CleanerTick, AnswersAreCurrent
    <2>3. WrittenIsDropped' BY <1>4 DEF CleanerTick, WrittenIsDropped, setCalls
    <2>4. CacheAgrees' BY <1>4 DEF CleanerTick, Delete, CacheTypeOK, CacheAgrees, setCalls
    <2> QED BY <2>1, <2>2, <2>3, <2>4
<1>5. CASE CacheCrash
    <2> USE DEF CacheInv
    <2>1. CacheTypeOK' BY <1>5 DEF CacheCrash, CacheTypeOK, Idle
    <2>2. AnswersAreCurrent' BY <1>5 DEF CacheCrash, AnswersAreCurrent, Idle
    <2>3. WrittenIsDropped' BY <1>5 DEF CacheCrash, WrittenIsDropped
    <2>4. CacheAgrees' BY <1>5 DEF CacheCrash, CacheAgrees
    <2> QED BY <2>1, <2>2, <2>3, <2>4
<1>6. CASE UNCHANGED cacheVars
    BY <1>6 DEF cacheVars, setCalls, CacheInv, CacheTypeOK, AnswersAreCurrent,
                WrittenIsDropped, CacheAgrees
<1> QED BY <1>1, <1>2, <1>3, <1>4, <1>5, <1>6 DEF CacheNext

-----------------------------------------------------------------------------
(* Settings.get(), set(), setSettings(): an entry that differs from its    *)
(* row is about to be deleted, was filled from an overtaken read, or was   *)
(* left by a call that threw.                                              *)
THEOREM CacheAlwaysAgrees == CacheSpec => []CacheAgrees
<1>1. CacheInv => CacheAgrees BY DEF CacheInv
<1> QED BY CacheInvInit, CacheInvNext, <1>1, PTL DEF CacheSpec

LEMMA CacheTypes == CacheSpec => []CacheTypeOK
<1>1. CacheInv => CacheTypeOK BY DEF CacheInv
<1> QED BY CacheInvInit, CacheInvNext, <1>1, PTL DEF CacheSpec

-----------------------------------------------------------------------------
(* The cooldown: a line that is about to store an alert has stored none    *)
(* within the cooldown, for its query was later and time only passes.      *)
CooldownInv ==
    /\ CooldownTypeOK
    /\ \A l \in Lines : evaluation[l] = "insert" =>
          \A t \in events[judging[l]][l] : clock - t >= Cooldown

LEMMA CooldownInvHolds == CooldownSpec => []CooldownInv
<1>1. CooldownInit => CooldownInv
  <2>1. (CHOOSE k \in Kinds : TRUE) \in Kinds
    BY CooldownAssumption
  <2> QED
    BY <2>1, CooldownAssumption DEF CooldownInit, CooldownInv, CooldownTypeOK, Times
<1>2. CooldownInv /\ [CooldownNext]_cooldownVars => CooldownInv'
  <2> SUFFICES ASSUME CooldownInv, [CooldownNext]_cooldownVars PROVE CooldownInv'
    OBVIOUS
  <2> USE CooldownAssumption DEF CooldownInv, CooldownTypeOK, Times
  <2>1. CASE Tick
    <3>1. CooldownTypeOK'
      BY <2>1 DEF Tick
    <3>2. \A l \in Lines : \A t \in events[judging[l]][l] : t \in Int
      OBVIOUS
    <3> QED
      BY <2>1, <3>1, <3>2 DEF Tick
  <2>2. ASSUME NEW l \in Lines, NEW k \in Kinds, LooksBad(l, k) PROVE CooldownInv'
    BY <2>2 DEF LooksBad, Proceeds
  <2>3. ASSUME NEW l \in Lines, CooldownChecked(l) PROVE CooldownInv'
    <3>1. CooldownTypeOK'
      BY <2>3 DEF CooldownChecked, Proceeds
    <3>2. ~Cooling(judging[l]) => \A t \in events[judging[l]][l] : clock - t >= Cooldown
      <4>1. \A t \in events[judging[l]][l] : t \in AlertTimes(judging[l])
        BY DEF AlertTimes
      <4>2. \A t \in events[judging[l]][l] : t \in Int
        OBVIOUS
      <4> QED
        BY <4>1, <4>2 DEF Cooling
    <3> QED
      BY <2>3, <3>1, <3>2 DEF CooldownChecked, Proceeds
  <2>4. ASSUME NEW l \in Lines, EventInserted(l) PROVE CooldownInv'
    <3>1. events' \in [Kinds -> [Lines -> SUBSET Times]]
      BY <2>4 DEF EventInserted
    <3>2. CooldownTypeOK'
      BY <2>4, <3>1 DEF EventInserted, Proceeds
    <3>3. \A j \in Lines, k \in Kinds : j # l => events'[k][j] = events[k][j]
      BY <2>4 DEF EventInserted
    <3> QED
      BY <2>4, <3>2, <3>3 DEF EventInserted, Proceeds
  <2>5. ASSUME NEW l \in Lines, EventSent(l) PROVE CooldownInv'
    BY <2>5 DEF EventSent, Proceeds
  <2>6. ASSUME NEW l \in Lines, EvaluationFails(l) PROVE CooldownInv'
    BY <2>6 DEF EvaluationFails, Proceeds
  <2>7. CASE UNCHANGED cooldownVars
    BY <2>7 DEF cooldownVars
  <2> QED
    BY <2>1, <2>2, <2>3, <2>4, <2>5, <2>6, <2>7 DEF CooldownNext
<1> QED
  BY <1>1, <1>2, PTL DEF CooldownSpec

(* No line raises two alerts of a kind within the cooldown, however the    *)
(* lines overlap (AlertsAreSparse; monitor.js, evaluateAnomaly() and       *)
(* evaluateWarningThreshold()).                                            *)
THEOREM AlertsStaySparse == CooldownSpec => AlertsAreSparse
<1>1. CooldownInv =>
        [\A l \in Lines : EventInserted(l) =>
            \A t \in events[judging[l]][l] : clock - t >= Cooldown]_cooldownVars
  BY DEF CooldownInv, EventInserted
<1> QED
  BY <1>1, CooldownInvHolds, PTL DEF AlertsAreSparse, CooldownSpec

LEMMA CooldownTypes == CooldownSpec => []CooldownTypeOK
<1>1. CooldownInv => CooldownTypeOK BY DEF CooldownInv
<1> QED BY CooldownInvHolds, <1>1, PTL

-----------------------------------------------------------------------------
(* The buttons.  As long as no two webhooks about a message were handled   *)
(* at the same time, the one that is going on has taken the row away       *)
(* before it obeys, and the row never comes back.                          *)
TapsOf(m) == {h \in Taps : tap[h].message = m}

OnePress(m) ==
    /\ alerts[m] # "done" => m \notin pending /\ obeyed[m] = 0 /\ TapsOf(m) = {}
    /\ m \notin doubled =>
          /\ obeyed[m] <= 1
          /\ m \in pending => obeyed[m] = 0
          /\ \A h \in TapsOf(m) :
                /\ \A g \in TapsOf(m) : g = h
                /\ tap[h].stage \in {"link", "consume", "obey"} => obeyed[m] = 0
                /\ tap[h].stage = "obey" => m \notin pending

(* And as long as taps follow one another, only the one that is going on   *)
(* may have left the runner behind its row.                                *)
OneTap ==
    ~disturbed =>
        /\ \A g, h \in Taps : ~Resting(g) /\ ~Resting(h) => g = h
        /\ (\A h \in Taps : tap[h].stage \notin {"stop", "start"}) => running = active
        /\ \A h \in Taps : /\ tap[h].stage = "stop" => active = FALSE
                           /\ tap[h].stage = "start" => active = TRUE

ButtonInv == ButtonsTypeOK /\ (\A m \in Messages : OnePress(m)) /\ OneTap

LEMMA ButtonInvInit == ButtonsInit => ButtonInv
<1> SUFFICES ASSUME ButtonsInit PROVE ButtonInv OBVIOUS
<1>1. ButtonsTypeOK
  BY DEF ButtonsInit, ButtonsTypeOK, NoTap, Actions
<1>2. \A m \in Messages : OnePress(m)
  BY NoMessageAssumption DEF ButtonsInit, OnePress, TapsOf, NoTap
<1>3. OneTap
  BY DEF ButtonsInit, OneTap, Resting, NoTap
<1> QED
  BY <1>1, <1>2, <1>3 DEF ButtonInv

LEMMA ButtonInvNext == ButtonInv /\ [ButtonsNext]_buttonVars => ButtonInv'
<1> SUFFICES ASSUME ButtonInv, [ButtonsNext]_buttonVars PROVE ButtonInv' OBVIOUS
<1> USE NoMessageAssumption DEF ButtonInv, ButtonsTypeOK, NoTap, Actions
<1>1. ASSUME NEW m \in Messages, MessageSent(m) PROVE ButtonInv'
  <2>1. ButtonsTypeOK'
    BY <1>1 DEF MessageSent
  <2>2. \A x \in Messages : OnePress(x)'
    BY <1>1 DEF MessageSent, OnePress, TapsOf
  <2>3. OneTap'
    BY <1>1 DEF MessageSent, Resting, OneTap
  <2> QED
    BY <2>1, <2>2, <2>3
<1>2. ASSUME NEW m \in Messages, ActionRecorded(m) PROVE ButtonInv'
  <2>1. ButtonsTypeOK'
    BY <1>2 DEF ActionRecorded
  <2>2. \A x \in Messages : OnePress(x)'
    BY <1>2 DEF ActionRecorded, OnePress, TapsOf
  <2>3. OneTap'
    BY <1>2 DEF ActionRecorded, Resting, OneTap
  <2> QED
    BY <2>1, <2>2, <2>3
<1>3. ASSUME NEW m \in Messages, ActionUnrecorded(m) PROVE ButtonInv'
  <2>1. ButtonsTypeOK'
    BY <1>3 DEF ActionUnrecorded
  <2>2. \A x \in Messages : OnePress(x)'
    BY <1>3 DEF ActionUnrecorded, OnePress, TapsOf
  <2>3. OneTap'
    BY <1>3 DEF ActionUnrecorded, Resting, OneTap
  <2> QED
    BY <2>1, <2>2, <2>3
<1>4. ASSUME NEW h \in Taps, NEW m \in Messages, NEW a \in Actions, Tapped(h, m, a) PROVE ButtonInv'
  <2>1. ButtonsTypeOK'
    BY <1>4 DEF Tapped, TapBegins
  <2>2. \A x \in Messages : OnePress(x)'
    BY <1>4 DEF Tapped, TapBegins, Resting, OnePress, TapsOf
  <2>3. OneTap'
    BY <1>4 DEF Tapped, TapBegins, Resting, OneTap
  <2> QED
    BY <2>1, <2>2, <2>3
<1>5. ASSUME NEW h \in Taps, NEW a \in Actions, Replied(h, a) PROVE ButtonInv'
  <2>1. ButtonsTypeOK'
    BY <1>5 DEF Replied, TapBegins
  <2>2. \A x \in Messages : OnePress(x)'
    BY <1>5 DEF Replied, TapBegins, Resting, OnePress, TapsOf
  <2>3. OneTap'
    BY <1>5 DEF Replied, TapBegins, Resting, OneTap
  <2> QED
    BY <2>1, <2>2, <2>3
<1>6. ASSUME NEW h \in Taps, LinkRead(h) PROVE ButtonInv'
  <2>1. ButtonsTypeOK'
    BY <1>6 DEF LinkRead, TapGoes, TapEnds
  <2>2. \A x \in Messages : OnePress(x)'
    BY <1>6 DEF LinkRead, TapGoes, TapEnds, Resting, OnePress, TapsOf
  <2>3. OneTap'
    BY <1>6 DEF LinkRead, TapGoes, TapEnds, Resting, OneTap
  <2> QED
    BY <2>1, <2>2, <2>3
<1>7. ASSUME NEW h \in Taps, Consumed(h) PROVE ButtonInv'
  <2>1. ButtonsTypeOK'
    BY <1>7 DEF Consumed, TapGoes
  <2>2. \A x \in Messages : OnePress(x)'
    BY <1>7 DEF Consumed, TapGoes, Resting, OnePress, TapsOf
  <2>3. OneTap'
    BY <1>7 DEF Consumed, TapGoes, Resting, OneTap
  <2> QED
    BY <2>1, <2>2, <2>3
<1>8. ASSUME NEW h \in Taps, RowSet(h) PROVE ButtonInv'
  <2>1. ButtonsTypeOK'
    BY <1>8 DEF RowSet, TapGoes, CountsObeyed
  <2>2. \A x \in Messages : OnePress(x)'
    BY <1>8 DEF RowSet, TapGoes, CountsObeyed, Resting, OnePress, TapsOf
  <2>3. OneTap'
    <3> SUFFICES ASSUME ~disturbed PROVE OneTap'
      BY <1>8 DEF RowSet, OneTap
    <3>1. /\ tap'[h].stage = IF tap[h].action = "pause" THEN "stop" ELSE "start"
          /\ \A g \in Taps : g # h => tap'[g] = tap[g]
          /\ active' = (tap[h].action = "resume") /\ tap[h].action \in {"pause", "resume"}
      BY <1>8 DEF RowSet, TapGoes
    <3>2. ~Resting(h) /\ ~Resting(h)'
      BY <1>8, <3>1 DEF RowSet, Resting
    <3>3. \A g \in Taps : g # h => Resting(g) /\ Resting(g)'
      BY <3>1, <3>2 DEF OneTap, Resting
    <3> QED
      BY <3>1, <3>2, <3>3 DEF OneTap, Resting
  <2> QED
    BY <2>1, <2>2, <2>3
<1>9. ASSUME NEW h \in Taps, Acknowledged(h) PROVE ButtonInv'
  <2>1. ButtonsTypeOK'
    BY <1>9 DEF Acknowledged, TapEnds, CountsObeyed
  <2>2. \A x \in Messages : OnePress(x)'
    BY <1>9 DEF Acknowledged, TapEnds, CountsObeyed, Resting, OnePress, TapsOf
  <2>3. OneTap'
    BY <1>9 DEF Acknowledged, TapEnds, CountsObeyed, Resting, OneTap
  <2> QED
    BY <2>1, <2>2, <2>3
<1>10. ASSUME NEW h \in Taps, Stopped(h) PROVE ButtonInv'
  <2>1. ButtonsTypeOK'
    BY <1>10 DEF Stopped, TapEnds
  <2>2. \A x \in Messages : OnePress(x)'
    BY <1>10 DEF Stopped, TapEnds, Resting, OnePress, TapsOf
  <2>3. OneTap'
    BY <1>10 DEF Stopped, TapEnds, Resting, OneTap
  <2> QED
    BY <2>1, <2>2, <2>3
<1>11. ASSUME NEW h \in Taps, Started(h) PROVE ButtonInv'
  <2>1. ButtonsTypeOK'
    BY <1>11 DEF Started, TapEnds
  <2>2. \A x \in Messages : OnePress(x)'
    BY <1>11 DEF Started, TapEnds, Resting, OnePress, TapsOf
  <2>3. OneTap'
    BY <1>11 DEF Started, TapEnds, Resting, OneTap
  <2> QED
    BY <2>1, <2>2, <2>3
<1>12. ASSUME NEW h \in Taps, TapFails(h) PROVE ButtonInv'
  <2>1. ButtonsTypeOK'
    BY <1>12 DEF TapFails, TapEnds
  <2>2. \A x \in Messages : OnePress(x)'
    BY <1>12 DEF TapFails, TapEnds, Resting, OnePress, TapsOf
  <2>3. OneTap'
    BY <1>12 DEF TapFails, TapEnds, Resting, OneTap
  <2> QED
    BY <2>1, <2>2, <2>3
<1>13. CASE LinkChanged
  <2>1. ButtonsTypeOK'
    BY <1>13 DEF LinkChanged
  <2>2. \A x \in Messages : OnePress(x)'
    BY <1>13 DEF LinkChanged, OnePress, TapsOf
  <2>3. OneTap'
    BY <1>13 DEF LinkChanged, OneTap, Resting
  <2> QED
    BY <2>1, <2>2, <2>3
<1>14. CASE ButtonsCrash
  <2>1. ButtonsTypeOK'
    BY <1>14 DEF ButtonsCrash
  <2>2. \A x \in Messages : OnePress(x)'
    BY <1>14 DEF ButtonsCrash, OnePress, TapsOf
  <2>3. OneTap'
    BY <1>14 DEF ButtonsCrash, OneTap, Resting
  <2> QED
    BY <2>1, <2>2, <2>3
<1>15. CASE UNCHANGED buttonVars
  <2>1. ButtonsTypeOK'
    BY <1>15 DEF buttonVars
  <2>2. \A x \in Messages : OnePress(x)'
    BY <1>15 DEF buttonVars, OnePress, TapsOf
  <2>3. OneTap'
    BY <1>15 DEF buttonVars, OneTap, Resting
  <2> QED
    BY <2>1, <2>2, <2>3
<1> QED
  BY <1>1, <1>2, <1>3, <1>4, <1>5, <1>6, <1>7, <1>8, <1>9, <1>10, <1>11, <1>12, <1>13,
     <1>14, <1>15 DEF ButtonsNext

LEMMA ButtonInvHolds == ButtonsSpec => []ButtonInv
  BY ButtonInvInit, ButtonInvNext, PTL DEF ButtonsSpec

(* The buttons of a message are obeyed once, unless two webhooks about it  *)
(* are handled at the same time (OneShot; izapia-callback-router.js).      *)
THEOREM ButtonsWorkOnce == ButtonsSpec => []OneShot
<1>1. ButtonInv => OneShot
  BY DEF ButtonInv, OnePress, OneShot
<1> QED
  BY <1>1, ButtonInvHolds, PTL

(* After taps that followed one another, failed or were cut off by a       *)
(* crash, the runner is there if and only if the row says so               *)
(* (RunnerFollowsRow).                                                     *)
THEOREM RowsRuleRunners == ButtonsSpec => []RunnerFollowsRow
<1>1. ButtonInv => RunnerFollowsRow
  BY DEF ButtonInv, OneTap, RunnerFollowsRow, Resting
<1> QED
  BY <1>1, ButtonInvHolds, PTL

(* Both (ButtonsHold).                                                     *)
THEOREM ButtonsAlwaysHold == ButtonsSpec => []ButtonsHold
<1>1. OneShot /\ RunnerFollowsRow => ButtonsHold
  BY DEF ButtonsHold
<1> QED
  BY <1>1, ButtonsWorkOnce, RowsRuleRunners, PTL

LEMMA ButtonsTypes == ButtonsSpec => []ButtonsTypeOK
<1>1. ButtonInv => ButtonsTypeOK BY DEF ButtonInv
<1> QED BY ButtonInvHolds, <1>1, PTL

-----------------------------------------------------------------------------
(* The groups of a status page.  As long as no deletion has overlapped     *)
(* with a save, the deletion that is going on is the only call, and once   *)
(* the page has gone there is none.                                        *)
SaveRecords ==
    [stage : {"idle", "group", "empty", "fill", "remove"}, plan : Plans \cup {<<>>},
     kept : Seq(Groups), todo : SUBSET Shown]

PageShape ==
    /\ lastGroup \in 0 .. MaxGroups /\ groupRows \subseteq Groups
    /\ save \in [Editors -> SaveRecords]

RemovalsAlone ==
    ~removing =>
        /\ \A e \in Editors : save[e].stage = "remove" =>
              groupRows = {} /\ \A d \in Editors : ~Ready(d) => d = e
        /\ ~page => groupRows = {} /\ \A e \in Editors : Ready(e)

PageInv == PageShape /\ RemovalsAlone

(* What a group is to show next is monitors.                               *)
LEMMA WantedShape ==
    ASSUME PageShape, NEW e \in Editors, MoreGroups(e)
    PROVE  Wanted(e).id \in 0 .. MaxGroups /\ Wanted(e).shows \in SUBSET Shown
<1> DEFINE Asked == [id : 0 .. MaxGroups, shows : SUBSET Shown]
<1>a. Plans \subseteq Seq(Asked)
  BY PlansAssumption, Zenon
<1> HIDE DEF Asked
<1>b. <<>> \in Seq(Asked)
  OBVIOUS
<1>1. save[e].plan \in Seq(Asked)
  BY <1>a, <1>b DEF PageShape, SaveRecords
<1>2. Len(save[e].kept) + 1 \in 1 .. Len(save[e].plan)
  BY <1>1 DEF PageShape, SaveRecords, MoreGroups
<1>3. Wanted(e) \in Asked
  BY <1>1, <1>2 DEF Wanted
<1> QED
  BY <1>3 DEF Asked

LEMMA NoSaveShape ==
    /\ NoSave \in SaveRecords
    /\ [NoSave EXCEPT !.stage = "remove"] \in SaveRecords
    /\ \A plan \in Plans : [NoSave EXCEPT !.stage = "group", !.plan = plan] \in SaveRecords
<1>1. <<>> \in Seq(Groups)
  OBVIOUS
<1> QED
  BY <1>1 DEF NoSave, SaveRecords

LEMMA PageInvInit == PageInit => PageInv
<1> SUFFICES ASSUME PageInit PROVE PageInv OBVIOUS
<1>1. save \in [Editors -> SaveRecords]
  BY NoSaveShape DEF PageInit
<1>2. PageShape
  BY <1>1, PlansAssumption DEF PageInit, PageShape
<1>3. RemovalsAlone
  BY DEF PageInit, RemovalsAlone, NoSave, Ready
<1> QED
  BY <1>2, <1>3 DEF PageInv

LEMMA PageInvNext == PageInv /\ [PageNext]_pageVars => PageInv'
<1> SUFFICES ASSUME PageInv, [PageNext]_pageVars PROVE PageInv' OBVIOUS
<1> USE DEF PageInv
<1>1. ASSUME NEW e \in Editors, NEW plan \in Plans, SaveCalled(e, plan) PROVE PageInv'
  <2>1. PageShape'
    BY <1>1, NoSaveShape DEF SaveCalled, BeginsSave, PageShape
  <2>2. RemovalsAlone'
    BY <1>1 DEF SaveCalled, BeginsSave, NoSave, PageShape, SaveRecords, RemovalsAlone, Ready
  <2> QED
    BY <2>1, <2>2
<1>2. ASSUME NEW e \in Editors, GroupStored(e) PROVE PageInv'
  <2>0. Wanted(e).id \in 0 .. MaxGroups
    BY <1>2, WantedShape DEF GroupStored
  <2>1. PICK g \in Groups : Kept(e, g)
    <3>1. lastGroup < MaxGroups => lastGroup + 1 \in Groups
      BY PlansAssumption DEF PageShape, Groups
    <3> QED
      BY <1>2, <3>1 DEF GroupStored, PageShape
  <2>2. groupRows' \subseteq Groups /\ lastGroup' \in 0 .. MaxGroups
    <3>1. lastGroup < MaxGroups => lastGroup + 1 \in Groups /\ lastGroup + 1 \in 0 .. MaxGroups
      BY PlansAssumption DEF PageShape, Groups
    <3> QED
      BY <1>2, <3>1 DEF GroupStored, PageShape
  <2>3. Wanted(e).shows \in SUBSET Shown
    BY <1>2, WantedShape DEF GroupStored
  <2>4. Append(save[e].kept, g) \in Seq(Groups)
    BY <2>1 DEF PageShape, SaveRecords
  <2>5. PageShape'
    BY <1>2, <2>1, <2>2, <2>3, <2>4 DEF GroupStored, Kept, PageShape, SaveRecords
  <2>6. RemovalsAlone'
    BY <1>2, <2>1 DEF GroupStored, Kept, PageShape, SaveRecords, RemovalsAlone, Ready
  <2> QED
    BY <2>5, <2>6
<1>3. ASSUME NEW e \in Editors, GroupEmptied(e) PROVE PageInv'
  <2>1. PageShape'
    BY <1>3 DEF GroupEmptied, Filled, SaveRecords, PageShape
  <2>2. RemovalsAlone'
    BY <1>3 DEF GroupEmptied, Filled, PageShape, SaveRecords, RemovalsAlone, Ready
  <2> QED
    BY <2>1, <2>2
<1>4. ASSUME NEW e \in Editors, NEW m \in Shown, MonitorShown(e, m) PROVE PageInv'
  <2>1. PageShape'
    <3> DEFINE next == [save[e] EXCEPT !.todo = @ \ {m},
                            !.stage = IF save[e].todo = {m} THEN "group" ELSE "fill"]
    <3>1. next \in SaveRecords
      BY DEF PageShape, SaveRecords
    <3>2. save' = [save EXCEPT ![e] = next] /\ UNCHANGED <<lastGroup, groupRows>>
      BY <1>4 DEF MonitorShown, PageShape, SaveRecords
    <3> HIDE DEF next
    <3> QED
      BY <3>1, <3>2 DEF PageShape
  <2>2. RemovalsAlone'
    BY <1>4 DEF MonitorShown, PageShape, SaveRecords, RemovalsAlone, Ready
  <2> QED
    BY <2>1, <2>2
<1>5. ASSUME NEW e \in Editors, OthersDropped(e) PROVE PageInv'
  <2>1. PageShape'
    BY <1>5, NoSaveShape DEF OthersDropped, Dropped, Ended, PageShape
  <2>2. RemovalsAlone'
    BY <1>5 DEF OthersDropped, Dropped, Ended, NoSave, PageShape, SaveRecords,
       RemovalsAlone, Ready
  <2> QED
    BY <2>1, <2>2
<1>6. ASSUME NEW e \in Editors, SaveFails(e) PROVE PageInv'
  <2>1. PageShape'
    BY <1>6, NoSaveShape DEF SaveFails, Ended, PageShape
  <2>2. RemovalsAlone'
    BY <1>6 DEF SaveFails, Ended, NoSave, PageShape, SaveRecords, RemovalsAlone, Ready
  <2> QED
    BY <2>1, <2>2
<1>7. ASSUME NEW e \in Editors, RemoveCalled(e) PROVE PageInv'
  <2>1. PageShape'
    BY <1>7, NoSaveShape DEF RemoveCalled, BeginsSave, Dropped, PageShape
  <2>2. RemovalsAlone'
    BY <1>7 DEF RemoveCalled, BeginsSave, Dropped, NoSave, PageShape, SaveRecords,
       RemovalsAlone, Ready
  <2> QED
    BY <2>1, <2>2
<1>8. ASSUME NEW e \in Editors, PageRemoved(e) PROVE PageInv'
  <2>1. PageShape'
    BY <1>8, NoSaveShape DEF PageRemoved, Ended, PageShape
  <2>2. RemovalsAlone'
    BY <1>8 DEF PageRemoved, Ended, NoSave, PageShape, SaveRecords, RemovalsAlone, Ready
  <2> QED
    BY <2>1, <2>2
<1>9. CASE PageCrash
  <2>1. PageShape'
    BY <1>9, NoSaveShape DEF PageCrash, PageShape
  <2>2. RemovalsAlone'
    BY <1>9 DEF PageCrash, NoSave, PageShape, SaveRecords, RemovalsAlone, Ready
  <2> QED
    BY <2>1, <2>2
<1>10. CASE UNCHANGED pageVars
  <2>1. PageShape'
    BY <1>10 DEF pageVars, SaveRecords, PageShape
  <2>2. RemovalsAlone'
    BY <1>10 DEF pageVars, PageShape, SaveRecords, RemovalsAlone, Ready
  <2> QED
    BY <2>1, <2>2
<1> QED
  BY <1>1, <1>2, <1>3, <1>4, <1>5, <1>6, <1>7, <1>8, <1>9, <1>10 DEF PageNext

(* No group outlives its page, whatever overlaps, is refused or is cut off *)
(* by a crash, unless a save was going on (NoOrphanGroups;                 *)
(* status-page-socket-handler.js, deleteStatusPage).                       *)
THEOREM GroupsGoWithPage == PageSpec => []NoOrphanGroups
<1>1. PageInv => NoOrphanGroups
  BY DEF PageInv, RemovalsAlone, NoOrphanGroups
<1> QED
  BY <1>1, PageInvInit, PageInvNext, PTL DEF PageSpec

(* What a save that nothing has overlapped has done so far: its groups are *)
(* there, each of its own, and those it is done with show their monitors.  *)
Saving(e) == save[e].stage \in {"group", "empty", "fill"}
ShowsOnce(g, ms) == shows[g] = [m \in Shown |-> IF m \in ms THEN 1 ELSE 0]

GroupsOfItsOwn(e) ==
    LET plan == save[e].plan  kept == save[e].kept
    IN /\ \A i \in DOMAIN plan : plan[i].id <= lastGroup
       /\ \A i \in DOMAIN kept :
             /\ kept[i] \in groupRows /\ kept[i] <= lastGroup
             /\ plan[i].id # New => kept[i] = plan[i].id
             /\ plan[i].id = New => \A j \in DOMAIN plan : plan[j].id < kept[i]
       /\ \A i, j \in DOMAIN kept : kept[i] = kept[j] => i = j

FilledSoFar(e) ==
    LET plan == save[e].plan  kept == save[e].kept  last == Len(kept)
    IN /\ \A i \in DOMAIN kept :
             i < last \/ save[e].stage = "group" => ShowsOnce(kept[i], plan[i].shows)
       /\ save[e].stage # "group" => last > 0 /\ save[e].todo \subseteq plan[last].shows
       /\ save[e].stage = "empty" => save[e].todo = plan[last].shows
       /\ save[e].stage = "fill" => ShowsOnce(kept[last], plan[last].shows \ save[e].todo)

SavedSoFar ==
    \A e \in Editors : intact[e] =>
        /\ \A d \in Editors : d # e => Ready(d)
        /\ Saving(e) => GroupsOfItsOwn(e) /\ FilledSoFar(e)

SaveShape ==
    /\ intact \in [Editors -> BOOLEAN] /\ groupRows \subseteq 1 .. lastGroup
    /\ shows \in [Groups -> [Shown -> Nat]]
    /\ \A e \in Editors : Len(save[e].kept) <= Len(save[e].plan)

SaveInv == PageShape /\ SaveShape /\ SavedSoFar

LEMMA SaveInvInit == PageInit => SaveInv
<1> SUFFICES ASSUME PageInit PROVE SaveInv OBVIOUS
<1>1. PageShape
  BY PageInvInit DEF PageInv
<1>2. SaveShape /\ SavedSoFar
  BY PlansAssumption DEF PageInit, SaveShape, SavedSoFar, NoSave, Empty
<1> QED
  BY <1>1, <1>2 DEF SaveInv

(* What a call's plan and groups are.                                      *)
LEMMA PlanShape ==
    ASSUME SaveInv, NEW e \in Editors
    PROVE  /\ \A i \in DOMAIN save[e].plan :
                 save[e].plan[i].id \in Nat /\ save[e].plan[i].shows \in SUBSET Shown
           /\ DOMAIN save[e].plan = 1 .. Len(save[e].plan) /\ Len(save[e].plan) \in Nat
           /\ save[e].kept \in Seq(Groups) /\ save[e].todo \in SUBSET Shown
           /\ Len(save[e].kept) <= Len(save[e].plan)
           /\ \A i, j \in DOMAIN save[e].plan :
                 save[e].plan[i].id = save[e].plan[j].id => i = j \/ save[e].plan[i].id = New
<1> DEFINE Asked == [id : 0 .. MaxGroups, shows : SUBSET Shown]
<1>a. Plans \subseteq Seq(Asked)
  BY PlansAssumption, Zenon
<1>b. \A plan \in Plans : \A i, j \in DOMAIN plan :
         plan[i].id = plan[j].id => i = j \/ plan[i].id = New
  BY PlansAssumption, Zenon
<1> HIDE DEF Asked
<1>c. <<>> \in Seq(Asked) /\ DOMAIN <<>> = {}
  OBVIOUS
<1>1. save[e] \in SaveRecords /\ Len(save[e].kept) <= Len(save[e].plan)
  BY DEF SaveInv, PageShape, SaveShape
<1>2. save[e].plan \in Plans \cup {<<>>} /\ save[e].kept \in Seq(Groups)
      /\ save[e].todo \in SUBSET Shown
  BY <1>1 DEF SaveRecords
<1>3. save[e].plan \in Seq(Asked)
  BY <1>2, <1>a, <1>c
<1>4. \A i, j \in DOMAIN save[e].plan :
         save[e].plan[i].id = save[e].plan[j].id => i = j \/ save[e].plan[i].id = New
  BY <1>2, <1>b, <1>c
<1>5. /\ \A i \in DOMAIN save[e].plan : save[e].plan[i] \in Asked
      /\ DOMAIN save[e].plan = 1 .. Len(save[e].plan) /\ Len(save[e].plan) \in Nat
  BY <1>3
<1>6. MaxGroups \in Nat
  BY PlansAssumption, Zenon
<1>7. \A a \in Asked : a.id \in Nat /\ a.shows \in SUBSET Shown
  BY <1>6 DEF Asked
<1> QED
  BY <1>1, <1>2, <1>4, <1>5, <1>7

(* A call that goes on is the only one that nothing may have overlapped.   *)
LEMMA OnlyThisSave ==
    ASSUME SaveInv, NEW e \in Editors, ~Ready(e), intact' = intact,
           \A d \in Editors : d # e => save'[d] = save[d],
           intact[e] /\ Saving(e)' => GroupsOfItsOwn(e)' /\ FilledSoFar(e)'
    PROVE  SavedSoFar'
<1>1. \A d \in Editors : intact[d] => d = e
  BY DEF SaveInv, SavedSoFar
<1>2. intact[e] => \A d \in Editors : d # e => Ready(d)'
  BY DEF SaveInv, SavedSoFar, Ready
<1> QED
  BY <1>1, <1>2 DEF SavedSoFar

LEMMA GroupStoredKeepsSave ==
    ASSUME SaveInv, NEW e \in Editors, GroupStored(e), PageShape'
    PROVE  SaveShape' /\ SavedSoFar'
<1> DEFINE plan == save[e].plan
           kept == save[e].kept
           n == Len(kept) + 1
<1>0. MaxGroups \in Nat
  BY PlansAssumption, Zenon
<1>1. /\ \A i \in DOMAIN plan : plan[i].id \in Nat /\ plan[i].shows \in SUBSET Shown
      /\ DOMAIN plan = 1 .. Len(plan) /\ Len(plan) \in Nat /\ kept \in Seq(Groups)
      /\ n \in 1 .. Len(plan) /\ save[e].todo \in SUBSET Shown
  BY PlanShape DEF GroupStored, MoreGroups
<1>a. \A i, j \in DOMAIN plan : plan[i].id = plan[j].id => i = j \/ plan[i].id = New
  BY PlanShape
<1>2. lastGroup \in Nat /\ lastGroup' \in Nat /\ lastGroup <= lastGroup'
      /\ groupRows \subseteq groupRows' /\ groupRows' \subseteq 1 .. lastGroup'
  BY <1>0 DEF GroupStored, SaveInv, SaveShape, PageShape
<1>3. PICK g : /\ Kept(e, g) /\ g \in groupRows' /\ g <= lastGroup'
               /\ Wanted(e).id # New => g = Wanted(e).id /\ lastGroup' = lastGroup
               /\ Wanted(e).id = New => g = lastGroup + 1
  <2>1. CASE Wanted(e).id = New
    BY <1>2, <2>1 DEF GroupStored
  <2>2. CASE Wanted(e).id # New
    <3>1. Wanted(e).id \in groupRows /\ Wanted(e).id <= lastGroup
      <4>1. Wanted(e).id \in groupRows
        BY <2>2 DEF GroupStored
      <4>2. \A g \in groupRows : g \in 1 .. lastGroup
        BY DEF SaveInv, SaveShape
      <4>3. \A g \in 1 .. lastGroup : g <= lastGroup
        BY <1>2
      <4> QED
        BY <4>1, <4>2, <4>3
    <3> QED
      BY <1>2, <2>2, <3>1 DEF GroupStored
  <2> QED
    BY <2>1, <2>2
<1>4. g \in Groups /\ g \in Nat
  BY <1>2, <1>3 DEF PageShape, Groups
<1>5. /\ save'[e].stage = "empty" /\ save'[e].plan = plan
      /\ save'[e].kept = Append(kept, g) /\ save'[e].todo = plan[n].shows
      /\ \A d \in Editors : d # e => save'[d] = save[d]
  BY <1>3 DEF Kept, Wanted, SaveInv, PageShape, SaveRecords
<1> DEFINE kept2 == Append(kept, g)
<1>6. /\ Len(kept2) = n /\ DOMAIN kept2 = 1 .. n /\ DOMAIN kept = 1 .. n - 1 /\ kept2[n] = g
      /\ \A i \in 1 .. n - 1 : kept2[i] = kept[i] /\ kept[i] \in Nat
      /\ DOMAIN plan = 1 .. Len(plan) /\ n \in DOMAIN plan
  <2>1. \A h \in Groups : h \in Nat
    BY <1>0 DEF Groups
  <2>2. kept \in Seq(Groups) /\ n \in DOMAIN plan /\ DOMAIN plan = 1 .. Len(plan)
    BY <1>1
  <2>3. Len(kept2) = n /\ DOMAIN kept2 = 1 .. n /\ DOMAIN kept = 1 .. n - 1 /\ kept2[n] = g
        /\ \A i \in 1 .. n - 1 : kept2[i] = kept[i] /\ kept[i] \in Groups
    <3> HIDE DEF kept
    <3> QED
      BY <1>4, <2>2
  <2> QED
    BY <2>1, <2>2, <2>3
<1>7. SaveShape'
  <2>1. Len(save'[e].kept) <= Len(save'[e].plan)
    BY <1>1, <1>5, <1>6
  <2>2. intact' = intact /\ shows' = shows
    BY DEF GroupStored
  <2> QED
    BY <1>2, <1>5, <2>1, <2>2 DEF SaveInv, SaveShape
<1>8. ASSUME intact[e] PROVE GroupsOfItsOwn(e)' /\ FilledSoFar(e)'
  <2>0. GroupsOfItsOwn(e) /\ FilledSoFar(e) /\ save[e].stage = "group"
    BY <1>8 DEF GroupStored, SaveInv, SavedSoFar, Saving
  <2> DEFINE Id(i) == plan[i].id
             Shows(i) == plan[i].shows
  <2>a. \A i \in DOMAIN plan : Id(i) \in Nat
    BY <1>1
  <2>b. \A i, j \in DOMAIN plan : Id(i) = Id(j) => i = j \/ Id(i) = New
    BY <1>a
  <2>c. Id(n) # New => g = Id(n) /\ lastGroup' = lastGroup
    BY <1>3 DEF Wanted
  <2>d. Id(n) = New => g = lastGroup + 1
    BY <1>3 DEF Wanted
  <2>1. \A i \in DOMAIN plan : Id(i) <= lastGroup
    BY <2>0 DEF GroupsOfItsOwn
  <2>2. \A i \in 1 .. n - 1 :
             /\ kept[i] \in groupRows /\ kept[i] <= lastGroup
             /\ Id(i) # New => kept[i] = Id(i)
             /\ Id(i) = New => \A j \in DOMAIN plan : Id(j) < kept[i]
    BY <2>0, <1>6 DEF GroupsOfItsOwn
  <2>3. \A i, j \in 1 .. n - 1 : kept[i] = kept[j] => i = j
    BY <2>0, <1>6 DEF GroupsOfItsOwn
  <2>4. \A i \in 1 .. n - 1 : ShowsOnce(kept[i], Shows(i))
    BY <2>0, <1>6 DEF FilledSoFar
  <2> HIDE DEF plan, kept, n, kept2, Id, Shows
  <2>e. n \in Nat /\ 1 .. n - 1 \subseteq DOMAIN plan /\ n \in DOMAIN plan
    BY <1>1, <1>6 DEF kept, n
  <2>5. \A i \in 1 .. n - 1 : kept[i] # g
    <3>1. CASE Id(n) = New
      BY <3>1, <1>2, <1>6, <2>2, <2>d
    <3>2. CASE Id(n) # New
      <4> SUFFICES ASSUME NEW i \in 1 .. n - 1, kept[i] = g PROVE FALSE
        OBVIOUS
      <4>1. i \in DOMAIN plan /\ i # n
        BY <2>e
      <4>2. CASE Id(i) = New
        BY <4>1, <4>2, <3>2, <1>6, <2>2, <2>a, <2>c, <2>e
      <4>3. CASE Id(i) # New
        BY <4>1, <4>3, <3>2, <2>b, <2>2, <2>c, <2>e
      <4> QED
        BY <4>2, <4>3
    <3> QED
      BY <3>1, <3>2
  <2>6. \A i \in 1 .. n :
             /\ kept2[i] \in groupRows' /\ kept2[i] <= lastGroup'
             /\ Id(i) # New => kept2[i] = Id(i)
             /\ Id(i) = New => \A j \in DOMAIN plan : Id(j) < kept2[i]
    <3> SUFFICES ASSUME NEW i \in 1 .. n
                 PROVE  /\ kept2[i] \in groupRows' /\ kept2[i] <= lastGroup'
                        /\ Id(i) # New => kept2[i] = Id(i)
                        /\ Id(i) = New => \A j \in DOMAIN plan : Id(j) < kept2[i]
      OBVIOUS
    <3>1. CASE i = n
      BY <3>1, <1>2, <1>3, <1>6, <2>1, <2>a, <2>c, <2>d
    <3>2. CASE i # n
      <4>1. i \in 1 .. n - 1
        BY <3>2, <2>e
      <4> QED
        BY <4>1, <1>2, <1>6, <2>2
    <3> QED
      BY <3>1, <3>2
  <2>7. \A i, j \in 1 .. n : kept2[i] = kept2[j] => i = j
    BY <2>3, <2>5, <2>e, <1>6
  <2>8. \A i \in DOMAIN plan : Id(i) <= lastGroup'
    BY <2>1, <1>2, <2>a
  <2>9. \A i \in 1 .. n : i < n => ShowsOnce(kept2[i], Shows(i))
    BY <2>4, <2>e, <1>6
  <2>10. shows' = shows
    BY DEF GroupStored
  <2>11. GroupsOfItsOwn(e)'
    BY <1>5, <1>6, <2>6, <2>7, <2>8 DEF GroupsOfItsOwn, Id, kept2
  <2>12. FilledSoFar(e)'
    BY <1>5, <1>6, <2>9, <2>10, <2>e DEF FilledSoFar, ShowsOnce, Shows, kept2
  <2> QED
    BY <2>11, <2>12
<1>9. intact' = intact /\ ~Ready(e)
  BY DEF GroupStored, Ready
<1> QED
  BY <1>5, <1>7, <1>8, <1>9, OnlyThisSave

(* Emptying a group, or putting a monitor in it, leaves the groups before  *)
(* it as they are.                                                         *)
LEMMA CurrentChanges ==
    ASSUME SaveInv, NEW e \in Editors, intact[e], save[e].stage \in {"empty", "fill"},
           groupRows' = groupRows, lastGroup' = lastGroup,
           save'[e].plan = save[e].plan, save'[e].kept = save[e].kept,
           save'[e].stage \in {"group", "fill"},
           save'[e].todo \subseteq save[e].todo,
           save'[e].stage = "group" => save'[e].todo = {},
           \A g \in Groups : g # Current(e) => shows'[g] = shows[g],
           shows'[Current(e)] = [m \in Shown |->
               IF m \in save[e].plan[Len(save[e].kept)].shows \ save'[e].todo THEN 1 ELSE 0]
    PROVE  GroupsOfItsOwn(e)' /\ FilledSoFar(e)'
<1> DEFINE plan == save[e].plan
           kept == save[e].kept
           n == Len(kept)
<1>0. GroupsOfItsOwn(e) /\ FilledSoFar(e)
  BY DEF SaveInv, SavedSoFar, Saving
<1>1. GroupsOfItsOwn(e)'
  BY <1>0 DEF GroupsOfItsOwn
<1>2. kept \in Seq(Groups)
  BY PlanShape
<1>3. n \in Nat /\ n > 0 /\ DOMAIN kept = 1 .. n /\ \A i \in 1 .. n : kept[i] \in Groups
  <2>1. n > 0
    BY <1>0 DEF FilledSoFar
  <2> HIDE DEF kept
  <2> QED
    BY <1>2, <2>1
<1>4. \A i \in 1 .. n : i < n => kept[i] # kept[n]
  BY <1>0, <1>3 DEF GroupsOfItsOwn
<1>5. \A i \in 1 .. n : i < n => ShowsOnce(kept[i], plan[i].shows)
  BY <1>0, <1>3 DEF FilledSoFar
<1>6. \A i \in 1 .. n : i < n => ShowsOnce(kept[i], plan[i].shows)'
  BY <1>3, <1>4, <1>5 DEF ShowsOnce, Current
<1>7. shows'[kept[n]] = [m \in Shown |-> IF m \in plan[n].shows \ save'[e].todo THEN 1 ELSE 0]
  BY DEF Current
<1>8. save'[e].todo \subseteq plan[n].shows
  BY <1>0 DEF FilledSoFar
<1>9. FilledSoFar(e)'
  <2>1. CASE save'[e].stage = "group"
    <3>1. plan[n].shows \ save'[e].todo = plan[n].shows
      BY <2>1
    <3>2. ShowsOnce(kept[n], plan[n].shows)'
      BY <1>7, <3>1 DEF ShowsOnce
    <3>3. \A i \in 1 .. n : ShowsOnce(kept[i], plan[i].shows)'
      BY <1>3, <1>6, <3>2
    <3> QED
      BY <1>3, <2>1, <3>3 DEF FilledSoFar
  <2>2. CASE save'[e].stage = "fill"
    BY <1>3, <1>6, <1>7, <1>8, <2>2 DEF FilledSoFar, ShowsOnce
  <2> QED
    BY <2>1, <2>2
<1> QED
  BY <1>1, <1>9

LEMMA FillingKeepsSave ==
    ASSUME SaveInv, NEW e \in Editors,
           GroupEmptied(e) \/ \E m \in Shown : MonitorShown(e, m)
    PROVE  SaveShape' /\ SavedSoFar'
<1> DEFINE n == Len(save[e].kept)
           wanted == save[e].plan[n].shows
<1>0. SaveShape /\ save[e] \in SaveRecords /\ save[e].todo \in SUBSET Shown
  BY DEF SaveInv, PageShape, SaveRecords
<1>1. ASSUME GroupEmptied(e) PROVE SaveShape' /\ SavedSoFar'
  <2>1. /\ save'[e].plan = save[e].plan /\ save'[e].kept = save[e].kept
        /\ save'[e].stage = Filled(e) /\ save'[e].todo = save[e].todo
        /\ \A d \in Editors : d # e => save'[d] = save[d]
    BY <1>0, <1>1 DEF GroupEmptied, SaveInv, PageShape, SaveRecords
  <2>2. \A g \in Groups : g # Current(e) => shows'[g] = shows[g]
    BY <1>0, <1>1 DEF GroupEmptied, SaveShape
  <2>3. SaveShape'
    <3>1. shows' \in [Groups -> [Shown -> Nat]]
      BY <1>0, <1>1 DEF GroupEmptied, SaveShape, Empty
    <3> QED
      BY <1>0, <1>1, <2>1, <3>1 DEF GroupEmptied, SaveShape
  <2>4. ASSUME intact[e] PROVE GroupsOfItsOwn(e)' /\ FilledSoFar(e)'
    <3>1. FilledSoFar(e) /\ GroupsOfItsOwn(e) /\ save[e].stage = "empty"
      BY <1>1, <2>4 DEF GroupEmptied, SaveInv, SavedSoFar, Saving
    <3>2. Current(e) \in Groups
      <4>1. n > 0 /\ save[e].kept \in Seq(Groups)
        BY <3>1, PlanShape DEF FilledSoFar
      <4> QED
        BY <4>1 DEF Current
    <3>3. save[e].todo = wanted
      BY <3>1 DEF FilledSoFar
    <3>4. shows'[Current(e)] = [m \in Shown |-> IF m \in wanted \ save'[e].todo THEN 1 ELSE 0]
      <4>1. wanted \ save'[e].todo = {}
        BY <2>1, <3>3
      <4>2. shows'[Current(e)] = Empty
        BY <1>0, <1>1, <3>2 DEF GroupEmptied, SaveShape
      <4> QED
        BY <4>1, <4>2 DEF Empty
    <3> QED
      BY <1>1, <2>1, <2>2, <2>4, <3>1, <3>4, CurrentChanges DEF GroupEmptied, Filled
  <2> QED
    BY <1>1, <2>1, <2>3, <2>4, OnlyThisSave DEF GroupEmptied, Ready
<1>2. ASSUME NEW m \in Shown, MonitorShown(e, m) PROVE SaveShape' /\ SavedSoFar'
  <2>1. /\ save'[e].plan = save[e].plan /\ save'[e].kept = save[e].kept
        /\ save'[e].stage = IF save[e].todo = {m} THEN "group" ELSE "fill"
        /\ save'[e].todo = save[e].todo \ {m}
        /\ \A d \in Editors : d # e => save'[d] = save[d]
    BY <1>0, <1>2 DEF MonitorShown, SaveInv, PageShape, SaveRecords
  <2>0. Current(e) \in Groups
    BY <1>2 DEF MonitorShown, SaveInv, PageShape
  <2>2. /\ \A g \in Groups : g # Current(e) => shows'[g] = shows[g]
        /\ shows'[Current(e)] = [shows[Current(e)] EXCEPT ![m] = shows[Current(e)][m] + 1]
    BY <1>0, <1>2, <2>0 DEF MonitorShown, SaveShape
  <2>3. SaveShape'
    <3>1. shows' \in [Groups -> [Shown -> Nat]]
      BY <1>0, <1>2, <2>0 DEF MonitorShown, SaveShape
    <3> QED
      BY <1>0, <1>2, <2>1, <3>1 DEF MonitorShown, SaveShape
  <2>4. ASSUME intact[e] PROVE GroupsOfItsOwn(e)' /\ FilledSoFar(e)'
    <3>1. FilledSoFar(e) /\ save[e].stage = "fill"
      BY <1>2, <2>4 DEF MonitorShown, SaveInv, SavedSoFar, Saving
    <3>2. /\ shows[Current(e)] = [k \in Shown |-> IF k \in wanted \ save[e].todo THEN 1 ELSE 0]
          /\ save[e].todo \subseteq wanted /\ m \in save[e].todo
      BY <1>2, <3>1 DEF FilledSoFar, ShowsOnce, Current, MonitorShown
    <3>3. shows'[Current(e)] = [k \in Shown |-> IF k \in wanted \ save'[e].todo THEN 1 ELSE 0]
      <4>1. \A k \in Shown : k \in wanted \ save'[e].todo <=>
                                 k = m \/ k \in wanted \ save[e].todo
        BY <2>1, <3>2
      <4>2. shows[Current(e)][m] = 0
        BY <3>2
      <4>3. shows'[Current(e)] = [k \in Shown |-> IF k = m THEN 1 ELSE shows[Current(e)][k]]
        BY <2>2, <3>2, <4>2
      <4>4. \A k \in Shown : (IF k = m THEN 1 ELSE shows[Current(e)][k])
                                 = IF k \in wanted \ save'[e].todo THEN 1 ELSE 0
        BY <3>2, <4>1
      <4> QED
        BY <4>3, <4>4
    <3> QED
      BY <1>2, <2>1, <2>2, <2>4, <3>1, <3>3, CurrentChanges DEF MonitorShown
  <2> QED
    BY <1>2, <2>1, <2>3, <2>4, OnlyThisSave DEF MonitorShown, Ready
<1> QED
  BY <1>1, <1>2

(* The steps that begin or end a call.                                     *)
LEMMA EndingKeepsSave ==
    ASSUME SaveInv, NEW e \in Editors, ~Ready(e), Ended(e),
           lastGroup' = lastGroup, groupRows' \subseteq groupRows,
           shows' \in [Groups -> [Shown -> Nat]]
    PROVE  SaveShape' /\ SavedSoFar'
<1>1. /\ save'[e] = NoSave /\ ~Saving(e)' /\ intact' = intact
      /\ \A d \in Editors : d # e => save'[d] = save[d]
  BY DEF Ended, SaveInv, PageShape, Saving, NoSave
<1>2. SaveShape'
  <2>1. Len(NoSave.kept) <= Len(NoSave.plan)
    BY DEF NoSave
  <2> QED
    BY <1>1, <2>1 DEF SaveInv, SaveShape
<1>3. SavedSoFar'
  BY <1>1, OnlyThisSave
<1> QED
  BY <1>2, <1>3

LEMMA BeginningKeepsSave ==
    ASSUME SaveInv, NEW e \in Editors, NEW task \in SaveRecords, BeginsSave(e, task),
           task.stage \in {"group", "remove"}, task.kept = <<>>,
           lastGroup' = lastGroup, groupRows' \subseteq groupRows,
           shows' \in [Groups -> [Shown -> Nat]],
           \A i \in DOMAIN task.plan : task.plan[i].id <= lastGroup,
           Len(task.plan) \in Nat
    PROVE  SaveShape' /\ SavedSoFar'
<1>1. save'[e] = task /\ \A d \in Editors : d # e => save'[d] = save[d]
  BY DEF BeginsSave, SaveInv, PageShape
<1>2. SaveShape'
  BY <1>1 DEF BeginsSave, SaveInv, SaveShape
<1>3. \A d \in Editors : intact'[d] => d = e /\ \A f \in Editors : Ready(f)
  BY DEF BeginsSave
<1>4. Saving(e)' => GroupsOfItsOwn(e)' /\ FilledSoFar(e)'
  BY <1>1 DEF Saving, GroupsOfItsOwn, FilledSoFar
<1>5. SavedSoFar'
  BY <1>1, <1>3, <1>4 DEF SavedSoFar, Ready
<1> QED
  BY <1>2, <1>5

LEMMA DroppedShape ==
    ASSUME SaveInv, NEW gs, Dropped(gs)
    PROVE  groupRows' \subseteq groupRows /\ shows' \in [Groups -> [Shown -> Nat]]
BY DEF Dropped, SaveInv, SaveShape, Empty

LEMMA SaveInvNext == SaveInv /\ PageInv /\ [PageNext]_pageVars => SaveInv'
<1> SUFFICES ASSUME SaveInv, PageInv, [PageNext]_pageVars PROVE SaveInv' OBVIOUS
<1>0. PageShape'
  BY PageInvNext DEF PageInv
<1>a. SaveShape
  BY DEF SaveInv
<1>1. ASSUME NEW e \in Editors, NEW plan \in Plans, SaveCalled(e, plan)
      PROVE  SaveShape' /\ SavedSoFar'
  <2> DEFINE task == [NoSave EXCEPT !.stage = "group", !.plan = plan]
  <2>1. task \in SaveRecords /\ task.stage = "group" /\ task.kept = <<>> /\ task.plan = plan
    BY NoSaveShape DEF NoSave
  <2>2. Len(plan) \in Nat
    <3> DEFINE Asked == [id : 0 .. MaxGroups, shows : SUBSET Shown]
    <3>1. plan \in Seq(Asked)
      BY PlansAssumption, Zenon
    <3> HIDE DEF Asked
    <3> QED
      BY <3>1
  <2>3. BeginsSave(e, task) /\ lastGroup' = lastGroup /\ groupRows' = groupRows /\ shows' = shows
        /\ \A i \in DOMAIN plan : plan[i].id <= lastGroup
    BY <1>1 DEF SaveCalled
  <2> HIDE DEF task
  <2> QED
    BY <1>a, <2>1, <2>2, <2>3, BeginningKeepsSave DEF SaveShape
<1>2. ASSUME NEW e \in Editors, GroupStored(e) PROVE SaveShape' /\ SavedSoFar'
  BY <1>0, <1>2, GroupStoredKeepsSave
<1>3. ASSUME NEW e \in Editors, GroupEmptied(e) \/ \E m \in Shown : MonitorShown(e, m)
      PROVE  SaveShape' /\ SavedSoFar'
  BY <1>3, FillingKeepsSave
<1>4. ASSUME NEW e \in Editors, OthersDropped(e) PROVE SaveShape' /\ SavedSoFar'
  BY <1>4, DroppedShape, EndingKeepsSave DEF OthersDropped, Ready
<1>5. ASSUME NEW e \in Editors, SaveFails(e) PROVE SaveShape' /\ SavedSoFar'
  BY <1>a, <1>5, EndingKeepsSave DEF SaveFails, SaveShape
<1>6. ASSUME NEW e \in Editors, RemoveCalled(e) PROVE SaveShape' /\ SavedSoFar'
  <2> DEFINE task == [NoSave EXCEPT !.stage = "remove"]
  <2>1. task \in SaveRecords /\ task.stage = "remove" /\ task.kept = <<>> /\ task.plan = <<>>
    BY NoSaveShape DEF NoSave
  <2>2. Len(<<>>) \in Nat /\ DOMAIN <<>> = {}
    OBVIOUS
  <2>3. BeginsSave(e, task) /\ lastGroup' = lastGroup /\ Dropped(groupRows)
    BY <1>6 DEF RemoveCalled
  <2> HIDE DEF task
  <2> QED
    BY <2>1, <2>2, <2>3, DroppedShape, BeginningKeepsSave
<1>7. ASSUME NEW e \in Editors, PageRemoved(e) PROVE SaveShape' /\ SavedSoFar'
  BY <1>a, <1>7, EndingKeepsSave DEF PageRemoved, SaveShape, Ready
<1>8. CASE PageCrash
  <2>1. SaveShape'
    <3>1. Len(NoSave.kept) <= Len(NoSave.plan)
      BY DEF NoSave
    <3> QED
      BY <1>a, <1>8, <3>1 DEF PageCrash, SaveShape
  <2>2. SavedSoFar'
    BY <1>8 DEF PageCrash, SavedSoFar
  <2> QED
    BY <1>0, <2>1, <2>2 DEF SaveInv
<1>9. CASE UNCHANGED pageVars
  <2>1. SaveShape'
    BY <1>a, <1>9 DEF pageVars, SaveShape
  <2>2. SavedSoFar'
    BY <1>9 DEF pageVars, SaveInv, SavedSoFar, Ready, Saving, GroupsOfItsOwn, FilledSoFar,
       ShowsOnce
  <2> QED
    BY <1>0, <2>1, <2>2 DEF SaveInv
<1> QED
  BY <1>0, <1>1, <1>2, <1>3, <1>4, <1>5, <1>6, <1>7, <1>8, <1>9 DEF PageNext, SaveInv

(* A save that nothing overlapped makes the page what its client asked     *)
(* for, whatever the calls before it have left (SavedAsAsked;              *)
(* status-page-socket-handler.js, saveStatusPage).                         *)
THEOREM SavesAreExact == PageSpec => SavedAsAsked
<1> DEFINE Exact(e) ==
        OthersDropped(e) /\ intact[e] =>
            LET plan == save[e].plan  kept == save[e].kept
            IN /\ groupRows' = {kept[i] : i \in DOMAIN plan}
               /\ \A i \in DOMAIN plan :
                     shows'[kept[i]] = [m \in Shown |-> IF m \in plan[i].shows THEN 1 ELSE 0]
<1>1. SaveInv /\ [PageNext]_pageVars => [\A e \in Editors : Exact(e)]_pageVars
  <2> SUFFICES ASSUME SaveInv, NEW e \in Editors, OthersDropped(e), intact[e]
               PROVE  LET plan == save[e].plan  kept == save[e].kept
                      IN /\ groupRows' = {kept[i] : i \in DOMAIN plan}
                         /\ \A i \in DOMAIN plan : shows'[kept[i]] =
                               [m \in Shown |-> IF m \in plan[i].shows THEN 1 ELSE 0]
    OBVIOUS
  <2> DEFINE plan == save[e].plan
             kept == save[e].kept
  <2>1. GroupsOfItsOwn(e) /\ FilledSoFar(e) /\ save[e].stage = "group"
    BY DEF OthersDropped, SaveInv, SavedSoFar, Saving
  <2>2. kept \in Seq(Groups) /\ Len(kept) <= Len(plan) /\ ~(Len(kept) < Len(plan))
        /\ Len(plan) \in Nat /\ DOMAIN plan = 1 .. Len(plan)
    BY PlanShape DEF OthersDropped, MoreGroups
  <2>3. DOMAIN kept = DOMAIN plan /\ \A i \in DOMAIN kept : kept[i] \in Groups
    <3> HIDE DEF kept, plan
    <3> QED
      BY <2>2
  <2>4. \A i \in DOMAIN plan : kept[i] \in groupRows /\ ShowsOnce(kept[i], plan[i].shows)
    BY <2>1, <2>3 DEF GroupsOfItsOwn, FilledSoFar
  <2>5. \A i \in DOMAIN plan : kept[i] \in InList(e)
    BY <2>3 DEF InList
  <2>6. \A g \in InList(e) : \E i \in DOMAIN plan : g = kept[i]
    BY <2>3 DEF InList
  <2>7. Dropped(groupRows \ InList(e))
    BY DEF OthersDropped
  <2>8. groupRows' = {kept[i] : i \in DOMAIN plan}
    <3>1. groupRows' = groupRows \ (groupRows \ InList(e))
      BY <2>7 DEF Dropped
    <3> QED
      BY <2>4, <2>5, <2>6, <3>1
  <2>9. \A i \in DOMAIN plan : shows'[kept[i]] = shows[kept[i]]
    BY <2>3, <2>4, <2>5, <2>7 DEF Dropped
  <2> QED
    BY <2>4, <2>8, <2>9 DEF ShowsOnce
<1>2. SaveInv /\ PageInv /\ [PageNext]_pageVars => SaveInv' /\ PageInv'
  BY SaveInvNext, PageInvNext
<1> QED
  BY SaveInvInit, PageInvInit, <1>1, <1>2, PTL DEF PageSpec, SavedAsAsked

LEMMA PageTypes == PageSpec => []PageTypeOK
<1>1. PageInit => page \in BOOLEAN /\ removing \in BOOLEAN
  BY DEF PageInit
<1>2. page \in BOOLEAN /\ removing \in BOOLEAN /\ [PageNext]_pageVars
        => (page \in BOOLEAN /\ removing \in BOOLEAN)'
  BY DEF PageNext, pageVars, PageCrash, SaveCalled, GroupStored, GroupEmptied, MonitorShown,
     OthersDropped, SaveFails, RemoveCalled, PageRemoved, BeginsSave, Ended
<1>3. SaveInv /\ page \in BOOLEAN /\ removing \in BOOLEAN => PageTypeOK
  BY DEF SaveInv, PageShape, SaveShape, SaveRecords, PageTypeOK
<1> QED
  BY <1>1, <1>2, <1>3, SaveInvInit, SaveInvNext, PageInvInit, PageInvNext, PTL DEF PageSpec

-----------------------------------------------------------------------------
(* Where pages are found.  As long as no two calls have overlapped and    *)
(* none has failed half-way, there is one visit, and its stage says what   *)
(* may differ: the list of domains until it is loaded, the entry page      *)
(* until it has followed its page, the setting until it is stored.         *)
VisitRecords ==
    [stage : {"idle", "store", "domains", "load", "list", "groups", "moved", "remove", "entry"},
     page : Pages \cup {Nowhere}, was : SlugsOrNone, slug : SlugsOrNone,
     domains : SUBSET Domains, list : [Domains -> SlugsOrNone]]

AddressShape ==
    /\ slug \in [Pages -> SlugsOrNone]
    /\ cname \in [Domains -> Pages \cup {Nowhere}]
    /\ visit \in [Keepers -> VisitRecords]

At(e, stages) == visit[e].stage \in stages

(* Ids that were not given have no row, no domain and no visit.            *)
FreshIds ==
    /\ \A p \in Pages \ used : ~Exists(p)
    /\ \A d \in Domains : cname[d] \in used \cup {Nowhere}
    /\ \A e \in Keepers : ~At(e, {"idle", "entry"}) => visit[e].page \in used \cap Pages

OneVisit ==
    ~crossing => \A e, f \in Keepers : ~At(e, {"idle"}) /\ ~At(f, {"idle"}) => e = f

Reached(s) == s = Nowhere \/ \E p \in Pages : slug[p] = s

Serial == ~crossing /\ ~halfDone

VisitKnows ==
    Serial => \A e \in Keepers :
        LET v == visit[e] IN
        /\ At(e, {"store", "remove"}) => Exists(v.page) /\ slug[v.page] = v.was
        /\ At(e, {"store"}) => v.slug # Nowhere
        /\ At(e, {"domains", "load", "list", "groups", "moved"}) =>
              Exists(v.page) /\ slug[v.page] = v.slug
        /\ At(e, {"list"}) => v.list = Joined
        /\ At(e, {"moved"}) => entry = v.slug
        /\ At(e, {"remove"}) => entry # v.was
        /\ At(e, {"entry"}) => entrySetting = v.slug /\ Reached(v.slug)

MappingFresh ==
    Serial /\ (\A e \in Keepers : ~At(e, {"domains", "load", "list"})) =>
        \A d \in Domains \ leftOver : mapping[d] = Joined[d]

EntryFollows ==
    Serial =>
        /\ (\A e \in Keepers : ~At(e, {"moved", "entry"})) => entry = entrySetting
        /\ Reached(entry) \/ \E e \in Keepers :
              At(e, {"domains", "load", "list", "groups"}) /\ entry = visit[e].was

AddressInv ==
    AddressShape /\ FreshIds /\ OneVisit /\ VisitKnows /\ MappingFresh /\ EntryFollows

LEMMA NoVisitShape ==
    /\ NoVisit \in VisitRecords /\ NoVisit.stage = "idle"
    /\ \A p \in Pages, s \in SlugsOrNone, w \in SlugsOrNone, ds \in SUBSET Domains,
          place \in {"store", "remove", "entry"} :
          [NoVisit EXCEPT !.stage = place, !.page = p, !.was = w, !.slug = s, !.domains = ds]
              \in VisitRecords
  BY DEF NoVisit, VisitRecords, SlugsOrNone

(* A visit that goes on changes its stage; one that ends leaves nothing.   *)
LEMMA GoesOn ==
    ASSUME AddressShape, NEW e \in Keepers, NEW place, Goes(e, place),
           place \in {"domains", "load", "moved"}
    PROVE  /\ visit' \in [Keepers -> VisitRecords]
           /\ \A f \in Keepers \ {e} : visit'[f] = visit[f]
           /\ visit'[e].stage = place /\ visit'[e].page = visit[e].page
           /\ visit'[e].was = visit[e].was /\ visit'[e].slug = visit[e].slug
<1>1. visit[e] \in VisitRecords
  BY DEF AddressShape
<1>2. [visit[e] EXCEPT !.stage = place] \in VisitRecords
  BY <1>1 DEF VisitRecords
<1> QED
  BY <1>1, <1>2 DEF Goes, AddressShape, VisitRecords

LEMMA VisitEnds ==
    ASSUME AddressShape, NEW e \in Keepers, Leaves(e)
    PROVE  /\ visit' \in [Keepers -> VisitRecords]
           /\ \A f \in Keepers \ {e} : visit'[f] = visit[f]
           /\ visit'[e].stage = "idle"
  BY NoVisitShape DEF Leaves, AddressShape

LEMMA JoinedShape == AddressShape => Joined \in [Domains -> SlugsOrNone]
  BY DEF AddressShape, Joined, SlugsOrNone

LEMMA AddressInvInit == AddressInit => AddressInv
<1> SUFFICES ASSUME AddressInit PROVE AddressInv OBVIOUS
<1>1. AddressShape
  BY NoVisitShape DEF AddressInit, AddressShape, SlugsOrNone
<1>2. \A e \in Keepers : visit[e].stage = "idle"
  BY NoVisitShape DEF AddressInit
<1>3. FreshIds /\ OneVisit
  BY <1>2 DEF AddressInit, FreshIds, OneVisit, At, Exists
<1>4. VisitKnows
  BY <1>2 DEF VisitKnows, At
<1>5. MappingFresh
  BY DEF AddressInit, MappingFresh, Joined
<1>6. EntryFollows
  BY DEF AddressInit, EntryFollows, Reached
<1> QED
  BY <1>1, <1>3, <1>4, <1>5, <1>6 DEF AddressInv

LEMMA AddressInvNext == AddressInv /\ [AddressNext]_addressVars => AddressInv'
<1> SUFFICES ASSUME AddressInv, [AddressNext]_addressVars PROVE AddressInv' OBVIOUS
<1> USE NowhereAssumption DEF AddressInv, AddressShape
<1>1. CASE AddressCrash
  <2>0. \A e \in Keepers : visit'[e].stage = "idle"
    BY <1>1, NoVisitShape DEF AddressCrash
  <2>1. AddressShape'
    BY <1>1, NoVisitShape DEF AddressCrash, SlugsOrNone
  <2>2. FreshIds'
    BY <1>1, <2>0 DEF AddressCrash, FreshIds, At, Exists
  <2>3. OneVisit'
    BY <1>1, <2>0 DEF AddressCrash, OneVisit, At
  <2>4. VisitKnows'
    BY <1>1, <2>0 DEF AddressCrash, VisitKnows, At
  <2>5. MappingFresh'
    BY <1>1 DEF AddressCrash, FreshIds, OneVisit, VisitKnows, MappingFresh, Serial, At,
       Exists, Joined, VisitRecords
  <2>6. EntryFollows'
    BY <1>1 DEF AddressCrash, FreshIds, OneVisit, VisitKnows, EntryFollows, Serial, At,
       Exists, Reached, VisitRecords, SlugsOrNone
  <2> QED
    BY <2>1, <2>2, <2>3, <2>4, <2>5, <2>6
<1>2. ASSUME NEW p \in Pages, NEW s \in Slugs, PageAdded(p, s) PROVE AddressInv'
  <2>1. AddressShape'
    BY <1>2 DEF PageAdded, VisitRecords, SlugsOrNone, Joined
  <2>2. FreshIds'
    BY <1>2 DEF PageAdded, FreshIds, At, Exists, VisitRecords
  <2>3. OneVisit'
    BY <1>2 DEF PageAdded, OneVisit, At, VisitRecords
  <2>4. VisitKnows'
    BY <1>2 DEF PageAdded, FreshIds, OneVisit, VisitKnows, EntryFollows, Serial, At,
       Exists, Reached, Joined, VisitRecords, SlugsOrNone
  <2>5. MappingFresh'
    BY <1>2 DEF PageAdded, FreshIds, OneVisit, VisitKnows, MappingFresh, Serial, At,
       Exists, Joined, VisitRecords
  <2>6. EntryFollows'
    BY <1>2 DEF PageAdded, FreshIds, OneVisit, VisitKnows, EntryFollows, Serial, At,
       Exists, Reached, VisitRecords, SlugsOrNone
  <2> QED
    BY <2>1, <2>2, <2>3, <2>4, <2>5, <2>6
<1>3. ASSUME NEW e \in Keepers, NEW p \in Pages, NEW s \in Slugs, NEW ds \in SUBSET Domains,
              PageSaved(e, p, s, ds)
       PROVE  AddressInv'
  <2>1. AddressShape'
    BY <1>3 DEF PageSaved, Enters, NoVisit, VisitRecords, SlugsOrNone, Joined
  <2>2. FreshIds'
    BY <1>3 DEF PageSaved, Enters, NoVisit, FreshIds, At, Exists, VisitRecords
  <2>3. OneVisit'
    BY <1>3 DEF PageSaved, Enters, NoVisit, OneVisit, At, VisitRecords
  <2>4. VisitKnows'
    BY <1>3 DEF PageSaved, Enters, NoVisit, FreshIds, OneVisit, VisitKnows,
       EntryFollows, Serial, At, Exists, Reached, Joined, VisitRecords, SlugsOrNone
  <2>5. MappingFresh'
    BY <1>3 DEF PageSaved, Enters, NoVisit, FreshIds, OneVisit, VisitKnows,
       MappingFresh, Serial, At, Exists, Joined, VisitRecords
  <2>6. EntryFollows'
    BY <1>3 DEF PageSaved, Enters, NoVisit, FreshIds, OneVisit, VisitKnows,
       EntryFollows, Serial, At, Exists, Reached, VisitRecords, SlugsOrNone
  <2> QED
    BY <2>1, <2>2, <2>3, <2>4, <2>5, <2>6
<1>4. ASSUME NEW e \in Keepers, PageStored(e) PROVE AddressInv'
  <2>0. /\ visit' \in [Keepers -> VisitRecords]
        /\ \A f \in Keepers \ {e} : visit'[f] = visit[f]
        /\ visit'[e].stage = "domains" /\ visit'[e].page = visit[e].page
        /\ visit'[e].was = visit[e].was /\ visit'[e].slug = visit[e].slug
    BY <1>4, GoesOn DEF PageStored
  <2>1. AddressShape'
    BY <1>4, <2>0 DEF PageStored, VisitRecords, SlugsOrNone
  <2>2. FreshIds'
    BY <1>4 DEF PageStored, Goes, FreshIds, At, Exists, VisitRecords
  <2>3. OneVisit'
    BY <1>4 DEF PageStored, Goes, OneVisit, At, VisitRecords
  <2>4. VisitKnows'
    <3>1. visit[e].page \in Pages /\ visit[e].page \in used
      BY <1>4 DEF PageStored, FreshIds, At
    <3>2. Serial' => Serial /\ \A f \in Keepers \ {e} : visit'[f].stage = "idle"
      BY <1>4, <2>0 DEF PageStored, Serial, OneVisit, At
    <3>3. Serial' => slug'[visit[e].page] # Nowhere /\ slug'[visit[e].page] = visit[e].slug
      BY <1>4, <3>1, <3>2 DEF PageStored, VisitKnows, Exists, At
    <3> QED
      BY <2>0, <3>2, <3>3 DEF VisitKnows, At, Exists
  <2>5. MappingFresh'
    BY <1>4 DEF PageStored, Goes, FreshIds, OneVisit, VisitKnows, MappingFresh, Serial,
       At, Exists, Joined, VisitRecords
  <2>6. EntryFollows'
    BY <1>4 DEF PageStored, Goes, FreshIds, OneVisit, VisitKnows, EntryFollows, Serial,
       At, Exists, Reached, VisitRecords, SlugsOrNone
  <2> QED
    BY <2>1, <2>2, <2>3, <2>4, <2>5, <2>6
<1>5. ASSUME NEW e \in Keepers, DomainsStored(e) PROVE AddressInv'
  <2>0. /\ visit' \in [Keepers -> VisitRecords]
        /\ \A f \in Keepers \ {e} : visit'[f] = visit[f]
        /\ visit'[e].stage = "load" /\ visit'[e].page = visit[e].page
        /\ visit'[e].was = visit[e].was /\ visit'[e].slug = visit[e].slug
    BY <1>5, GoesOn DEF DomainsStored
  <2>1. AddressShape'
    BY <1>5, <2>0 DEF DomainsStored, VisitRecords, SlugsOrNone
  <2>2. FreshIds'
    BY <1>5 DEF DomainsStored, Goes, FreshIds, At, Exists, VisitRecords
  <2>3. OneVisit'
    BY <1>5 DEF DomainsStored, Goes, OneVisit, At, VisitRecords
  <2>4. VisitKnows'
    <3>1. visit[e].page \in Pages /\ visit[e].page \in used
      BY <1>5 DEF DomainsStored, FreshIds, At
    <3>2. Serial' => Serial /\ \A f \in Keepers \ {e} : visit'[f].stage = "idle"
      BY <1>5, <2>0 DEF DomainsStored, Serial, OneVisit, At
    <3>3. Serial' => slug'[visit[e].page] # Nowhere /\ slug'[visit[e].page] = visit[e].slug
      BY <1>5, <3>1, <3>2 DEF DomainsStored, VisitKnows, Exists, At
    <3> QED
      BY <2>0, <3>2, <3>3 DEF VisitKnows, At, Exists
  <2>5. MappingFresh'
    BY <1>5 DEF DomainsStored, Goes, FreshIds, OneVisit, VisitKnows, MappingFresh,
       Serial, At, Exists, Joined, VisitRecords
  <2>6. EntryFollows'
    BY <1>5 DEF DomainsStored, Goes, FreshIds, OneVisit, VisitKnows, EntryFollows,
       Serial, At, Exists, Reached, VisitRecords, SlugsOrNone
  <2> QED
    BY <2>1, <2>2, <2>3, <2>4, <2>5, <2>6
<1>6. ASSUME NEW e \in Keepers, MappingRead(e) PROVE AddressInv'
  <2>0. /\ visit' \in [Keepers -> VisitRecords]
        /\ \A f \in Keepers \ {e} : visit'[f] = visit[f]
        /\ visit'[e].stage = "list" /\ visit'[e].page = visit[e].page
        /\ visit'[e].was = visit[e].was /\ visit'[e].slug = visit[e].slug
        /\ visit'[e].list = Joined
    <3>1. Joined \in [Domains -> SlugsOrNone]
      BY JoinedShape
    <3>2. [visit[e] EXCEPT !.stage = "list", !.list = Joined] \in VisitRecords
      BY <3>1 DEF VisitRecords
    <3>3. visit' = [visit EXCEPT ![e] = [@ EXCEPT !.stage = "list", !.list = Joined]]
      BY <1>6 DEF MappingRead
    <3>4. visit[e] \in VisitRecords
      OBVIOUS
    <3> QED
      BY <3>2, <3>3, <3>4 DEF VisitRecords
  <2>1. AddressShape'
    BY <1>6, <2>0 DEF MappingRead
  <2>2. FreshIds'
    BY <1>6, <2>0 DEF MappingRead, FreshIds, At, Exists
  <2>3. OneVisit'
    BY <1>6, <2>0 DEF MappingRead, OneVisit, At
  <2>4. VisitKnows'
    BY <1>6, <2>0 DEF MappingRead, FreshIds, OneVisit, VisitKnows, EntryFollows, Serial,
       At, Exists, Reached, Joined
  <2>5. MappingFresh'
    BY <1>6, <2>0 DEF MappingRead, FreshIds, OneVisit, VisitKnows, MappingFresh, Serial,
       At, Exists, Joined
  <2>6. EntryFollows'
    BY <1>6, <2>0 DEF MappingRead, FreshIds, OneVisit, VisitKnows, EntryFollows, Serial,
       At, Exists, Reached
  <2> QED
    BY <2>1, <2>2, <2>3, <2>4, <2>5, <2>6
<1>7. ASSUME NEW e \in Keepers, MappingKept(e) PROVE AddressInv'
  <2>0. /\ visit' \in [Keepers -> VisitRecords]
        /\ \A f \in Keepers \ {e} : visit'[f] = visit[f]
        /\ visit'[e].stage = "groups" /\ visit'[e].page = visit[e].page
        /\ visit'[e].was = visit[e].was /\ visit'[e].slug = visit[e].slug
        /\ visit'[e].list = NoVisit.list
    <3>1. NoVisit.list \in [Domains -> SlugsOrNone]
      BY NoVisitShape DEF VisitRecords
    <3>2. [visit[e] EXCEPT !.stage = "groups", !.list = NoVisit.list] \in VisitRecords
      BY <3>1 DEF VisitRecords
    <3>3. visit' = [visit EXCEPT ![e] = [@ EXCEPT !.stage = "groups", !.list = NoVisit.list]]
      BY <1>7 DEF MappingKept
    <3>4. visit[e] \in VisitRecords
      OBVIOUS
    <3> QED
      BY <3>2, <3>3, <3>4 DEF VisitRecords
  <2>1. AddressShape'
    BY <1>7, <2>0 DEF MappingKept
  <2>2. FreshIds'
    BY <1>7, <2>0 DEF MappingKept, FreshIds, At, Exists
  <2>3. OneVisit'
    BY <1>7, <2>0 DEF MappingKept, OneVisit, At
  <2>4. VisitKnows'
    <3>1. Serial' => Serial /\ \A f \in Keepers \ {e} : visit'[f].stage = "idle"
      BY <1>7, <2>0 DEF MappingKept, Serial, OneVisit, At
    <3>2. Joined' = Joined /\ (Serial => visit[e].list = Joined)
      BY <1>7 DEF MappingKept, Joined, VisitKnows, At
    <3> QED
      BY <1>7, <2>0, <3>1, <3>2 DEF MappingKept, VisitKnows, VisitKnows, At, Reached, Exists
  <2>5. MappingFresh'
    <3>1. Serial' => Serial /\ \A f \in Keepers \ {e} : visit'[f].stage = "idle"
      BY <1>7, <2>0 DEF MappingKept, Serial, OneVisit, At
    <3>2. Joined' = Joined /\ (Serial => visit[e].list = Joined)
      BY <1>7 DEF MappingKept, Joined, VisitKnows, At
    <3> QED
      BY <1>7, <2>0, <3>1, <3>2 DEF MappingKept, MappingFresh, VisitKnows, At, Reached,
         Exists
  <2>6. EntryFollows'
    <3>1. Serial' => Serial /\ \A f \in Keepers \ {e} : visit'[f].stage = "idle"
      BY <1>7, <2>0 DEF MappingKept, Serial, OneVisit, At
    <3>2. Joined' = Joined /\ (Serial => visit[e].list = Joined)
      BY <1>7 DEF MappingKept, Joined, VisitKnows, At
    <3> QED
      BY <1>7, <2>0, <3>1, <3>2 DEF MappingKept, EntryFollows, VisitKnows, At, Reached,
         Exists
  <2> QED
    BY <2>1, <2>2, <2>3, <2>4, <2>5, <2>6
<1>8. ASSUME NEW e \in Keepers, GroupsSaved(e) PROVE AddressInv'
  <2>1. AddressShape'
    BY <1>8, GoesOn, VisitEnds DEF GroupsSaved, AddressShape
  <2>2. FreshIds'
    BY <1>8, GoesOn, VisitEnds DEF GroupsSaved, FreshIds, At, Exists
  <2>3. OneVisit'
    BY <1>8 DEF GroupsSaved, Goes, Leaves, NoVisit, OneVisit, At, VisitRecords
  <2>4. VisitKnows'
    BY <1>8 DEF GroupsSaved, Goes, Leaves, NoVisit, FreshIds, OneVisit, VisitKnows,
       EntryFollows, Serial, At, Exists, Reached, Joined, VisitRecords, SlugsOrNone
  <2>5. MappingFresh'
    BY <1>8 DEF GroupsSaved, Goes, Leaves, NoVisit, FreshIds, OneVisit, VisitKnows,
       MappingFresh, Serial, At, Exists, Joined, VisitRecords
  <2>6. EntryFollows'
    BY <1>8 DEF GroupsSaved, Goes, Leaves, NoVisit, FreshIds, OneVisit, VisitKnows,
       EntryFollows, Serial, At, Exists, Reached, VisitRecords, SlugsOrNone
  <2> QED
    BY <2>1, <2>2, <2>3, <2>4, <2>5, <2>6
<1>9. ASSUME NEW e \in Keepers, EntryMoved(e) PROVE AddressInv'
  <2>1. AddressShape'
    BY <1>9 DEF EntryMoved, Leaves, NoVisit, VisitRecords, SlugsOrNone, Joined
  <2>2. FreshIds'
    BY <1>9 DEF EntryMoved, Leaves, NoVisit, FreshIds, At, Exists, VisitRecords
  <2>3. OneVisit'
    BY <1>9 DEF EntryMoved, Leaves, NoVisit, OneVisit, At, VisitRecords
  <2>4. VisitKnows'
    BY <1>9 DEF EntryMoved, Leaves, NoVisit, FreshIds, OneVisit, VisitKnows,
       EntryFollows, Serial, At, Exists, Reached, Joined, VisitRecords, SlugsOrNone
  <2>5. MappingFresh'
    BY <1>9 DEF EntryMoved, Leaves, NoVisit, FreshIds, OneVisit, VisitKnows,
       MappingFresh, Serial, At, Exists, Joined, VisitRecords
  <2>6. EntryFollows'
    BY <1>9 DEF EntryMoved, Leaves, NoVisit, FreshIds, OneVisit, VisitKnows,
       EntryFollows, Serial, At, Exists, Reached, VisitRecords, SlugsOrNone
  <2> QED
    BY <2>1, <2>2, <2>3, <2>4, <2>5, <2>6
<1>10. ASSUME NEW e \in Keepers, NEW p \in Pages, PageDeleted(e, p) PROVE AddressInv'
  <2>1. AddressShape'
    BY <1>10 DEF PageDeleted, Enters, NoVisit, VisitRecords, SlugsOrNone, Joined
  <2>2. FreshIds'
    BY <1>10 DEF PageDeleted, Enters, NoVisit, FreshIds, At, Exists, VisitRecords
  <2>3. OneVisit'
    BY <1>10 DEF PageDeleted, Enters, NoVisit, OneVisit, At, VisitRecords
  <2>4. VisitKnows'
    BY <1>10 DEF PageDeleted, Enters, NoVisit, FreshIds, OneVisit, VisitKnows,
       EntryFollows, Serial, At, Exists, Reached, Joined, VisitRecords, SlugsOrNone
  <2>5. MappingFresh'
    BY <1>10 DEF PageDeleted, Enters, NoVisit, FreshIds, OneVisit, VisitKnows,
       MappingFresh, Serial, At, Exists, Joined, VisitRecords
  <2>6. EntryFollows'
    BY <1>10 DEF PageDeleted, Enters, NoVisit, FreshIds, OneVisit, VisitKnows,
       EntryFollows, Serial, At, Exists, Reached, VisitRecords, SlugsOrNone
  <2> QED
    BY <2>1, <2>2, <2>3, <2>4, <2>5, <2>6
<1>11. ASSUME NEW e \in Keepers, PageGone(e) PROVE AddressInv'
  <2>1. AddressShape'
    BY <1>11 DEF PageGone, Leaves, NoVisit, VisitRecords, SlugsOrNone, Joined
  <2>2. FreshIds'
    BY <1>11 DEF PageGone, Leaves, NoVisit, FreshIds, At, Exists, VisitRecords
  <2>3. OneVisit'
    BY <1>11 DEF PageGone, Leaves, NoVisit, OneVisit, At, VisitRecords
  <2>4. VisitKnows'
    BY <1>11 DEF PageGone, Leaves, NoVisit, FreshIds, OneVisit, VisitKnows,
       EntryFollows, Serial, At, Exists, Reached, Joined, VisitRecords, SlugsOrNone
  <2>5. MappingFresh'
    BY <1>11 DEF PageGone, Leaves, NoVisit, FreshIds, OneVisit, VisitKnows,
       MappingFresh, Serial, At, Exists, Joined, VisitRecords
  <2>6. EntryFollows'
    BY <1>11 DEF PageGone, Leaves, NoVisit, FreshIds, OneVisit, VisitKnows,
       EntryFollows, Serial, At, Exists, Reached, VisitRecords, SlugsOrNone
  <2> QED
    BY <2>1, <2>2, <2>3, <2>4, <2>5, <2>6
<1>12. ASSUME NEW e \in Keepers, NEW s \in SlugsOrNone, EntryChosen(e, s) PROVE AddressInv'
  <2>1. AddressShape'
    BY <1>12 DEF EntryChosen, Enters, NoVisit, VisitRecords, SlugsOrNone, Joined
  <2>2. FreshIds'
    BY <1>12 DEF EntryChosen, Enters, NoVisit, FreshIds, At, Exists, VisitRecords
  <2>3. OneVisit'
    BY <1>12 DEF EntryChosen, Enters, NoVisit, OneVisit, At, VisitRecords
  <2>4. VisitKnows'
    BY <1>12 DEF EntryChosen, Enters, NoVisit, FreshIds, OneVisit, VisitKnows,
       EntryFollows, Serial, At, Exists, Reached, Joined, VisitRecords, SlugsOrNone
  <2>5. MappingFresh'
    BY <1>12 DEF EntryChosen, Enters, NoVisit, FreshIds, OneVisit, VisitKnows,
       MappingFresh, Serial, At, Exists, Joined, VisitRecords
  <2>6. EntryFollows'
    BY <1>12 DEF EntryChosen, Enters, NoVisit, FreshIds, OneVisit, VisitKnows,
       EntryFollows, Serial, At, Exists, Reached, VisitRecords, SlugsOrNone
  <2> QED
    BY <2>1, <2>2, <2>3, <2>4, <2>5, <2>6
<1>13. ASSUME NEW e \in Keepers, EntryKept(e) PROVE AddressInv'
  <2>1. AddressShape'
    BY <1>13 DEF EntryKept, Leaves, NoVisit, VisitRecords, SlugsOrNone, Joined
  <2>2. FreshIds'
    BY <1>13 DEF EntryKept, Leaves, NoVisit, FreshIds, At, Exists, VisitRecords
  <2>3. OneVisit'
    BY <1>13 DEF EntryKept, Leaves, NoVisit, OneVisit, At, VisitRecords
  <2>4. VisitKnows'
    BY <1>13 DEF EntryKept, Leaves, NoVisit, FreshIds, OneVisit, VisitKnows,
       EntryFollows, Serial, At, Exists, Reached, Joined, VisitRecords, SlugsOrNone
  <2>5. MappingFresh'
    BY <1>13 DEF EntryKept, Leaves, NoVisit, FreshIds, OneVisit, VisitKnows,
       MappingFresh, Serial, At, Exists, Joined, VisitRecords
  <2>6. EntryFollows'
    BY <1>13 DEF EntryKept, Leaves, NoVisit, FreshIds, OneVisit, VisitKnows,
       EntryFollows, Serial, At, Exists, Reached, VisitRecords, SlugsOrNone
  <2> QED
    BY <2>1, <2>2, <2>3, <2>4, <2>5, <2>6
<1>14. ASSUME NEW e \in Keepers, VisitFails(e) PROVE AddressInv'
  <2>1. AddressShape'
    BY <1>14 DEF VisitFails, Leaves, NoVisit, VisitRecords, SlugsOrNone, Joined
  <2>2. FreshIds'
    BY <1>14 DEF VisitFails, Leaves, NoVisit, FreshIds, At, Exists, VisitRecords
  <2>3. OneVisit'
    BY <1>14 DEF VisitFails, Leaves, NoVisit, OneVisit, At, VisitRecords
  <2>4. VisitKnows'
    BY <1>14 DEF VisitFails, Leaves, NoVisit, FreshIds, OneVisit, VisitKnows,
       EntryFollows, Serial, At, Exists, Reached, Joined, VisitRecords, SlugsOrNone
  <2>5. MappingFresh'
    BY <1>14 DEF VisitFails, Leaves, NoVisit, FreshIds, OneVisit, VisitKnows,
       MappingFresh, Serial, At, Exists, Joined, VisitRecords
  <2>6. EntryFollows'
    BY <1>14 DEF VisitFails, Leaves, NoVisit, FreshIds, OneVisit, VisitKnows,
       EntryFollows, Serial, At, Exists, Reached, VisitRecords, SlugsOrNone
  <2> QED
    BY <2>1, <2>2, <2>3, <2>4, <2>5, <2>6
<1>15. CASE UNCHANGED addressVars
  <2>1. AddressShape'
    BY <1>15 DEF addressVars, VisitRecords, SlugsOrNone, Joined
  <2>2. FreshIds'
    BY <1>15 DEF addressVars, FreshIds, At, Exists, VisitRecords
  <2>3. OneVisit'
    BY <1>15 DEF addressVars, OneVisit, At, VisitRecords
  <2>4. VisitKnows'
    BY <1>15 DEF addressVars, FreshIds, OneVisit, VisitKnows, EntryFollows, Serial, At,
       Exists, Reached, Joined, VisitRecords, SlugsOrNone
  <2>5. MappingFresh'
    BY <1>15 DEF addressVars, FreshIds, OneVisit, VisitKnows, MappingFresh, Serial, At,
       Exists, Joined, VisitRecords
  <2>6. EntryFollows'
    BY <1>15 DEF addressVars, FreshIds, OneVisit, VisitKnows, EntryFollows, Serial, At,
       Exists, Reached, VisitRecords, SlugsOrNone
  <2> QED
    BY <2>1, <2>2, <2>3, <2>4, <2>5, <2>6
<1> QED
  BY <1>1, <1>2, <1>3, <1>4, <1>5, <1>6, <1>7, <1>8, <1>9, <1>10, <1>11, <1>12, <1>13,
     <1>14, <1>15 DEF AddressNext

LEMMA AddressInvHolds == AddressSpec => []AddressInv
  BY AddressInvInit, AddressInvNext, PTL DEF AddressSpec

(* A domain leads to the page that has it, under its present slug, after   *)
(* calls that came in turn and succeeded (DomainLeadsToPage;               *)
(* status_page.js, loadDomainMappingList()).                               *)
THEOREM DomainsLead == AddressSpec => []DomainLeadsToPage
<1>1. AddressInv => DomainLeadsToPage
  BY DEF AddressInv, MappingFresh, DomainLeadsToPage, AllAtRest, Serial, At
<1> QED
  BY <1>1, AddressInvHolds, PTL

(* The entry page, in memory and in its setting, is a page there is        *)
(* (EntryPageExists; status-page-socket-handler.js, server.js).            *)
THEOREM EntryStands == AddressSpec => []EntryPageExists
<1>1. AddressInv => EntryPageExists
  BY DEF AddressInv, EntryFollows, EntryPageExists, AllAtRest, Serial, At, Reached
<1> QED
  BY <1>1, AddressInvHolds, PTL

(* Both (AddressesStand).                                                  *)
THEOREM AddressesAlwaysStand == AddressSpec => []AddressesStand
<1>1. DomainLeadsToPage /\ EntryPageExists => AddressesStand
  BY DEF AddressesStand
<1> QED
  BY <1>1, DomainsLead, EntryStands, PTL

(* What AddressShape leaves out of the types.                              *)
AddressParts ==
    /\ used \subseteq Pages /\ mapping \in [Domains -> SlugsOrNone]
    /\ entry \in SlugsOrNone /\ entrySetting \in SlugsOrNone
    /\ leftOver \subseteq Domains /\ crossing \in BOOLEAN /\ halfDone \in BOOLEAN

LEMMA AddressTypes == AddressSpec => []AddressTypeOK
<1>1. AddressInit => AddressParts
  BY DEF AddressInit, AddressParts, SlugsOrNone
<1>2. AddressInv /\ AddressParts /\ [AddressNext]_addressVars => AddressParts'
  <2> SUFFICES ASSUME AddressInv, AddressParts, [AddressNext]_addressVars PROVE AddressParts'
    OBVIOUS
  <2> USE DEF AddressParts
  <2>1. /\ Joined \in [Domains -> SlugsOrNone]
        /\ \A p \in Pages : slug[p] \in SlugsOrNone
        /\ \A e \in Keepers :
              visit[e].slug \in SlugsOrNone /\ visit[e].list \in [Domains -> SlugsOrNone]
    BY DEF AddressInv, AddressShape, VisitRecords, Joined, SlugsOrNone
  <2>2. CASE AddressCrash
    BY <2>1, <2>2 DEF AddressCrash
  <2>3. ASSUME NEW p \in Pages, NEW s \in Slugs, PageAdded(p, s) PROVE AddressParts'
    BY <2>3 DEF PageAdded
  <2>4. ASSUME NEW e \in Keepers, NEW p \in Pages, NEW s \in Slugs, NEW ds \in SUBSET Domains,
               PageSaved(e, p, s, ds)
        PROVE  AddressParts'
    BY <2>4 DEF PageSaved, Enters
  <2>5. ASSUME NEW e \in Keepers, \/ PageStored(e) \/ DomainsStored(e) \/ MappingRead(e)
        PROVE  AddressParts'
    BY <2>5 DEF PageStored, DomainsStored, MappingRead
  <2>6. ASSUME NEW e \in Keepers, MappingKept(e) PROVE AddressParts'
    BY <2>1, <2>6 DEF MappingKept
  <2>7. ASSUME NEW e \in Keepers, \/ GroupsSaved(e) \/ EntryMoved(e) \/ EntryKept(e)
                                  \/ VisitFails(e)
        PROVE  AddressParts'
    BY <2>1, <2>7 DEF GroupsSaved, EntryMoved, EntryKept, VisitFails
  <2>8. ASSUME NEW e \in Keepers, NEW p \in Pages, PageDeleted(e, p) PROVE AddressParts'
    BY <2>8 DEF PageDeleted, Enters, SlugsOrNone
  <2>9. ASSUME NEW e \in Keepers, PageGone(e) PROVE AddressParts'
    BY <2>9 DEF PageGone
  <2>10. ASSUME NEW e \in Keepers, NEW s \in SlugsOrNone, EntryChosen(e, s) PROVE AddressParts'
    BY <2>10 DEF EntryChosen, Enters
  <2>11. CASE UNCHANGED addressVars
    BY <2>11 DEF addressVars
  <2> QED
    BY <2>2, <2>3, <2>4, <2>5, <2>6, <2>7, <2>8, <2>9, <2>10, <2>11 DEF AddressNext
<1>3. AddressInv /\ AddressParts => AddressTypeOK
  BY DEF AddressInv, AddressShape, VisitRecords, AddressParts, AddressTypeOK
<1> QED
  BY <1>1, <1>2, <1>3, AddressInvInit, AddressInvNext, PTL DEF AddressSpec

-----------------------------------------------------------------------------
(* Somebody manages the instance: a demotion asks and writes in one        *)
(* statement; a deletion that nothing overlaps finds the table as it left  *)
(* it.                                                                     *)
TargetsAreUsers == \A c \in Managers : ~AtRest(c) => target[c] \in Users

(* As long as no call has overlapped with a deletion, one that is going on *)
(* is the only call.                                                       *)
DeletesAlone ==
    ~deleting => \A c, d \in Managers : Deletes(c) /\ ~AtRest(d) => c = d

(* What was counted is still true when the row is deleted.                 *)
OthersRemain ==
    ~deleting => \A c \in Managers : doing[c] = "trash" => admins \ {target[c]} # {}

AdminInv ==
    AdminTypeOK /\ TargetsAreUsers /\ DeletesAlone /\ OthersRemain /\ SomebodyManages

-----------------------------------------------------------------------------
LEMMA AdminInvInit == AdminInit => AdminInv
<1> SUFFICES ASSUME AdminInit PROVE AdminInv OBVIOUS
<1>1. AdminTypeOK BY DEF AdminInit, AdminTypeOK
<1>2. TargetsAreUsers /\ DeletesAlone /\ OthersRemain
    BY DEF AdminInit, TargetsAreUsers, DeletesAlone, OthersRemain, AtRest, Deletes
<1>3. SomebodyManages BY DEF AdminInit, SomebodyManages
<1> QED BY <1>1, <1>2, <1>3 DEF AdminInv

(* A row is loaded: nothing is written, and what overlaps is noted.        *)
LEMMA LoadsKeepsInv ==
    ASSUME AdminInv, NEW c \in Managers, NEW u \in Users,
           NEW next \in {"promote", "demote", "count", "trash"}, Loads(c, u, next),
           next = "trash" => u \notin admins
    PROVE  AdminInv'
<1> USE DEF AdminInv
<1>1. AdminTypeOK' BY DEF Loads, AdminTypeOK
<1>2. TargetsAreUsers' BY DEF Loads, AdminTypeOK, TargetsAreUsers, AtRest
<1>3. DeletesAlone'
    BY DEF Loads, AdminTypeOK, DeletesAlone, AtRest, Deletes
<1>4. OthersRemain'
    BY DEF Loads, AdminTypeOK, OthersRemain, SomebodyManages, AtRest
<1>5. SomebodyManages' BY DEF Loads, SomebodyManages, AdminTypeOK
<1> QED BY <1>1, <1>2, <1>3, <1>4, <1>5

(* A call ends and leaves a superadmin; a deletion that is going on is it, *)
(* or some call has overlapped with it.                                    *)
LEMMA EndsKeepsInv ==
    ASSUME AdminInv, NEW c \in Managers, ~AtRest(c), Ends(c),
           users' \subseteq Users, admins' \subseteq users',
           ~deleting => admins' # {}
    PROVE  AdminInv'
<1> USE DEF AdminInv
<1>1. AdminTypeOK' BY DEF Ends, AdminTypeOK
<1>2. TargetsAreUsers' BY DEF Ends, AdminTypeOK, TargetsAreUsers, AtRest
<1>3. DeletesAlone' BY DEF Ends, AdminTypeOK, DeletesAlone, AtRest, Deletes
<1>4. OthersRemain'
    BY DEF Ends, AdminTypeOK, DeletesAlone, OthersRemain, AtRest, Deletes
<1>5. SomebodyManages' BY DEF Ends, SomebodyManages
<1> QED BY <1>1, <1>2, <1>3, <1>4, <1>5

LEMMA AdminInvNext == AdminInv /\ [AdminNext]_adminVars => AdminInv'
<1> SUFFICES ASSUME AdminInv, [AdminNext]_adminVars PROVE AdminInv' OBVIOUS
<1> USE DEF AdminInv
<1>1. CASE \E u \in Users : AddUser(u)
    BY <1>1 DEF AddUser, AdminTypeOK, TargetsAreUsers, DeletesAlone, OthersRemain,
                SomebodyManages, AtRest, Deletes
<1>2. CASE \E c \in Managers, u \in Users :
               PromoteUser(c, u) \/ DemoteUser(c, u) \/ DeleteUser(c, u)
    BY <1>2, LoadsKeepsInv DEF PromoteUser, DemoteUser, DeleteUser
<1>3. ASSUME NEW c \in Managers, PromoteStored(c) PROVE AdminInv'
    <2>1. ~AtRest(c) /\ Ends(c) BY <1>3 DEF PromoteStored, AtRest
    <2>2. users' \subseteq Users /\ admins' \subseteq users' /\ (~deleting => admins' # {})
        BY <1>3 DEF PromoteStored, AdminTypeOK, SomebodyManages
    <2> QED BY <2>1, <2>2, EndsKeepsInv
<1>4. ASSUME NEW c \in Managers, DemoteUpdated(c) PROVE AdminInv'
    <2>1. ~AtRest(c) /\ Ends(c) BY <1>4 DEF DemoteUpdated, AtRest
    <2>2. users' \subseteq Users /\ admins' \subseteq users' /\ (~deleting => admins' # {})
        BY <1>4 DEF DemoteUpdated, AdminTypeOK, SomebodyManages
    <2> QED BY <2>1, <2>2, EndsKeepsInv
<1>5. ASSUME NEW c \in Managers, Counted(c) PROVE AdminInv'
    <2>1. CASE admins \ {target[c]} = {}
        <3>1. ~AtRest(c) /\ Ends(c) BY <1>5, <2>1 DEF Counted, AtRest
        <3>2. users' \subseteq Users /\ admins' \subseteq users' /\ (~deleting => admins' # {})
            BY <1>5 DEF Counted, AdminTypeOK, SomebodyManages
        <3> QED BY <3>1, <3>2, EndsKeepsInv
    <2>2. CASE admins \ {target[c]} # {}
        <3> DEFINE counts == doing' = [doing EXCEPT ![c] = "trash"]
        <3>1. counts /\ UNCHANGED <<users, admins, target, deleting>>
            BY <1>5, <2>2 DEF Counted
        <3>2. doing[c] = "count" BY <1>5 DEF Counted
        <3>3. AdminTypeOK' BY <3>1 DEF AdminTypeOK
        <3>4. TargetsAreUsers' /\ DeletesAlone'
            BY <3>1, <3>2 DEF AdminTypeOK, TargetsAreUsers, DeletesAlone, AtRest, Deletes
        <3>5. OthersRemain' /\ SomebodyManages'
            BY <3>1, <2>2 DEF AdminTypeOK, OthersRemain, SomebodyManages
        <3> QED BY <3>3, <3>4, <3>5
    <2> QED BY <2>1, <2>2
<1>6. ASSUME NEW c \in Managers, Trashed(c) PROVE AdminInv'
    <2>1. ~AtRest(c) /\ Ends(c) BY <1>6 DEF Trashed, AtRest
    <2>2. users' \subseteq Users /\ admins' \subseteq users' /\ (~deleting => admins' # {})
        BY <1>6 DEF Trashed, AdminTypeOK, OthersRemain
    <2> QED BY <2>1, <2>2, EndsKeepsInv
<1>7. ASSUME NEW c \in Managers, AdminCallFails(c) PROVE AdminInv'
    <2>1. users' \subseteq Users /\ admins' \subseteq users' /\ (~deleting => admins' # {})
        BY <1>7 DEF AdminCallFails, AdminTypeOK, SomebodyManages
    <2> QED BY <1>7, <2>1, EndsKeepsInv DEF AdminCallFails
<1>8. CASE UNCHANGED adminVars
    BY <1>8 DEF adminVars, AdminTypeOK, TargetsAreUsers, DeletesAlone, OthersRemain,
                SomebodyManages, AtRest, Deletes
<1> QED BY <1>1, <1>2, <1>3, <1>4, <1>5, <1>6, <1>7, <1>8 DEF AdminNext

-----------------------------------------------------------------------------
(* setUserSuperadmin, deleteUser: however many of them overlap, as long as *)
(* no call overlaps with a deletion, a superadmin is left.                 *)
THEOREM SomebodyAlwaysManages == AdminSpec => []SomebodyManages
<1>1. AdminInv => SomebodyManages BY DEF AdminInv
<1> QED BY AdminInvInit, AdminInvNext, <1>1, PTL DEF AdminSpec

LEMMA AdminTypes == AdminSpec => []AdminTypeOK
<1>1. AdminInv => AdminTypeOK BY DEF AdminInv
<1> QED BY AdminInvInit, AdminInvNext, <1>1, PTL DEF AdminSpec

-----------------------------------------------------------------------------
(* The runners that take a monitor over from each other.                   *)
DatedOnes == {r \in Beans : at[r] \in Dated}

(* The beats under way are in the order of their times, and the overtaken  *)
(* ones are the first of them.                                             *)
InOrder ==
    /\ overtaken \subseteq DatedOnes
    /\ \A r \in Beans : elders[r] \subseteq DatedOnes \ {r}
    /\ \A r \in Beans : elders[r] # {} => r \in DatedOnes
    /\ \A x, y \in DatedOnes : x = y \/ x \in elders[y] \/ y \in elders[x]
    /\ \A x \in Beans : \A y \in elders[x] : elders[y] \subseteq elders[x]
    /\ \A x \in overtaken : elders[x] \subseteq overtaken

(* Where reminders are on, no counter is behind the outage by more than    *)
(* one: the newest row's, what the listed runner remembers, and what a     *)
(* stopped one will store unless it is overtaken.  The one is the row the  *)
(* listed runner may have stored beside it; there is none as long as that  *)
(* row, older than the one in question, is still to come.                  *)
Slack(toCome) == IF toCome THEN 0 ELSE 1

CountsBelow ==
    /\ \A r \in Beans : previous[r].downCount < pace /\ drafted[r].downCount < pace
    /\ latest.downCount < pace

LatestClose ==
    latest.status = DOWN => deaf <= latest.downCount + Slack(listedBean \in overtaken)

ListedClose ==
    \A r \in Beans :
        IF r = listedBean
        THEN /\ at[r] # "none"
             /\ previous[r].status = DOWN => deaf <= previous[r].downCount + 1
             /\ at[r] = "store" /\ drafted[r].status = DOWN => deaf <= drafted[r].downCount
        ELSE at[r] # "timer"

StoppedClose ==
    \A r \in Beans : r # listedBean /\ r \notin overtaken =>
        /\ at[r] = "check" /\ previous[r].status = DOWN =>
              deaf <= previous[r].downCount + 1 + Slack(listedBean \in elders[r])
        /\ at[r] = "store" /\ drafted[r].status = DOWN =>
              deaf <= drafted[r].downCount + Slack(listedBean \in elders[r])

Close == LatestClose /\ ListedClose /\ StoppedClose /\ deaf <= pace

HandoverInv ==
    /\ HandoverTypeOK
    /\ InOrder
    /\ pace > 0 => CountsBelow /\ Close

LEMMA RowsFacts ==
    ASSUME NEW b \in Rows
    PROVE  b.downCount \in Nat /\ b.status \in Statuses \cup {NONE}
BY HandoverAssumption DEF Rows, NoBeat

LEMMA NoBeatFacts == NoBeat \in Rows /\ NoBeat.downCount = 0 /\ NoBeat.status # DOWN
BY DEF Rows, NoBeat, NONE, DOWN

LEMMA DraftFacts ==
    ASSUME NEW status \in Verdicts, NEW was \in Rows, pace \in Nat
    PROVE  /\ Draft(status, was) \in Rows
           /\ Draft(status, was).status = status
           /\ pace > 0 /\ was.downCount < pace => Draft(status, was).downCount < pace
           /\ pace > 0 /\ status = DOWN /\ ~IsNotified(was.status, status)
                /\ ~Repeated(status, was) =>
                  was.status = DOWN /\ Draft(status, was).downCount = was.downCount + 1
<1>1. was.downCount \in Nat /\ was.status \in Statuses \cup {NONE}
  BY RowsFacts
<1>2. DownCountAfterQuietBeat(Setting, status, was.downCount) \in Nat
  BY <1>1 DEF DownCountAfterQuietBeat
<1>3. Draft(status, was) \in Rows /\ Draft(status, was).status = status
  BY <1>2 DEF Draft, Rows
<1>4. pace > 0 /\ was.downCount < pace => Draft(status, was).downCount < pace
  BY <1>1 DEF Draft, DownCountAfterQuietBeat, ResendDue, Setting
<1>5. ASSUME status = DOWN, ~IsNotified(was.status, status) PROVE was.status = DOWN
  BY <1>1, <1>5 DEF IsNotified, IsImportantForNotification, SendsNotification, Statuses,
     UP, DOWN, PENDING, MAINTENANCE, NONE
<1>6. ~IsImportantBeat(DOWN, DOWN)
  BY DEF IsImportantBeat, UP, DOWN, PENDING, MAINTENANCE, NONE
<1>7. ASSUME pace > 0, status = DOWN, was.status = DOWN, ~Repeated(status, was)
      PROVE  Draft(status, was).downCount = was.downCount + 1
  BY <1>1, <1>6, <1>7 DEF Draft, Repeated, DownCountAfterQuietBeat, Setting
<1> QED
  BY <1>3, <1>4, <1>5, <1>7

LEMMA HandoverTypes == HandoverSpec => []HandoverTypeOK
<1>1. HandoverInit => HandoverTypeOK
  BY NoBeatFacts DEF HandoverInit, HandoverTypeOK, NONE
<1>2. HandoverTypeOK /\ [HandoverNext]_handoverVars => HandoverTypeOK'
  <2> SUFFICES ASSUME HandoverTypeOK, [HandoverNext]_handoverVars PROVE HandoverTypeOK'
    OBVIOUS
  <2> USE NoBeatFacts DEF HandoverTypeOK
  <2>1. ASSUME NEW r \in Beans, StartRunner(r) PROVE HandoverTypeOK'
    BY <2>1 DEF StartRunner, AtOnceStopped, Unlearned
  <2>2. CASE StopRunner
    BY <2>2 DEF StopRunner, AtOnceStopped, Unlearned
  <2>3. ASSUME NEW r \in Beans, TimerFires(r) PROVE HandoverTypeOK'
    BY <2>3 DEF TimerFires, DatedNow
  <2>4. ASSUME NEW r \in Beans, ReadLatest(r) PROVE HandoverTypeOK'
    BY <2>4 DEF ReadLatest, DatedNow
  <2>5. ASSUME NEW r \in Beans, NEW status \in Verdicts, Judge(r, status)
        PROVE  HandoverTypeOK'
    <3>1. Draft(status, previous[r]) \in Rows
      BY DraftFacts, HandoverAssumption
    <3> QED
      BY <2>5, <3>1 DEF Judge
  <2>6. ASSUME NEW r \in Beans, Announces(r) PROVE HandoverTypeOK'
    BY <2>6, RowsFacts DEF Announces
  <2>7. ASSUME NEW r \in Beans, StoresBeat(r) PROVE HandoverTypeOK'
    BY <2>7 DEF StoresBeat, BeatEnds
  <2>8. ASSUME NEW r \in Beans, BeatFails(r) PROVE HandoverTypeOK'
    BY <2>8 DEF BeatFails, BeatEnds
  <2>9. CASE ServerCrashes
    BY <2>9 DEF ServerCrashes
  <2>10. CASE UNCHANGED handoverVars
    BY <2>10 DEF handoverVars
  <2> QED
    BY <2>1, <2>2, <2>3, <2>4, <2>5, <2>6, <2>7, <2>8, <2>9, <2>10 DEF HandoverNext
<1> QED
  BY <1>1, <1>2, PTL DEF HandoverSpec

LEMMA OrderKept ==
    ASSUME HandoverTypeOK, InOrder, [HandoverNext]_handoverVars
    PROVE  InOrder'
<1> USE DEF HandoverTypeOK, InOrder
<1>1. ASSUME DatedOnes' = DatedOnes, UNCHANGED <<elders, overtaken>> PROVE InOrder'
  BY <1>1
<1>2. ASSUME NEW r \in Beans, at[r] \notin Dated, DatedNow(r), UNCHANGED overtaken
      PROVE  InOrder'
  <2>1. DatedOnes' = DatedOnes \cup {r} /\ r \notin DatedOnes
    BY <1>2 DEF DatedOnes, DatedNow, Dated
  <2>2. {y \in Beans \ {r} : at[y] \in Dated} = DatedOnes
    BY <1>2 DEF DatedOnes
  <2>3. elders' = [elders EXCEPT ![r] = DatedOnes]
    BY <1>2, <2>2 DEF DatedNow
  <2>4. \A x \in Beans : x # r => elders'[x] = elders[x] /\ r \notin elders[x]
    BY <2>1, <2>3
  <2>5. elders'[r] = DatedOnes
    BY <2>3
  <2>6. \A x \in Beans : /\ elders'[x] \subseteq DatedOnes' \ {x}
                         /\ elders'[x] # {} => x \in DatedOnes'
    BY <2>1, <2>4, <2>5
  <2>7. \A x, y \in DatedOnes' : x = y \/ x \in elders'[y] \/ y \in elders'[x]
    BY <2>1, <2>4, <2>5 DEF DatedOnes
  <2>8. ASSUME NEW x \in Beans, NEW y \in elders'[x] PROVE elders'[y] \subseteq elders'[x]
    <3>1. CASE x = r
      <4>1. y \in DatedOnes /\ y \in Beans /\ y # r
        BY <2>1, <2>5, <3>1 DEF DatedOnes
      <4>2. elders'[y] = elders[y] /\ elders[y] \subseteq DatedOnes
        BY <2>4, <4>1
      <4> QED
        BY <2>5, <3>1, <4>2
    <3>2. CASE x # r
      <4>1. y \in elders[x] /\ y # r
        BY <2>4, <3>2
      <4> QED
        BY <2>4, <3>2, <4>1
    <3> QED
      BY <3>1, <3>2
  <2>9. overtaken' \subseteq DatedOnes' /\ \A x \in overtaken' : elders'[x] \subseteq overtaken'
    BY <1>2, <2>1, <2>4
  <2> QED
    BY <2>6, <2>7, <2>8, <2>9
<1>3. ASSUME NEW r \in Beans, r \in DatedOnes, BeatEnds(r),
             overtaken' \subseteq DatedOnes \ {r},
             \A x \in overtaken' : elders[x] \ {r} \subseteq overtaken'
      PROVE  InOrder'
  <2>1. DatedOnes' = DatedOnes \ {r}
    BY <1>3 DEF BeatEnds, DatedOnes, Dated
  <2>2. elders'[r] = {} /\ \A x \in Beans : x # r => elders'[x] = elders[x] \ {r}
    BY <1>3 DEF BeatEnds
  <2>3. \A x \in Beans : /\ elders'[x] \subseteq DatedOnes' \ {x}
                         /\ elders'[x] # {} => x \in DatedOnes'
    BY <2>1, <2>2
  <2>4. \A x, y \in DatedOnes' : x = y \/ x \in elders'[y] \/ y \in elders'[x]
    BY <2>1, <2>2 DEF DatedOnes
  <2>5. \A x \in Beans : \A y \in elders'[x] : elders'[y] \subseteq elders'[x]
    BY <2>1, <2>2
  <2>6. overtaken' \subseteq DatedOnes' /\ \A x \in overtaken' : elders'[x] \subseteq overtaken'
    <3>1. \A x \in overtaken' : x \in Beans /\ x # r
      BY <1>3 DEF DatedOnes
    <3> QED
      BY <1>3, <2>1, <2>2, <3>1
  <2> QED
    BY <2>3, <2>4, <2>5, <2>6
<1>4. ASSUME NEW r \in Beans, StartRunner(r) PROVE InOrder'
  <2>1. DatedOnes' = DatedOnes
    BY <1>4 DEF StartRunner, AtOnceStopped, DatedOnes, Dated
  <2> QED
    BY <1>1, <1>4, <2>1 DEF StartRunner
<1>5. CASE StopRunner
  <2>1. DatedOnes' = DatedOnes
    BY <1>5 DEF StopRunner, AtOnceStopped, DatedOnes, Dated
  <2> QED
    BY <1>1, <1>5, <2>1 DEF StopRunner
<1>6. ASSUME NEW r \in Beans, TimerFires(r) PROVE InOrder'
  <2>1. CASE previous[r] = NoBeat
    <3>1. DatedOnes' = DatedOnes
      BY <1>6, <2>1 DEF TimerFires, DatedOnes, Dated
    <3> QED
      BY <1>1, <1>6, <2>1, <3>1 DEF TimerFires
  <2>2. CASE previous[r] # NoBeat
    BY <1>2, <1>6, <2>2 DEF TimerFires, Dated
  <2> QED
    BY <2>1, <2>2
<1>7. ASSUME NEW r \in Beans, ReadLatest(r) PROVE InOrder'
  BY <1>2, <1>7 DEF ReadLatest, Dated
<1>8. ASSUME NEW r \in Beans, NEW status \in Verdicts, Judge(r, status) PROVE InOrder'
  <2>1. DatedOnes' = DatedOnes
    BY <1>8 DEF Judge, DatedOnes, Dated
  <2> QED
    BY <1>1, <1>8, <2>1 DEF Judge
<1>9. ASSUME NEW r \in Beans, Announces(r) PROVE InOrder'
  <2>1. DatedOnes' = DatedOnes
    BY <1>9 DEF Announces, DatedOnes, Dated
  <2> QED
    BY <1>1, <1>9, <2>1 DEF Announces
<1>10. ASSUME NEW r \in Beans, StoresBeat(r) PROVE InOrder'
  <2>1. r \in DatedOnes
    BY <1>10 DEF StoresBeat, DatedOnes, Dated
  <2>2. overtaken' = (overtaken \cup elders[r]) \ {r} /\ BeatEnds(r)
    BY <1>10 DEF StoresBeat
  <2>3. overtaken' \subseteq DatedOnes \ {r}
    BY <2>2
  <2>4. \A x \in overtaken' : elders[x] \ {r} \subseteq overtaken'
    BY <2>2
  <2> QED
    BY <1>3, <2>1, <2>2, <2>3, <2>4
<1>11. ASSUME NEW r \in Beans, BeatFails(r) PROVE InOrder'
  <2>1. CASE at[r] = "read"
    <3>1. DatedOnes' = DatedOnes /\ r \notin DatedOnes
      BY <1>11, <2>1 DEF BeatFails, BeatEnds, DatedOnes, Dated
    <3>2. overtaken' = overtaken
      BY <1>11, <3>1 DEF BeatFails
    <3>3. elders' = elders
      BY <1>11, <3>1 DEF BeatFails, BeatEnds
    <3> QED
      BY <1>1, <3>1, <3>2, <3>3
  <2>2. CASE at[r] # "read"
    <3>1. r \in DatedOnes
      BY <1>11, <2>2 DEF BeatFails, DatedOnes, Dated
    <3>2. overtaken' = overtaken \ {r} /\ BeatEnds(r)
      BY <1>11 DEF BeatFails
    <3>3. \A x \in overtaken' : elders[x] \ {r} \subseteq overtaken'
      BY <3>2
    <3> QED
      BY <1>3, <3>1, <3>2, <3>3
  <2> QED
    BY <2>1, <2>2
<1>12. CASE ServerCrashes
  BY <1>12 DEF ServerCrashes, DatedOnes, Dated
<1>13. CASE UNCHANGED handoverVars
  BY <1>1, <1>13 DEF handoverVars, DatedOnes
<1> QED
  BY <1>4, <1>5, <1>6, <1>7, <1>8, <1>9, <1>10, <1>11, <1>12, <1>13 DEF HandoverNext

LEMMA CountsKept ==
    ASSUME HandoverTypeOK, pace > 0, CountsBelow, [HandoverNext]_handoverVars
    PROVE  CountsBelow'
<1> USE NoBeatFacts DEF HandoverTypeOK, CountsBelow
<1>0. pace \in Nat
  BY HandoverAssumption
<1>1. ASSUME NEW r \in Beans, StartRunner(r) PROVE CountsBelow'
  BY <1>0, <1>1 DEF StartRunner, Unlearned
<1>2. CASE StopRunner
  BY <1>0, <1>2 DEF StopRunner, Unlearned
<1>3. ASSUME NEW r \in Beans, TimerFires(r) PROVE CountsBelow'
  BY <1>3 DEF TimerFires
<1>4. ASSUME NEW r \in Beans, ReadLatest(r) PROVE CountsBelow'
  BY <1>4 DEF ReadLatest
<1>5. ASSUME NEW r \in Beans, NEW status \in Verdicts, Judge(r, status) PROVE CountsBelow'
  <2>1. Draft(status, previous[r]).downCount < pace
    BY <1>0, DraftFacts
  <2> QED
    BY <1>0, <1>5, <2>1 DEF Judge
<1>6. ASSUME NEW r \in Beans, Announces(r) PROVE CountsBelow'
  BY <1>6 DEF Announces
<1>7. ASSUME NEW r \in Beans, StoresBeat(r) PROVE CountsBelow'
  BY <1>0, <1>7 DEF StoresBeat, BeatEnds
<1>8. ASSUME NEW r \in Beans, BeatFails(r) PROVE CountsBelow'
  BY <1>0, <1>8 DEF BeatFails, BeatEnds
<1>9. CASE ServerCrashes
  BY <1>0, <1>9 DEF ServerCrashes
<1>10. CASE UNCHANGED handoverVars
  BY <1>10 DEF handoverVars
<1> QED
  BY <1>1, <1>2, <1>3, <1>4, <1>5, <1>6, <1>7, <1>8, <1>9, <1>10 DEF HandoverNext

LEMMA PaceKept == [HandoverNext]_handoverVars => pace' = pace
BY DEF HandoverNext, handoverVars, StartRunner, StopRunner, TimerFires, ReadLatest, Judge,
   Announces, StoresBeat, BeatFails, ServerCrashes

(* The counters stay close, step by step and one counter at a time.        *)
LEMMA CloseKept ==
    ASSUME HandoverTypeOK, HandoverTypeOK', InOrder, InOrder', pace > 0, CountsBelow, Close,
           [HandoverNext]_handoverVars
    PROVE  Close'
<1> USE DEF HandoverTypeOK, Slack
<1>0. pace \in Nat /\ NoRunner \notin Beans
  BY HandoverAssumption
<1>f. /\ \A r \in Beans : previous[r].downCount \in Nat /\ drafted[r].downCount \in Nat
      /\ latest.downCount \in Nat
  BY RowsFacts
<1>1. ASSUME NEW r \in Beans, StartRunner(r) PROVE Close'
  <2>1. \A x \in Beans : r \notin elders[x] /\ r \notin overtaken
    BY <1>1 DEF StartRunner, InOrder, DatedOnes, Dated
  <2>2. LatestClose'
    BY <1>1, <1>f, <2>1 DEF StartRunner, LatestClose, Close
  <2>3. ListedClose'
    BY <1>1, NoBeatFacts DEF StartRunner, AtOnceStopped, ListedClose, Close
  <2>4. StoppedClose'
    BY <1>0, <1>1, <1>f, <2>1, NoBeatFacts
    DEF StartRunner, AtOnceStopped, Unlearned, ListedClose, StoppedClose, Close
  <2> QED
    BY <1>1, <2>2, <2>3, <2>4 DEF StartRunner, Close
<1>2. CASE StopRunner
  <2>1. \A x \in Beans : NoRunner \notin elders[x] /\ NoRunner \notin overtaken
    BY <1>0
  <2>2. LatestClose'
    BY <1>2, <1>f, <2>1 DEF StopRunner, LatestClose, Close
  <2>3. ListedClose'
    BY <1>0, <1>2 DEF StopRunner, AtOnceStopped, ListedClose, Close
  <2>4. StoppedClose'
    BY <1>0, <1>2, <1>f, <2>1, NoBeatFacts
    DEF StopRunner, AtOnceStopped, Unlearned, ListedClose, StoppedClose, Close
  <2> QED
    BY <1>2, <2>2, <2>3, <2>4 DEF StopRunner, Close
<1>3. ASSUME NEW r \in Beans, TimerFires(r) PROVE Close'
  <2>1. LatestClose'
    BY <1>3 DEF TimerFires, LatestClose, Close
  <2>2. ListedClose'
    BY <1>3 DEF TimerFires, DatedNow, ListedClose, Close
  <2>3. StoppedClose'
    <3>1. r = listedBean
      BY <1>3 DEF TimerFires, ListedClose, Close
    <3> QED
      BY <1>3, <3>1 DEF TimerFires, DatedNow, StoppedClose, Close
  <2> QED
    BY <1>3, <2>1, <2>2, <2>3 DEF TimerFires, Close
<1>4. ASSUME NEW r \in Beans, ReadLatest(r) PROVE Close'
  <2>1. LatestClose'
    BY <1>4 DEF ReadLatest, LatestClose, Close
  <2>2. ListedClose'
    BY <1>4, <1>f DEF ReadLatest, DatedNow, ListedClose, LatestClose, Close
  <2>3. StoppedClose'
    BY <1>4, <1>f DEF ReadLatest, DatedNow, StoppedClose, LatestClose, Close
  <2> QED
    BY <1>4, <2>1, <2>2, <2>3 DEF ReadLatest, Close
<1>5. ASSUME NEW r \in Beans, NEW status \in Verdicts, Judge(r, status) PROVE Close'
  <2> DEFINE was == previous[r]
             made == Draft(status, was)
  <2>1. made.status = status
    BY <1>0, DraftFacts
  <2>2. status = DOWN /\ at'[r] = "store" => was.status = DOWN /\ made.downCount = was.downCount + 1
    BY <1>0, <1>5, DraftFacts DEF Judge
  <2>3. /\ drafted' = [drafted EXCEPT ![r] = made]
        /\ \A x \in Beans : x # r => at'[x] = at[x] /\ previous'[x] = previous[x]
        /\ at[r] = "check" /\ at'[r] \in {"notify", "store"}
        /\ previous'[r] \in {previous[r], NoBeat}
        /\ UNCHANGED <<pace, listedBean, latest, elders, overtaken, deaf>>
    BY <1>5 DEF Judge
  <2>4. LatestClose'
    BY <2>3 DEF LatestClose, Close
  <2>5. ListedClose'
    BY <1>f, <2>1, <2>2, <2>3, NoBeatFacts DEF ListedClose, Close
  <2>6. StoppedClose'
    BY <1>f, <2>1, <2>2, <2>3 DEF StoppedClose, Close
  <2> QED
    BY <2>3, <2>4, <2>5, <2>6 DEF Close
<1>6. ASSUME NEW r \in Beans, Announces(r) PROVE Close'
  <2>1. LatestClose'
    BY <1>6, <1>f DEF Announces, LatestClose
  <2>2. ListedClose'
    BY <1>6, <1>f DEF Announces, ListedClose, Close
  <2>3. StoppedClose'
    BY <1>6, <1>f DEF Announces, StoppedClose
  <2> QED
    BY <1>0, <1>6, <2>1, <2>2, <2>3 DEF Announces, Close
<1>7. ASSUME NEW r \in Beans, StoresBeat(r), r = listedBean PROVE Close'
  <2>1. deaf' = 0 \/ (drafted[r].status = DOWN /\ deaf' = deaf + 1)
    BY <1>7 DEF StoresBeat
  <2>2. deaf' <= drafted[r].downCount + 1
    BY <1>7, <1>f, <2>1 DEF StoresBeat, ListedClose, Close
  <2>3. /\ at' = [at EXCEPT ![r] = "timer"]
        /\ previous' = [previous EXCEPT ![r] = drafted[r]]
        /\ drafted' = [drafted EXCEPT ![r] = NoBeat]
        /\ \A x \in Beans : x # r => elders'[x] = elders[x] \ {r}
        /\ overtaken' = (overtaken \cup elders[r]) \ {r}
        /\ latest' = IF r \in overtaken THEN latest ELSE drafted[r]
        /\ listedBean' = listedBean /\ pace' = pace /\ at[r] = "store"
    BY <1>7 DEF StoresBeat, BeatEnds
  <2>4. LatestClose'
    <3>1. CASE r \in overtaken
      BY <1>7, <1>f, <2>1, <2>3, <3>1 DEF LatestClose, Close
    <3>2. CASE r \notin overtaken
      BY <1>7, <1>f, <2>2, <2>3, <3>2 DEF LatestClose
    <3> QED
      BY <3>1, <3>2
  <2>5. ListedClose'
    BY <1>7, <2>2, <2>3, NoBeatFacts DEF ListedClose, Close
  <2>6. StoppedClose'
    <3> SUFFICES ASSUME NEW x \in Beans, x # r, x \notin overtaken', at[x] \in {"check", "store"}
                 PROVE  /\ at[x] = "check" /\ previous[x].status = DOWN =>
                              deaf' <= previous[x].downCount + 2
                        /\ at[x] = "store" /\ drafted[x].status = DOWN =>
                              deaf' <= drafted[x].downCount + 1
      <4>1. \A x \in Beans : x # r => Slack(listedBean' \in elders'[x]) = 1
        BY <1>7, <2>3
      <4>2. \A x \in Beans : x # r => /\ at'[x] = at[x] /\ previous'[x] = previous[x]
                                       /\ drafted'[x] = drafted[x]
        BY <2>3
      <4> QED
        BY <1>7, <1>f, <2>3, <4>1, <4>2 DEF StoppedClose
    <3>1. r \in elders[x] /\ x \notin overtaken
      BY <2>3 DEF InOrder, DatedOnes, Dated
    <3> QED
      BY <1>7, <1>f, <2>1, <3>1 DEF StoppedClose, Close
  <2>7. deaf' <= pace
    BY <1>0, <1>f, <2>2 DEF CountsBelow
  <2> QED
    BY <2>3, <2>4, <2>5, <2>6, <2>7 DEF Close
<1>8. ASSUME NEW r \in Beans, StoresBeat(r), r # listedBean PROVE Close'
  <2>1. /\ at' = [at EXCEPT ![r] = "none"]
        /\ drafted' = [drafted EXCEPT ![r] = NoBeat]
        /\ elders' = [x \in Beans |-> IF x = r THEN {} ELSE elders[x] \ {r}]
        /\ overtaken' = (overtaken \cup elders[r]) \ {r}
        /\ latest' = IF r \in overtaken THEN latest ELSE drafted[r]
        /\ at[r] = "store" /\ UNCHANGED <<listedBean, pace, deaf, previous>>
    BY <1>8 DEF StoresBeat, BeatEnds
  <2>2. LatestClose'
    <3>1. CASE r \in overtaken
      <4>1. elders[r] \subseteq overtaken
        BY <3>1 DEF InOrder
      <4> QED
        BY <1>8, <1>f, <2>1, <3>1, <4>1 DEF LatestClose, Close
    <3>2. CASE r \notin overtaken
      <4>1. drafted[r].status = DOWN =>
              deaf <= drafted[r].downCount + Slack(listedBean \in elders[r])
        BY <1>8, <2>1, <3>2 DEF StoppedClose, Close
      <4>2. listedBean \in overtaken => listedBean \in elders[r]
        BY <1>8, <2>1, <3>2 DEF InOrder, DatedOnes, Dated
      <4> QED
        BY <1>8, <1>f, <2>1, <3>2, <4>1, <4>2 DEF LatestClose
    <3> QED
      BY <3>1, <3>2
  <2>3. ListedClose'
    BY <1>8, <2>1 DEF ListedClose, Close
  <2>4. StoppedClose'
    BY <1>8, <2>1 DEF StoppedClose, Close
  <2> QED
    BY <2>1, <2>2, <2>3, <2>4 DEF Close
<1>9. ASSUME NEW r \in Beans, BeatFails(r) PROVE Close'
  <2>1. /\ at' = [at EXCEPT ![r] = IF r = listedBean THEN "timer" ELSE "none"]
        /\ drafted' = [drafted EXCEPT ![r] = NoBeat]
        /\ elders' = [x \in Beans |-> IF x = r THEN {} ELSE elders[x] \ {r}]
        /\ overtaken' = overtaken \ {r}
        /\ UNCHANGED <<listedBean, pace, deaf, previous, latest>>
    BY <1>9 DEF BeatFails, BeatEnds
  <2>2. LatestClose'
    BY <1>f, <2>1 DEF LatestClose, Close
  <2>3. ListedClose'
    BY <2>1 DEF ListedClose, Close
  <2>4. StoppedClose'
    BY <1>f, <2>1 DEF StoppedClose, Close
  <2> QED
    BY <2>1, <2>2, <2>3, <2>4 DEF Close
<1>10. CASE ServerCrashes
  <2>1. LatestClose'
    BY <1>f, <1>10 DEF ServerCrashes, LatestClose, Close
  <2>2. ListedClose'
    BY <1>0, <1>10 DEF ServerCrashes, ListedClose
  <2>3. StoppedClose'
    BY <1>10 DEF ServerCrashes, StoppedClose
  <2> QED
    BY <1>10, <2>1, <2>2, <2>3 DEF ServerCrashes, Close
<1>11. CASE UNCHANGED handoverVars
  BY <1>11 DEF handoverVars, Close, LatestClose, ListedClose, StoppedClose
<1> QED
  BY <1>1, <1>2, <1>3, <1>4, <1>5, <1>6, <1>7, <1>8, <1>9, <1>10, <1>11 DEF HandoverNext

LEMMA HandoverInvHolds == HandoverSpec => []HandoverInv
<1>1. HandoverInit => HandoverInv
  <2> SUFFICES ASSUME HandoverInit PROVE HandoverInv OBVIOUS
  <2>1. HandoverTypeOK
    BY NoBeatFacts DEF HandoverInit, HandoverTypeOK
  <2>2. InOrder
    BY DEF HandoverInit, InOrder, DatedOnes, Dated
  <2>3. pace > 0 => CountsBelow
    BY NoBeatFacts DEF HandoverInit, CountsBelow
  <2>4. pace > 0 => Close
    BY HandoverAssumption, NoBeatFacts
    DEF HandoverInit, Close, LatestClose, ListedClose, StoppedClose
  <2> QED
    BY <2>1, <2>2, <2>3, <2>4 DEF HandoverInv
<1>2. HandoverInv /\ HandoverTypeOK' /\ [HandoverNext]_handoverVars => HandoverInv'
  BY OrderKept, CountsKept, CloseKept, PaceKept DEF HandoverInv
<1> QED
  BY <1>1, <1>2, HandoverTypes, PTL DEF HandoverSpec

(* However many runners replace each other, crash or fail, and however     *)
(* their last beats overlap with the first of their successors, no more    *)
(* than resendInterval DOWN rows are stored by those that go on before the *)
(* subscribers hear of the outage (OutageIsRepeated; monitor.js, beat(),   *)
(* and server.js, startMonitor()).                                         *)
THEOREM OutageIsAlwaysRepeated == HandoverSpec => []OutageIsRepeated
<1>1. HandoverInv => OutageIsRepeated
  BY DEF HandoverInv, Close, OutageIsRepeated
<1> QED
  BY <1>1, HandoverInvHolds, PTL

-----------------------------------------------------------------------------
(* The tree of monitors, for any number of monitors and of clients.        *)
(*                                                                         *)
(* There is no cycle.  Nothing but the edit itself puts a monitor below    *)
(* another while an edit goes on, so that what its walk has found below    *)
(* the monitor contains, when the parent is stored, at least what is below *)
(* it then; and a group outside of that set can be its parent.             *)
(*                                                                         *)
(* Parents are groups.  One that is not any more belongs to an edit that   *)
(* has still to take the references back.                                  *)
(*                                                                         *)
(* A deletion that is alone leaves what it was to leave.  What is below the*)
(* rows of its stack is what it has still to take away, and the children of*)
(* a row are above it on the stack.                                        *)

(* ON DELETE SET NULL, and the refusal of a parent that has gone.          *)
ParentsExist == \A k \in exists : parent[k] \in exists \cup {Top}

OneEditor == ~crossed => \A c, d \in Clients : Editing(c) /\ Editing(d) => c = d

CallsMakeSense ==
    \A c \in Clients :
        /\ ~Editing(c) => descendants[c] = {}
        /\ Editing(c) => call[c].id \in Monitors /\ call[c].to # call[c].id

HasWalked(c) == stage[c] = "edit.walk" \/ (stage[c] = "edit.store" /\ call[c].to # Top)

(* What is below the monitor has been found, but for what is below those   *)
(* whose children are still to be read; and then the new parent is not.    *)
WalkKnows ==
    ~crossed => \A c \in Clients : HasWalked(c) =>
        /\ \A k \in exists :
              parent[k] \in descendants[c] \cup {call[c].id} =>
                  k \in descendants[c] \/ parent[k] \in unread[c]
        /\ stage[c] = "edit.store" => unread[c] = {} /\ call[c].to \notin descendants[c]

TreeInv ==
    /\ RowsAndEditsOK /\ ParentsExist /\ OneEditor /\ CallsMakeSense /\ WalkKnows
    /\ Forest

USE MaxMonitorsAssumption

-----------------------------------------------------------------------------
LEMMA RowsAreMonitors ==
    ASSUME RowsAndEditsOK
    PROVE  exists \subseteq Monitors /\ lastId \in Nat /\ Top \notin exists
<1>1. lastId \in 0 .. MaxMonitors /\ exists \subseteq 1 .. lastId BY DEF RowsAndEditsOK
<1>2. 1 .. lastId \subseteq 1 .. MaxMonitors BY <1>1
<1> QED BY <1>1, <1>2 DEF Monitors, Top

LEMMA TreeInvInit == TreeInit => TreeInv
<1> SUFFICES ASSUME TreeInit PROVE TreeInv OBVIOUS
<1>0. NoCall \in Call BY DEF NoCall, Call, Top
<1>1. RowsAndEditsOK
    <2>1. lastId \in 0 .. MaxMonitors /\ exists \subseteq 1 .. lastId /\ groups \subseteq exists
        BY DEF TreeInit
    <2>2. parent \in [Monitors -> Monitors \cup {Top}] BY DEF TreeInit
    <2>3. call \in [Clients -> Call] BY <1>0 DEF TreeInit
    <2> QED BY <2>1, <2>2, <2>3 DEF TreeInit, RowsAndEditsOK
<1>2. ParentsExist BY DEF TreeInit, ParentsExist
<1>3. OneEditor /\ CallsMakeSense /\ WalkKnows
    BY DEF TreeInit, OneEditor, CallsMakeSense, WalkKnows, Editing, HasWalked
<1>4. Forest BY DEF TreeInit, Forest, Acyclic
<1> QED BY <1>1, <1>2, <1>3, <1>4 DEF TreeInv

(* Rows that go, and references that are taken back, make no cycle.        *)
LEMMA ShrinkingIsSafe ==
    ASSUME RowsAndEditsOK, Acyclic, exists' \subseteq exists,
           \A k \in exists' : parent'[k] \in {parent[k], Top}
    PROVE  Acyclic'
<1> SUFFICES ASSUME NEW S \in SUBSET exists', S # {}
             PROVE  \E k \in S : parent'[k] \notin S
    BY DEF Acyclic
<1>1. PICK k \in S : parent[k] \notin S BY DEF Acyclic
<1>2. Top \notin S BY DEF RowsAndEditsOK, Top
<1> QED BY <1>1, <1>2

(* The step of a call that writes no reference but to take it back, and    *)
(* that leaves edits as they are.                                          *)
LEMMA ShrinkingKeepsInv ==
    ASSUME TreeInv, RowsAndEditsOK', ParentsExist', exists' \subseteq exists,
           \A k \in exists' : parent'[k] \in {parent[k], Top},
           crossed' = crossed,
           \A c \in Clients :
               \/ ~Editing(c)' /\ descendants'[c] = {}
               \/ /\ stage'[c] = stage[c] /\ call'[c] = call[c]
                  /\ descendants'[c] = descendants[c] /\ unread'[c] = unread[c]
    PROVE  TreeInv'
<1> USE DEF TreeInv
<1>1. \A c \in Clients : Editing(c)' =>
          /\ Editing(c) /\ stage'[c] = stage[c] /\ call'[c] = call[c]
          /\ descendants'[c] = descendants[c] /\ unread'[c] = unread[c]
    BY DEF Editing
<1>2. OneEditor' BY <1>1 DEF OneEditor
<1>3. CallsMakeSense' BY <1>1 DEF CallsMakeSense, Editing
<1>4. WalkKnows'
    <2> SUFFICES ASSUME ~crossed, NEW c \in Clients, HasWalked(c)'
                 PROVE  /\ \A k \in exists' :
                              parent'[k] \in descendants'[c] \cup {call'[c].id} =>
                                  k \in descendants'[c] \/ parent'[k] \in unread'[c]
                        /\ stage'[c] = "edit.store" =>
                              unread'[c] = {} /\ call'[c].to \notin descendants'[c]
        BY DEF WalkKnows
    <2>1. Editing(c)' BY DEF HasWalked, Editing
    <2>2. HasWalked(c) BY <1>1, <2>1 DEF HasWalked
    <2>3. Top \notin descendants[c] \cup {call[c].id}
        BY <1>1, <2>1 DEF RowsAndEditsOK, CallsMakeSense, Monitors, Top
    <2> QED BY <1>1, <2>1, <2>2, <2>3 DEF WalkKnows
<1>5. Forest' BY ShrinkingIsSafe DEF Forest
<1> QED BY <1>2, <1>3, <1>4, <1>5

-----------------------------------------------------------------------------
(* "add": the new row is nobody's parent, and its own parent was there.    *)
LEMMA AddKeepsInv ==
    ASSUME TreeInv, NEW c \in Clients, NEW m \in Monitors, NEW p \in Monitors \cup {Top},
           NEW g \in BOOLEAN, AddMonitor(c, m, p, g)
    PROVE  TreeInv'
<1> USE DEF TreeInv
<1>1. m \notin exists /\ m \in Monitors /\ p \in exists \cup {Top} /\ p # m
    BY DEF AddMonitor, RowsAndEditsOK, Monitors, Top
<1>2. exists' = exists \cup {m} /\ parent' = [parent EXCEPT ![m] = p] /\ lastId' = m
      /\ UNCHANGED <<stage, call, unread, descendants>>
    BY DEF AddMonitor, walks
<1>3. RowsAndEditsOK'
    BY <1>1, <1>2 DEF AddMonitor, RowsAndEditsOK, Monitors, Top
<1>4. ParentsExist' BY <1>1, <1>2 DEF ParentsExist, RowsAndEditsOK
<1>5. CallsMakeSense' BY <1>2 DEF CallsMakeSense, Editing
<1>6. ~crossed' => ~crossed /\ \A d \in Clients : ~Editing(d) BY DEF AddMonitor
<1>7. OneEditor' /\ WalkKnows'
    BY <1>2, <1>6 DEF OneEditor, WalkKnows, HasWalked, Editing
<1>8. Forest'
    <2> SUFFICES ASSUME Acyclic, NEW S \in SUBSET exists', S # {}
                 PROVE  \E k \in S : parent'[k] \notin S
        BY <1>6 DEF Forest, Acyclic
    <2>1. CASE S = {m} BY <2>1, <1>1, <1>2 DEF RowsAndEditsOK
    <2>2. CASE S \ {m} # {}
        <3>1. PICK k \in S \ {m} : parent[k] \notin S \ {m} BY <2>2, <1>2 DEF Acyclic
        <3>2. k \in exists /\ parent[k] # m
            BY <1>1, <1>2, <3>1 DEF ParentsExist, Monitors, Top
        <3> QED BY <1>2, <3>1, <3>2 DEF RowsAndEditsOK
    <2> QED BY <2>1, <2>2
<1> QED BY <1>3, <1>4, <1>5, <1>7, <1>8

(* "editMonitor" begins: it is the only edit, or two have crossed.         *)
LEMMA EditBeginsKeepsInv ==
    ASSUME TreeInv, NEW c \in Clients, NEW m \in Monitors, NEW p \in Monitors \cup {Top},
           NEW g \in BOOLEAN, EditMonitor(c, m, p, g)
    PROVE  TreeInv'
<1> USE DEF TreeInv
<1> DEFINE e == [id |-> m, to |-> p, toGroup |-> g, from |-> parent[m],
                 wasGroup |-> m \in groups]
<1>1. UNCHANGED <<lastId, exists, parent, groups, descendants>>
    BY DEF EditMonitor, rowsOfTree
<1>2. e \in Call /\ p # m
    <2>1. parent[m] \in Monitors \cup {Top} BY DEF RowsAndEditsOK
    <2>2. (m \in groups) \in BOOLEAN OBVIOUS
    <2>3. p # m BY DEF EditMonitor
    <2>4. e \in Call BY <2>1, <2>2, Zenon DEF Call
    <2> QED BY <2>3, <2>4
<1>3. call' = [call EXCEPT ![c] = e] BY DEF EditMonitor
<1>4. unread' = [unread EXCEPT ![c] = IF p = Top THEN {} ELSE {m}]
      /\ stage' = [stage EXCEPT ![c] = IF p = Top THEN "edit.store" ELSE "edit.walk"]
    BY DEF EditMonitor, GoOn
<1> HIDE DEF e
<1>5. crossed' \in BOOLEAN /\ (~crossed' => ~crossed /\ \A d \in Clients : ~Editing(d))
    <2>1. crossed' = (crossed \/ \E d \in Clients : Editing(d)) BY DEF EditMonitor
    <2> QED BY <2>1, Zenon
<1>6. RowsAndEditsOK'
    BY <1>1, <1>2, <1>3, <1>4, <1>5 DEF RowsAndEditsOK
<1>7. stage[c] = "idle" BY DEF EditMonitor
<1>8. ParentsExist' BY <1>1 DEF ParentsExist
<1>9. OneEditor'
    BY <1>4, <1>5 DEF OneEditor, Editing, RowsAndEditsOK
<1>10. e.id = m /\ e.to = p BY DEF e
<1>11. CallsMakeSense'
    BY <1>1, <1>2, <1>3, <1>4, <1>10 DEF CallsMakeSense, Editing, RowsAndEditsOK
<1>12. descendants[c] = {} BY <1>7 DEF CallsMakeSense, Editing
<1>13. WalkKnows'
    <2> SUFFICES ASSUME ~crossed', NEW d \in Clients, HasWalked(d)'
                 PROVE  /\ \A k \in exists' :
                              parent'[k] \in descendants'[d] \cup {call'[d].id} =>
                                  k \in descendants'[d] \/ parent'[k] \in unread'[d]
                        /\ stage'[d] = "edit.store" =>
                              unread'[d] = {} /\ call'[d].to \notin descendants'[d]
        BY DEF WalkKnows
    <2>1. CASE d # c BY <2>1, <1>4, <1>5 DEF HasWalked, Editing, RowsAndEditsOK
    <2>2. CASE d = c
        <3>1. call'[c] = e /\ p # Top
            BY <2>2, <1>3, <1>4, <1>10 DEF HasWalked, RowsAndEditsOK
        <3> QED BY <2>2, <3>1, <1>1, <1>4, <1>10, <1>12 DEF RowsAndEditsOK
    <2> QED BY <2>1, <2>2
<1>14. Forest' BY <1>1, <1>5 DEF Forest, Acyclic
<1> QED BY <1>6, <1>8, <1>9, <1>11, <1>13, <1>14

(* getAllChildrenIDs() goes on.                                            *)
LEMMA ReadKeepsInv ==
    ASSUME TreeInv, NEW c \in Clients, NEW m \in Monitors, ReadChildren(c, m)
    PROVE  TreeInv'
<1> USE DEF TreeInv
<1>1. UNCHANGED <<lastId, exists, parent, groups, stage, call, crossed>>
    BY DEF ReadChildren, rowsOfTree
<1>2. unread' = [unread EXCEPT ![c] = (unread[c] \ {m}) \cup Children(m)]
      /\ descendants' = [descendants EXCEPT ![c] = descendants[c] \cup Children(m)]
    BY DEF ReadChildren
<1>3. Children(m) \subseteq Monitors BY RowsAreMonitors DEF Children
<1>4. RowsAndEditsOK' BY <1>1, <1>2, <1>3 DEF RowsAndEditsOK
<1>5. ParentsExist' /\ Forest' BY <1>1 DEF ParentsExist, Forest, Acyclic
<1>6. OneEditor' BY <1>1 DEF OneEditor, Editing
<1>7. stage[c] = "edit.walk" BY DEF ReadChildren
<1>8. CallsMakeSense' BY <1>1, <1>2, <1>7 DEF CallsMakeSense, Editing, RowsAndEditsOK
<1>9. WalkKnows'
    <2> SUFFICES ASSUME ~crossed, NEW d \in Clients, HasWalked(d)
                 PROVE  /\ \A k \in exists :
                              parent[k] \in descendants'[d] \cup {call[d].id} =>
                                  k \in descendants'[d] \/ parent[k] \in unread'[d]
                        /\ stage[d] = "edit.store" =>
                              unread'[d] = {} /\ call[d].to \notin descendants'[d]
        BY <1>1 DEF WalkKnows, HasWalked
    <2>1. CASE d # c BY <2>1, <1>2 DEF WalkKnows, RowsAndEditsOK
    <2>2. CASE d = c BY <2>2, <1>2, <1>7 DEF WalkKnows, RowsAndEditsOK, Children
    <2> QED BY <2>1, <2>2
<1> QED BY <1>4, <1>5, <1>6, <1>8, <1>9

(* A call ends: there is one edit the fewer.                               *)
LEMMA EndCallIsSafe ==
    ASSUME TreeInv, NEW c \in Clients, EndCall(c)
    PROVE  /\ stage' \in [Clients -> {"idle", "edit.walk", "edit.store", "edit.unlink",
                                      "delete.kids", "delete.work"}]
           /\ call' \in [Clients -> Call]
           /\ unread' \in [Clients -> SUBSET Monitors]
           /\ descendants' \in [Clients -> SUBSET Monitors]
           /\ \A d \in Clients :
                 \/ ~Editing(d)' /\ descendants'[d] = {}
                 \/ /\ stage'[d] = stage[d] /\ call'[d] = call[d]
                    /\ descendants'[d] = descendants[d] /\ unread'[d] = unread[d]
<1>1. NoCall \in Call BY DEF NoCall, Call, Monitors, Top
<1> QED BY <1>1 DEF TreeInv, EndCall, GoOn, RowsAndEditsOK, Editing

(* "Invalid Monitor Group", or not.                                        *)
LEMMA WalkEndsKeepsInv ==
    ASSUME TreeInv, NEW c \in Clients, WalkEnds(c)
    PROVE  TreeInv'
<1> USE DEF TreeInv
<1>1. UNCHANGED <<lastId, exists, parent, groups, crossed>>
    BY DEF WalkEnds, rowsOfTree
<1>2. CASE call[c].to \in descendants[c]
    <2>1. EndCall(c) BY <1>2 DEF WalkEnds
    <2>2. RowsAndEditsOK' /\ ParentsExist'
        BY <1>1, <2>1, EndCallIsSafe DEF RowsAndEditsOK, ParentsExist
    <2> QED BY <1>1, <2>1, <2>2, EndCallIsSafe, ShrinkingKeepsInv
<1>3. CASE call[c].to \notin descendants[c]
    <2>1. stage' = [stage EXCEPT ![c] = "edit.store"]
          /\ UNCHANGED <<call, unread, descendants>>
        BY <1>3 DEF WalkEnds, GoOn
    <2>2. stage[c] = "edit.walk" /\ unread[c] = {} BY DEF WalkEnds
    <2>3. RowsAndEditsOK' BY <1>1, <2>1 DEF RowsAndEditsOK
    <2>4. ParentsExist' /\ Forest' BY <1>1 DEF ParentsExist, Forest, Acyclic
    <2>5. \A d \in Clients : Editing(d)' = Editing(d)
        BY <2>1, <2>2 DEF Editing, RowsAndEditsOK
    <2>6. OneEditor' BY <1>1, <2>5 DEF OneEditor
    <2>7. CallsMakeSense' BY <2>1, <2>5 DEF CallsMakeSense
    <2>8. WalkKnows'
        BY <1>1, <1>3, <2>1, <2>2 DEF WalkKnows, HasWalked, RowsAndEditsOK
    <2> QED BY <2>3, <2>4, <2>6, <2>7, <2>8
<1> QED BY <1>2, <1>3

-----------------------------------------------------------------------------
(* A parent outside of a set that holds all there is below the monitor     *)
(* closes no cycle.                                                        *)
LEMMA NewParentIsSafe ==
    ASSUME RowsAndEditsOK, Acyclic, NEW m \in exists, NEW p \in Monitors, p # m,
           NEW D \in SUBSET Monitors, p \notin D,
           \A k \in exists : parent[k] \in D \cup {m} => k \in D,
           exists' = exists, parent' = [parent EXCEPT ![m] = p]
    PROVE  Acyclic'
<1> SUFFICES ASSUME NEW S \in SUBSET exists, S # {}, \A k \in S : parent'[k] \in S
             PROVE  FALSE
    BY DEF Acyclic
<1>1. \A k \in S \ {m} : parent[k] \in S BY DEF RowsAndEditsOK, Monitors
<1>2. CASE m \notin S BY <1>1, <1>2 DEF Acyclic
<1>3. CASE m \in S
    <2> DEFINE R == S \ (D \cup {m})
    <2>1. p \in S BY <1>3 DEF RowsAndEditsOK, Monitors
    <2>2. p \in R /\ R \subseteq exists BY <2>1
    <2>3. \A k \in R : parent[k] \in R BY <1>1
    <2> QED BY <2>2, <2>3 DEF Acyclic
<1> QED BY <1>2, <1>3

(* The edit is stored: with no other parent, with none, or with one that   *)
(* is not below the monitor.                                               *)
LEMMA EditStoredKeepsInv ==
    ASSUME TreeInv, NEW c \in Clients, EditTreeStored(c)
    PROVE  TreeInv'
<1> USE DEF TreeInv
<1> DEFINE e == call[c]
<1>1. stage[c] = "edit.store" /\ e \in Call /\ e.id \in Monitors /\ e.to # e.id
    BY DEF EditTreeStored, RowsAndEditsOK, CallsMakeSense, Editing
<1>2. UNCHANGED <<lastId, exists, crossed>> BY DEF EditTreeStored
<1>3. parent' = parent \/ (e.id \in exists /\ parent' = [parent EXCEPT ![e.id] = e.to]
                           /\ e.to \in exists \cup {Top})
    BY DEF EditTreeStored, EditRefused
<1>4. groups' \subseteq exists
    <2>1. groups' \in {groups, groups \cup {e.id}, groups \ {e.id}}
          /\ (e.id \in exists \/ groups' = groups)
        BY DEF EditTreeStored
    <2> QED BY <2>1 DEF RowsAndEditsOK
<1>5. parent' \in [Monitors -> Monitors \cup {Top}]
    BY <1>1, <1>3 DEF RowsAndEditsOK, Call
<1>6. ParentsExist' BY <1>1, <1>2, <1>3 DEF ParentsExist, RowsAndEditsOK, Monitors
<1>7. Forest'
    <2> SUFFICES ASSUME ~crossed, Acyclic PROVE Acyclic' BY <1>2 DEF Forest
    <2>1. CASE parent' = parent BY <1>2, <2>1 DEF Acyclic
    <2>2. CASE e.id \in exists /\ parent' = [parent EXCEPT ![e.id] = e.to] /\ e.to = Top
        BY <1>1, <1>2, <2>2, ShrinkingIsSafe DEF RowsAndEditsOK, Monitors
    <2>3. CASE e.id \in exists /\ parent' = [parent EXCEPT ![e.id] = e.to] /\ e.to # Top
        <3>1. e.to \in Monitors BY <1>1, <2>3 DEF Call
        <3>2. /\ \A k \in exists : parent[k] \in descendants[c] \cup {e.id} =>
                                       k \in descendants[c]
              /\ e.to \notin descendants[c]
            BY <1>1, <2>3 DEF WalkKnows, HasWalked
        <3>3. descendants[c] \in SUBSET Monitors BY DEF RowsAndEditsOK
        <3> DEFINE D == descendants[c]
        <3>4. e.id \in exists /\ e.to # e.id /\ exists' = exists
              /\ parent' = [parent EXCEPT ![e.id] = e.to]
            BY <1>1, <1>2, <2>3
        <3>5. D \in SUBSET Monitors /\ e.to \notin D
              /\ \A k \in exists : parent[k] \in D \cup {e.id} => k \in D
            BY <3>2, <3>3
        <3>6. RowsAndEditsOK OBVIOUS
        <3> HIDE DEF e, D, TreeInv
        <3> QED BY <3>1, <3>4, <3>5, <3>6, NewParentIsSafe
    <2> QED BY <1>3, <2>1, <2>2, <2>3
<1>8. CASE e.wasGroup /\ ~e.toGroup
    <2>1. stage' = [stage EXCEPT ![c] = "edit.unlink"]
          /\ UNCHANGED <<call, unread, descendants>>
        BY <1>8 DEF EditTreeStored, GoOn
    <2>2. RowsAndEditsOK' BY <1>2, <1>4, <1>5, <2>1 DEF RowsAndEditsOK
    <2>3. \A d \in Clients : Editing(d)' = Editing(d)
        BY <1>1, <2>1 DEF Editing, RowsAndEditsOK
    <2>4. OneEditor' BY <1>2, <2>3 DEF OneEditor
    <2>5. CallsMakeSense' BY <2>1, <2>3 DEF CallsMakeSense
    <2>6. WalkKnows'
        <3> SUFFICES ASSUME ~crossed, NEW d \in Clients, HasWalked(d)' PROVE FALSE
            BY <1>2 DEF WalkKnows
        <3>1. d # c BY <2>1 DEF HasWalked, RowsAndEditsOK
        <3>2. Editing(d) /\ Editing(c) BY <1>1, <2>3 DEF HasWalked, Editing
        <3> QED BY <3>1, <3>2 DEF OneEditor
    <2> QED BY <1>6, <1>7, <2>2, <2>4, <2>5, <2>6
<1>9. CASE ~(e.wasGroup /\ ~e.toGroup)
    <2>1. EndCall(c) BY <1>9 DEF EditTreeStored
    <2>2. RowsAndEditsOK'
        BY <1>2, <1>4, <1>5, <2>1, EndCallIsSafe DEF RowsAndEditsOK
    <2>3. \A d \in Clients : Editing(d)' =>
              /\ Editing(d) /\ d # c /\ call'[d] = call[d]
              /\ descendants'[d] = descendants[d]
        BY <2>1 DEF EndCall, GoOn, Editing, RowsAndEditsOK
    <2>4. OneEditor' BY <1>2, <2>3 DEF OneEditor
    <2>5. CallsMakeSense' BY <2>1, <2>3, EndCallIsSafe DEF CallsMakeSense, Editing
    <2>6. WalkKnows'
        <3> SUFFICES ASSUME ~crossed, NEW d \in Clients, HasWalked(d)' PROVE FALSE
            BY <1>2 DEF WalkKnows
        <3>1. Editing(d)' BY DEF HasWalked, Editing
        <3>2. Editing(d) /\ d # c /\ Editing(c) BY <1>1, <2>3, <3>1 DEF Editing
        <3> QED BY <3>2 DEF OneEditor
    <2> QED BY <1>6, <1>7, <2>2, <2>4, <2>5, <2>6
<1> QED BY <1>8, <1>9

-----------------------------------------------------------------------------
(* The steps that only take references back: what an edit does after its   *)
(* store, and all that a deletion does.                                    *)
LEMMA UnlinkedShrinks ==
    ASSUME RowsAndEditsOK, ParentsExist, NEW m,
           \/ parent' = Unlinked(m)
           \/ parent' = [Unlinked(m) EXCEPT ![m] = Top]
    PROVE  /\ parent' \in [Monitors -> Monitors \cup {Top}]
           /\ \A k \in exists : parent'[k] = Top \/ (parent'[k] = parent[k] /\ parent[k] # m)
<1>1. exists \subseteq Monitors BY RowsAreMonitors
<1>2. /\ Unlinked(m) \in [Monitors -> Monitors \cup {Top}]
      /\ \A k \in Monitors : Unlinked(m)[k] = IF parent[k] = m THEN Top ELSE parent[k]
    BY DEF Unlinked, RowsAndEditsOK
<1>3. CASE parent' = Unlinked(m) BY <1>1, <1>2, <1>3
<1>4. CASE parent' = [Unlinked(m) EXCEPT ![m] = Top]
    <2>1. /\ parent' \in [Monitors -> Monitors \cup {Top}]
          /\ \A k \in Monitors : parent'[k] = IF k = m THEN Top ELSE Unlinked(m)[k]
        BY <1>2, <1>4
    <2> QED BY <1>1, <1>2, <2>1
<1> QED BY <1>3, <1>4

LEMMA EditEndsKeepsInv ==
    ASSUME TreeInv, NEW c \in Clients, EditThrows(c) \/ UnlinkAllChildren(c)
    PROVE  TreeInv'
<1> USE DEF TreeInv
<1>1. EndCall(c) /\ UNCHANGED <<lastId, exists, groups, crossed>>
    BY DEF EditThrows, UnlinkAllChildren, rowsOfTree
<1>2. parent' = parent \/ parent' = Unlinked(call[c].id)
    BY DEF EditThrows, UnlinkAllChildren, rowsOfTree
<1>3. parent' \in [Monitors -> Monitors \cup {Top}]
      /\ \A k \in exists : parent'[k] \in {parent[k], Top}
    BY <1>2, UnlinkedShrinks DEF RowsAndEditsOK
<1>4. RowsAndEditsOK' BY <1>1, <1>3, EndCallIsSafe DEF RowsAndEditsOK
<1>5. ParentsExist' BY <1>1, <1>3 DEF ParentsExist
<1> QED BY <1>1, <1>3, <1>4, <1>5, EndCallIsSafe, ShrinkingKeepsInv

LEMMA DeletionGoesOnKeepsInv ==
    ASSUME TreeInv, NEW c \in Clients,
           \/ \E m \in Monitors, deep \in BOOLEAN : DeleteTree(c, m, deep)
           \/ KidsUnlinked(c) \/ VisitRow(c)
    PROVE  TreeInv'
<1> USE DEF TreeInv
<1>1. ~Editing(c) /\ ~Editing(c)'
      /\ UNCHANGED <<lastId, exists, groups, unread, descendants, crossed>>
    BY DEF DeleteTree, KidsUnlinked, VisitRow, GoOn, rowsOfTree, Editing, RowsAndEditsOK
<1>2. parent' = parent \/ parent' = Unlinked(call[c].id)
    BY DEF DeleteTree, KidsUnlinked, VisitRow, rowsOfTree
<1>3. parent' \in [Monitors -> Monitors \cup {Top}]
      /\ \A k \in exists : parent'[k] \in {parent[k], Top}
    BY <1>2, UnlinkedShrinks DEF RowsAndEditsOK
<1>4. stage' \in [Clients -> {"idle", "edit.walk", "edit.store", "edit.unlink",
                              "delete.kids", "delete.work"}]
      /\ call' \in [Clients -> Call]
    <2>1. \A e \in Call, m \in Monitors : [e EXCEPT !.id = m] \in Call BY DEF Call
    <2>2. call' = call \/ \E m \in Monitors : call' = [call EXCEPT ![c].id = m]
        BY DEF DeleteTree, KidsUnlinked, VisitRow
    <2>3. call' \in [Clients -> Call] BY <2>1, <2>2 DEF RowsAndEditsOK
    <2>4. stage' \in [Clients -> {"idle", "edit.walk", "edit.store", "edit.unlink",
                                  "delete.kids", "delete.work"}]
        BY DEF DeleteTree, KidsUnlinked, VisitRow, GoOn, RowsAndEditsOK
    <2> QED BY <2>3, <2>4
<1>5. \A d \in Clients \ {c} : stage'[d] = stage[d] /\ call'[d] = call[d]
    BY DEF DeleteTree, KidsUnlinked, VisitRow, GoOn, RowsAndEditsOK
<1>6. RowsAndEditsOK' BY <1>1, <1>3, <1>4 DEF RowsAndEditsOK
<1>7. ParentsExist' BY <1>1, <1>3 DEF ParentsExist
<1>8. descendants[c] = {} BY <1>1 DEF CallsMakeSense
<1> QED BY <1>1, <1>3, <1>5, <1>6, <1>7, <1>8, ShrinkingKeepsInv

LEMMA DropKeepsInv ==
    ASSUME TreeInv, NEW c \in Clients, DropVisited(c) \/ DeleteThrows(c)
    PROVE  TreeInv'
<1> USE DEF TreeInv
<1>1. CASE DeleteThrows(c)
    <2>1. EndCall(c) /\ UNCHANGED <<lastId, exists, groups, parent, crossed>>
        BY <1>1 DEF DeleteThrows, rowsOfTree
    <2>2. RowsAndEditsOK' /\ ParentsExist'
        BY <2>1, EndCallIsSafe DEF RowsAndEditsOK, ParentsExist
    <2> QED BY <2>1, <2>2, EndCallIsSafe, ShrinkingKeepsInv
<1>2. CASE DropVisited(c)
    <2> DEFINE m == Head(work[c]).id
    <2>1. exists' = exists \ {m} /\ groups' = groups \ {m}
          /\ parent' = [Unlinked(m) EXCEPT ![m] = Top] /\ UNCHANGED <<lastId, crossed>>
        BY <1>2 DEF DropVisited
    <2>2. EndCall(c) \/ UNCHANGED <<stage, call, unread, descendants>>
        BY <1>2 DEF DropVisited
    <2> HIDE DEF m
    <2>3. parent' \in [Monitors -> Monitors \cup {Top}]
          /\ \A k \in exists : parent'[k] = Top \/ (parent'[k] = parent[k] /\ parent[k] # m)
        BY <2>1, UnlinkedShrinks
    <2>4. RowsAndEditsOK'
        BY <2>1, <2>2, <2>3, EndCallIsSafe DEF RowsAndEditsOK
    <2>5. ParentsExist' BY <2>1, <2>3 DEF ParentsExist
    <2>6. \A d \in Clients :
             \/ ~Editing(d)' /\ descendants'[d] = {}
             \/ /\ stage'[d] = stage[d] /\ call'[d] = call[d]
                /\ descendants'[d] = descendants[d] /\ unread'[d] = unread[d]
        BY <2>2, EndCallIsSafe
    <2> QED BY <2>1, <2>3, <2>4, <2>5, <2>6, ShrinkingKeepsInv
<1> QED BY <1>1, <1>2

LEMMA TreeInvNext == TreeInv /\ [TreeNext]_treeVars => TreeInv'
<1> SUFFICES ASSUME TreeInv, [TreeNext]_treeVars PROVE TreeInv' OBVIOUS
<1>1. CASE UNCHANGED treeVars
    BY <1>1 DEF treeVars, rowsOfTree, walks, TreeInv, RowsAndEditsOK, ParentsExist,
                OneEditor, CallsMakeSense, WalkKnows, HasWalked, Editing, Forest, Acyclic
<1>2. ASSUME NEW c \in Clients, TreeStep(c) PROVE TreeInv'
    BY <1>2, ReadKeepsInv, WalkEndsKeepsInv, EditStoredKeepsInv, EditEndsKeepsInv,
       DeletionGoesOnKeepsInv, DropKeepsInv DEF TreeStep
<1>3. ASSUME NEW c \in Clients, NEW m \in Monitors, NEW p \in Monitors \cup {Top},
             NEW g \in BOOLEAN, AddMonitor(c, m, p, g) \/ EditMonitor(c, m, p, g)
      PROVE  TreeInv'
    BY <1>3, AddKeepsInv, EditBeginsKeepsInv
<1>4. ASSUME NEW c \in Clients, NEW m \in Monitors, NEW deep \in BOOLEAN,
             DeleteTree(c, m, deep)
      PROVE  TreeInv'
    BY <1>4, DeletionGoesOnKeepsInv
<1> QED BY <1>1, <1>2, <1>3, <1>4 DEF TreeNext

-----------------------------------------------------------------------------
(* "Check if Parent is Descendant": unless two edits, or an edit and an    *)
(* add, overlap, the check read by read keeps the monitors free of cycles, *)
(* whatever is deleted meanwhile.                                          *)
THEOREM MonitorsAreForest == TreeSpec => []Forest
<1>1. TreeInv => Forest BY DEF TreeInv
<1> QED BY TreeInvInit, TreeInvNext, <1>1, PTL DEF TreeSpec

-----------------------------------------------------------------------------
(* The parent an edit is to store is a group as long as it exists, ...     *)
NewParentIsGroup ==
    ~crossed => \A c \in Clients :
        stage[c] \in {"edit.walk", "edit.store"} /\ call[c].to \in exists => call[c].to \in groups

(* ... and a parent that is no group is about to be taken back.            *)
ParentsAreGroups ==
    ~crossed /\ ~torn => \A m \in exists :
        \/ parent[m] \in groups \cup {Top}
        \/ \E c \in Clients : stage[c] = "edit.unlink" /\ parent[m] = call[c].id

GroupInv == TreeInv /\ torn \in BOOLEAN /\ NewParentIsGroup /\ ParentsAreGroups

LEMMA GroupInvInit == TreeInit => GroupInv
<1> SUFFICES ASSUME TreeInit PROVE GroupInv OBVIOUS
<1>1. NewParentIsGroup /\ ParentsAreGroups
    BY DEF TreeInit, NewParentIsGroup, ParentsAreGroups
<1> QED BY <1>1, TreeInvInit DEF TreeInit, GroupInv

(* The step of a call that takes rows and references away, and leaves the  *)
(* edits as they are but for one that may have ended.                      *)
LEMMA ShrinkingKeepsGroups ==
    ASSUME GroupInv, torn' \in BOOLEAN, torn => torn', crossed' = crossed,
           exists' \subseteq exists, groups' = groups \cap exists',
           \A m \in exists' :
               parent'[m] = Top \/ (parent'[m] = parent[m] /\ parent[m] \in exists' \cup {Top}),
           \A c \in Clients : ~Editing(c)' \/ (stage'[c] = stage[c] /\ call'[c] = call[c]),
           \A c \in Clients, m \in exists' :
               stage[c] = "edit.unlink" /\ parent'[m] = call[c].id /\ parent'[m] # Top /\ ~torn'
                   => stage'[c] = "edit.unlink" /\ call'[c] = call[c]
    PROVE  NewParentIsGroup' /\ ParentsAreGroups'
<1>1. NewParentIsGroup'
    BY DEF GroupInv, NewParentIsGroup, Editing
<1>2. ParentsAreGroups'
    BY DEF GroupInv, ParentsAreGroups
<1> QED BY <1>1, <1>2

LEMMA AddKeepsGroups ==
    ASSUME GroupInv, NEW c \in Clients, NEW m \in Monitors, NEW p \in Monitors \cup {Top},
           NEW g \in BOOLEAN, AddMonitor(c, m, p, g)
    PROVE  GroupInv'
<1> USE DEF GroupInv
<1>1. TreeInv' BY AddKeepsInv
<1>2. m \notin exists /\ exists' = exists \cup {m} /\ parent' = [parent EXCEPT ![m] = p]
      /\ p \in groups \cup {Top} /\ groups \subseteq groups' /\ m \in Monitors
      /\ UNCHANGED <<stage, call, torn>>
    BY DEF AddMonitor, walks, TreeInv, RowsAndEditsOK
<1>3. ~crossed' => ~crossed /\ \A d \in Clients : ~Editing(d) BY DEF AddMonitor
<1>4. NewParentIsGroup' BY <1>2, <1>3 DEF NewParentIsGroup, Editing
<1>5. \A k \in exists : parent'[k] = parent[k] BY <1>2 DEF TreeInv, RowsAndEditsOK
<1>6. parent'[m] = p BY <1>2 DEF TreeInv, RowsAndEditsOK
<1>7. ParentsAreGroups' BY <1>2, <1>3, <1>5, <1>6 DEF ParentsAreGroups
<1> QED BY <1>1, <1>2, <1>4, <1>7

LEMMA EditBeginsKeepsGroups ==
    ASSUME GroupInv, NEW c \in Clients, NEW m \in Monitors, NEW p \in Monitors \cup {Top},
           NEW g \in BOOLEAN, EditMonitor(c, m, p, g)
    PROVE  GroupInv'
<1> USE DEF GroupInv
<1>1. TreeInv' BY EditBeginsKeepsInv
<1>2. UNCHANGED <<exists, parent, groups, torn>> /\ stage[c] = "idle"
      /\ p \in groups \cup {Top}
    BY DEF EditMonitor, rowsOfTree
<1>3. ~crossed' => ~crossed /\ \A d \in Clients : ~Editing(d) BY DEF EditMonitor
<1>4. call'[c].to = p /\ stage'[c] \in {"edit.walk", "edit.store"}
      /\ \A d \in Clients : d # c => call'[d] = call[d] /\ stage'[d] = stage[d]
    BY DEF EditMonitor, GoOn, TreeInv, RowsAndEditsOK
<1>5. Top \notin exists BY RowsAreMonitors DEF TreeInv
<1>6. NewParentIsGroup'
    BY <1>2, <1>3, <1>4, <1>5 DEF NewParentIsGroup, Editing
<1>7. ParentsAreGroups'
    BY <1>2, <1>3, <1>4 DEF ParentsAreGroups, Editing
<1> QED BY <1>1, <1>2, <1>6, <1>7

LEMMA WalkKeepsGroups ==
    ASSUME GroupInv, NEW c \in Clients,
           WalkEnds(c) \/ \E m \in Monitors : ReadChildren(c, m)
    PROVE  GroupInv'
<1> USE DEF GroupInv
<1>1. TreeInv' BY WalkEndsKeepsInv, ReadKeepsInv
<1>2. UNCHANGED <<exists, parent, groups, torn, crossed>> /\ stage[c] = "edit.walk"
    BY DEF WalkEnds, ReadChildren, rowsOfTree
<1>3. /\ \A d \in Clients : d # c => call'[d] = call[d] /\ stage'[d] = stage[d]
      /\ \/ stage'[c] = "idle"
         \/ stage'[c] \in {"edit.walk", "edit.store"} /\ call'[c] = call[c]
    BY <1>2 DEF WalkEnds, ReadChildren, EndCall, GoOn, TreeInv, RowsAndEditsOK
<1>4. NewParentIsGroup' BY <1>2, <1>3 DEF NewParentIsGroup
<1>5. ParentsAreGroups' BY <1>2, <1>3 DEF ParentsAreGroups
<1> QED BY <1>1, <1>2, <1>4, <1>5

(* The store: of a parent that is a group still, and of a type.            *)
LEMMA EditStoredKeepsGroups ==
    ASSUME GroupInv, NEW c \in Clients, EditTreeStored(c)
    PROVE  GroupInv'
<1> USE DEF GroupInv
<1> DEFINE e == call[c]
<1>1. TreeInv' BY EditStoredKeepsInv
<1>2. UNCHANGED <<exists, crossed, torn>> /\ stage[c] = "edit.store"
    BY DEF EditTreeStored
<1>3. /\ \A d \in Clients : d # c => call'[d] = call[d] /\ stage'[d] = stage[d]
      /\ \/ stage'[c] = "idle" /\ ~(e.wasGroup /\ ~e.toGroup)
         \/ stage'[c] = "edit.unlink" /\ call'[c] = e
    BY <1>2 DEF EditTreeStored, EndCall, GoOn, TreeInv, RowsAndEditsOK
<1>4. ~crossed => \A d \in Clients : d # c => ~Editing(d)
    BY <1>2 DEF TreeInv, OneEditor, Editing
<1>5. NewParentIsGroup' BY <1>2, <1>3, <1>4 DEF NewParentIsGroup, Editing
<1>6. ParentsAreGroups'
    <2> SUFFICES ASSUME ~crossed, ~torn, NEW m \in exists
                 PROVE  \/ parent'[m] \in groups' \cup {Top}
                        \/ stage'[c] = "edit.unlink" /\ parent'[m] = call'[c].id
        BY <1>2 DEF ParentsAreGroups
    <2>1. parent[m] \in groups \cup {Top}
        BY <1>2, <1>4 DEF ParentsAreGroups, Editing
    <2>2. e.to \in exists => e.to \in groups
        BY <1>2 DEF NewParentIsGroup
    <2>3. parent'[m] \in groups \cup {Top}
        <3>1. parent'[m] = parent[m] \/ (parent'[m] = e.to /\ e.to \in exists \cup {Top})
            BY DEF EditTreeStored, EditRefused, TreeInv, RowsAndEditsOK
        <3> QED BY <2>1, <2>2, <3>1
    <2>4. \/ groups \subseteq groups'
          \/ groups' = groups \ {e.id} /\ e.wasGroup /\ ~e.toGroup
        <3>1. e \in Call BY DEF TreeInv, RowsAndEditsOK
        <3> QED BY <3>1 DEF EditTreeStored, Call
    <2>5. CASE groups \subseteq groups' BY <2>3, <2>5
    <2>6. CASE groups' = groups \ {e.id} /\ e.wasGroup /\ ~e.toGroup
        BY <1>3, <2>3, <2>6
    <2> QED BY <2>4, <2>5, <2>6
<1> QED BY <1>1, <1>2, <1>5, <1>6

LEMMA EditEndsKeepsGroups ==
    ASSUME GroupInv, NEW c \in Clients, EditThrows(c) \/ UnlinkAllChildren(c)
    PROVE  GroupInv'
<1> USE DEF GroupInv
<1>1. TreeInv' BY EditEndsKeepsInv
<1>2. EndCall(c) /\ UNCHANGED <<exists, groups, crossed>>
    BY DEF EditThrows, UnlinkAllChildren, rowsOfTree
<1>3. \A d \in Clients : \/ ~Editing(d)'
                         \/ stage'[d] = stage[d] /\ call'[d] = call[d]
    BY <1>2, EndCallIsSafe
<1>4. groups' = groups \cap exists' BY <1>2 DEF TreeInv, RowsAndEditsOK
<1>5. \A d \in Clients : d # c => stage'[d] = stage[d] /\ call'[d] = call[d]
    BY <1>2 DEF EndCall, GoOn, TreeInv, RowsAndEditsOK
<1>6. CASE EditThrows(c)
    <2>1. parent' = parent /\ torn' = (torn \/ stage[c] = "edit.unlink")
        BY <1>6 DEF EditThrows, rowsOfTree
    <2>2. torn' \in BOOLEAN /\ (torn => torn') BY <2>1
    <2>3. \A m \in exists' : parent'[m] = parent[m] /\ parent[m] \in exists' \cup {Top}
        BY <1>2, <2>1 DEF TreeInv, ParentsExist
    <2>4. \A d \in Clients, m \in exists' :
              stage[d] = "edit.unlink" /\ parent'[m] = call[d].id /\ parent'[m] # Top /\ ~torn'
                  => stage'[d] = "edit.unlink" /\ call'[d] = call[d]
        BY <1>5, <2>1
    <2>5. exists' \subseteq exists /\ crossed' = crossed BY <1>2
    <2>6. \A m \in exists' : \/ parent'[m] = Top
                             \/ parent'[m] = parent[m] /\ parent[m] \in exists' \cup {Top}
        BY <2>3
    <2>7. NewParentIsGroup' /\ ParentsAreGroups'
        <3> HIDE DEF GroupInv
        <3> QED BY <1>3, <1>4, <2>2, <2>4, <2>5, <2>6, ShrinkingKeepsGroups
    <2> QED BY <1>1, <2>2, <2>7
<1>7. CASE UnlinkAllChildren(c)
    <2>1. parent' = Unlinked(call[c].id) /\ torn' = torn
        BY <1>7 DEF UnlinkAllChildren
    <2>2. \A m \in exists : \/ parent'[m] = Top
                            \/ parent'[m] = parent[m] /\ parent[m] # call[c].id
        BY <2>1, UnlinkedShrinks DEF TreeInv
    <2>3. \A m \in exists' : \/ parent'[m] = Top
                             \/ parent'[m] = parent[m] /\ parent[m] \in exists' \cup {Top}
        BY <1>2, <2>2 DEF TreeInv, ParentsExist
    <2>4. \A d \in Clients, m \in exists' :
              stage[d] = "edit.unlink" /\ parent'[m] = call[d].id /\ parent'[m] # Top /\ ~torn'
                  => stage'[d] = "edit.unlink" /\ call'[d] = call[d]
        BY <1>2, <1>5, <2>2
    <2>5. exists' \subseteq exists /\ crossed' = crossed BY <1>2
    <2>6. torn' \in BOOLEAN /\ (torn => torn') BY <2>1
    <2>7. NewParentIsGroup' /\ ParentsAreGroups'
        <3> HIDE DEF GroupInv
        <3> QED BY <1>3, <1>4, <2>3, <2>4, <2>5, <2>6, ShrinkingKeepsGroups
    <2> QED BY <1>1, <2>6, <2>7
<1> QED BY <1>6, <1>7

LEMMA DeletionKeepsGroups ==
    ASSUME GroupInv, NEW c \in Clients,
           \/ \E m \in Monitors, deep \in BOOLEAN : DeleteTree(c, m, deep)
           \/ KidsUnlinked(c) \/ VisitRow(c) \/ DropVisited(c) \/ DeleteThrows(c)
    PROVE  GroupInv'
<1> USE DEF GroupInv
<1>1. TreeInv' BY DeletionGoesOnKeepsInv, DropKeepsInv
<1>2. UNCHANGED <<crossed, torn>> /\ ~Editing(c) /\ ~Editing(c)'
    BY DEF DeleteTree, KidsUnlinked, VisitRow, DropVisited, DeleteThrows, EndCall, GoOn, Editing,
           TreeInv, RowsAndEditsOK
<1>3. \A d \in Clients : d # c => stage'[d] = stage[d] /\ call'[d] = call[d]
    BY DEF DeleteTree, KidsUnlinked, VisitRow, DropVisited, DeleteThrows, EndCall, GoOn,
           TreeInv, RowsAndEditsOK
<1>4. /\ \A d \in Clients : ~Editing(d)' \/ (stage'[d] = stage[d] /\ call'[d] = call[d])
      /\ \A d \in Clients, m \in exists' :
            stage[d] = "edit.unlink" /\ parent'[m] = call[d].id /\ parent'[m] # Top /\ ~torn'
                => stage'[d] = "edit.unlink" /\ call'[d] = call[d]
    BY <1>2, <1>3 DEF Editing
<1>5. CASE DropVisited(c)
    <2> DEFINE m == Head(work[c]).id
    <2>1. exists' = exists \ {m} /\ groups' = groups \ {m}
          /\ parent' = [Unlinked(m) EXCEPT ![m] = Top]
        BY <1>5 DEF DropVisited
    <2> HIDE DEF m
    <2>2. \A k \in exists : \/ parent'[k] = Top
                            \/ parent'[k] = parent[k] /\ parent[k] # m
        BY <2>1, UnlinkedShrinks DEF TreeInv
    <2>3. groups' = groups \cap exists' BY <2>1 DEF TreeInv, RowsAndEditsOK
    <2>4. \A k \in exists' : \/ parent'[k] = Top
                             \/ parent'[k] = parent[k] /\ parent[k] \in exists' \cup {Top}
        BY <2>1, <2>2 DEF TreeInv, ParentsExist
    <2>5. exists' \subseteq exists /\ crossed' = crossed BY <1>2, <2>1
    <2>6. torn' \in BOOLEAN /\ (torn => torn') BY <1>2
    <2>7. NewParentIsGroup' /\ ParentsAreGroups'
        <3> HIDE DEF GroupInv
        <3> QED BY <1>4, <2>3, <2>4, <2>5, <2>6, ShrinkingKeepsGroups
    <2> QED BY <1>1, <2>6, <2>7
<1>6. CASE ~DropVisited(c)
    <2>1. exists' = exists /\ groups' = groups
          /\ (parent' = parent \/ parent' = Unlinked(call[c].id))
        BY <1>6 DEF DeleteTree, KidsUnlinked, VisitRow, DeleteThrows, rowsOfTree
    <2>2. \A k \in exists : parent'[k] \in {parent[k], Top}
        BY <2>1, UnlinkedShrinks DEF TreeInv
    <2>3. groups' = groups \cap exists' BY <2>1 DEF TreeInv, RowsAndEditsOK
    <2>4. \A k \in exists' : \/ parent'[k] = Top
                             \/ parent'[k] = parent[k] /\ parent[k] \in exists' \cup {Top}
        BY <2>1, <2>2 DEF TreeInv, ParentsExist
    <2>5. exists' \subseteq exists /\ crossed' = crossed BY <1>2, <2>1
    <2>6. torn' \in BOOLEAN /\ (torn => torn') BY <1>2
    <2>7. NewParentIsGroup' /\ ParentsAreGroups'
        <3> HIDE DEF GroupInv
        <3> QED BY <1>4, <2>3, <2>4, <2>5, <2>6, ShrinkingKeepsGroups
    <2> QED BY <1>1, <2>6, <2>7
<1> QED BY <1>5, <1>6

LEMMA GroupInvNext == GroupInv /\ [TreeNext]_treeVars => GroupInv'
<1> SUFFICES ASSUME GroupInv, [TreeNext]_treeVars PROVE GroupInv' OBVIOUS
<1>1. CASE UNCHANGED treeVars
    <2>1. TreeInv' BY <1>1, TreeInvNext DEF GroupInv
    <2> QED BY <1>1, <2>1 DEF treeVars, rowsOfTree, walks, GroupInv, NewParentIsGroup,
                             ParentsAreGroups
<1>2. ASSUME NEW c \in Clients, TreeStep(c) PROVE GroupInv'
    BY <1>2, WalkKeepsGroups, EditStoredKeepsGroups, EditEndsKeepsGroups, DeletionKeepsGroups
       DEF TreeStep
<1>3. ASSUME NEW c \in Clients, NEW m \in Monitors, NEW p \in Monitors \cup {Top},
             NEW g \in BOOLEAN, AddMonitor(c, m, p, g) \/ EditMonitor(c, m, p, g)
      PROVE  GroupInv'
    BY <1>3, AddKeepsGroups, EditBeginsKeepsGroups
<1>4. ASSUME NEW c \in Clients, NEW m \in Monitors, NEW deep \in BOOLEAN,
             DeleteTree(c, m, deep)
      PROVE  GroupInv'
    BY <1>4, DeletionKeepsGroups
<1> QED BY <1>1, <1>2, <1>3, <1>4 DEF TreeNext

(* A parent is a group that exists when all calls have ended, however      *)
(* groups are deleted, turned into monitors and unlinked meanwhile         *)
(* (ParentIsGroup; monitor-socket-handler.js, editMonitor and              *)
(* deleteMonitor).                                                         *)
THEOREM ParentsStayGroups == TreeSpec => []ParentIsGroup
<1>1. GroupInv => ParentIsGroup
    BY DEF GroupInv, TreeInv, RowsAndEditsOK, ParentsAreGroups, ParentIsGroup
<1> QED BY GroupInvInit, GroupInvNext, <1>1, PTL DEF TreeSpec

-----------------------------------------------------------------------------
(* What a deletion has still to take away, were it the only call.          *)
Doomed(e) == IF e.op = "visit" THEN (exists \cap {e.id}) \cup Below(e.id) ELSE exists \cap {e.id}

Row == [op : {"visit", "drop"}, id : Monitors]
AllDoomed(w) == UNION {Doomed(w[i]) : i \in 1 .. Len(w)}

(* The children of a row that is dropped come before it.                   *)
ChildrenFirst(w) ==
    \A i \in 1 .. Len(w) : w[i].op = "drop" =>
        \A k \in Children(w[i].id) : \E j \in 1 .. i - 1 : w[j].id = k

ParentsGrouped == \A m \in exists : parent[m] \in groups \cup {Top}

StackOK(c) == stage[c] \in {"delete.kids", "delete.work"} => work[c] # <<>>

(* A deletion that is alone leaves what it was to leave, when it has worked*)
(* off its stack.                                                          *)
DeletionKnows(c) == alone[c] =>
    /\ stage[c] \in {"delete.kids", "delete.work"} => ParentsGrouped
    /\ stage[c] = "delete.kids" =>
          /\ work[c] = <<DropRow(call[c].id)>>
          /\ spared[c] = exists \ {call[c].id}
    /\ stage[c] = "delete.work" =>
          /\ exists \ spared[c] = AllDoomed(work[c]) /\ spared[c] \subseteq exists
          /\ ChildrenFirst(work[c])

DeletionInv ==
    GroupInv /\ TreeTypeOK /\ \A c \in Clients : StackOK(c) /\ DeletionKnows(c)

Closed(S) == \A y \in S : parent[y] \in S \cup {Top}

LEMMA BelowChildren ==
    ASSUME RowsAndEditsOK, ParentsExist, NEW m \in Monitors
    PROVE  (exists \cap {m}) \cup Below(m)
           = (exists \cap {m}) \cup UNION {(exists \cap {k}) \cup Below(k) : k \in Children(m)}
<1>0. m # Top /\ Top \notin exists BY RowsAreMonitors DEF Monitors, Top
<1>1. ASSUME NEW k \in Children(m), NEW x \in (exists \cap {k}) \cup Below(k), x # m
      PROVE  x \in Below(m)
    <2>1. x \in exists BY <1>1 DEF Below
    <2>2. ASSUME NEW S \in SUBSET exists, x \in S, Closed(S) PROVE m \in S
        <3>1. k \in S BY <1>1, <2>2 DEF Below, Closed
        <3>2. parent[k] = m BY DEF Children
        <3> QED BY <1>0, <2>2, <3>1, <3>2 DEF Closed
    <2> QED BY <1>1, <2>1, <2>2 DEF Below, Closed
<1>2. ASSUME NEW x \in Below(m), \A k \in Children(m) : x # k /\ x \notin Below(k)
      PROVE  FALSE
    <2> DEFINE Up == {y \in exists : \A S \in SUBSET exists : x \in S /\ Closed(S) => y \in S}
    <2>1. x \in exists /\ x # m BY DEF Below
    <2>2. x \in Up BY <2>1
    <2>3. ASSUME NEW y \in Up PROVE parent[y] \in Up \cup {Top}
        <3>1. parent[y] \in exists \cup {Top} BY DEF ParentsExist
        <3>2. ASSUME NEW S \in SUBSET exists, x \in S, Closed(S), parent[y] # Top
              PROVE  parent[y] \in S
            BY <3>2 DEF Closed
        <3> QED BY <3>1, <3>2
    <2>4. \A k \in Children(m) : k \notin Up
        <3> SUFFICES ASSUME NEW k \in Children(m), k \in Up PROVE FALSE OBVIOUS
        <3>1. x # k /\ x \notin Below(k) BY <1>2
        <3>2. PICK S \in SUBSET exists : x \in S /\ Closed(S) /\ k \notin S
            BY <2>1, <3>1 DEF Below, Closed
        <3> QED BY <3>2
    <2>5. Up \ {m} \in SUBSET exists OBVIOUS
    <2>6. \A y \in Up \ {m} : parent[y] \in (Up \ {m}) \cup {Top}
        BY <2>3, <2>4 DEF Children
    <2>7. x \in Up \ {m} BY <2>1, <2>2
    <2> HIDE DEF Up
    <2> QED BY <2>5, <2>6, <2>7 DEF Below
<1> DEFINE U == UNION {(exists \cap {k}) \cup Below(k) : k \in Children(m)}
<1>3. \A x \in U : x = m \/ x \in Below(m)
    <2> TAKE x \in U
    <2>1. PICK k \in Children(m) : x \in (exists \cap {k}) \cup Below(k) OBVIOUS
    <2> QED BY <1>1, <2>1
<1>4. \A x \in U : x \in exists BY DEF Below
<1>5. \A x \in Below(m) : x \in U
    <2> TAKE x \in Below(m)
    <2>1. PICK k \in Children(m) : x = k \/ x \in Below(k) BY <1>2
    <2>2. k \in exists BY DEF Children
    <2> QED BY <2>1, <2>2
<1> QED BY <1>3, <1>4, <1>5

(* A monitor that no row has for parent has nothing below it.              *)
LEMMA BelowLeaf ==
    ASSUME RowsAndEditsOK, ParentsExist, NEW m \in Monitors, Children(m) = {}
    PROVE  Below(m) = {}
<1> SUFFICES ASSUME NEW x \in Below(m) PROVE FALSE OBVIOUS
<1>1. x \in exists \ {m} BY DEF Below
<1>2. \A y \in exists \ {m} : parent[y] \in (exists \ {m}) \cup {Top}
    BY DEF ParentsExist, Children
<1> QED BY <1>1, <1>2 DEF Below

(* Dropping such a row takes it away from below the others, and that is all*)
LEMMA DropBelow ==
    ASSUME RowsAndEditsOK, ParentsExist, NEW m \in Monitors, Children(m) = {},
           exists' = exists \ {m}, \A k \in exists' : parent'[k] = parent[k],
           NEW x \in Monitors
    PROVE  Below(x)' = Below(x) \ {m}
<1>1. ASSUME NEW k \in Below(x)' PROVE k \in Below(x) \ {m}
    <2>1. k \in exists /\ k # m /\ k # x BY DEF Below
    <2>2. ASSUME NEW S \in SUBSET exists, k \in S,
                 \A y \in S : parent[y] \in S \cup {Top}
          PROVE  x \in S
        <3>1. S \ {m} \in SUBSET exists' OBVIOUS
        <3>2. \A y \in S \ {m} : parent'[y] \in (S \ {m}) \cup {Top}
            BY <2>2 DEF Children
        <3>3. x \in S \ {m} BY <2>1, <2>2, <3>1, <3>2 DEF Below
        <3> QED BY <3>3
    <2> QED BY <2>1, <2>2 DEF Below
<1>2. ASSUME NEW k \in Below(x), k # m PROVE k \in Below(x)'
    <2>1. k \in exists' /\ k # x BY <1>2 DEF Below
    <2>2. ASSUME NEW S \in SUBSET exists', k \in S,
                 \A y \in S : parent'[y] \in S \cup {Top}
          PROVE  x \in S
        <3>1. S \in SUBSET exists OBVIOUS
        <3>2. \A y \in S : parent[y] \in S \cup {Top} BY <2>2
        <3> QED BY <2>2, <3>1, <3>2 DEF Below
    <2> QED BY <2>1, <2>2 DEF Below
<1> QED BY <1>1, <1>2

LEMMA ListedOnce ==
    ASSUME NEW S, IsFiniteSet(S)
    PROVE  /\ Cardinality(S) \in Nat
           /\ SetToSeq(S) \in [1 .. Cardinality(S) -> S]
           /\ \A k \in S : \E i \in 1 .. Cardinality(S) : SetToSeq(S)[i] = k
<1> DEFINE n == Cardinality(S)
           f == SetToSeq(S)
<1>1. n \in Nat /\ ExistsBijection(1 .. n, S) BY FS_CardinalityType
<1>2. \E g \in [1 .. n -> S] : IsInjective(g)
    BY <1>1 DEF ExistsBijection, Bijection, Injection
<1>3. f \in [1 .. n -> S] /\ IsInjective(f) BY <1>2 DEF SetToSeq
<1>4. f \in Injection(1 .. n, S) BY <1>3 DEF Injection
<1>5. IsFiniteSet(1 .. n) /\ Cardinality(1 .. n) = n
    <2>1. 1 \in Int /\ n \in Int BY <1>1
    <2>2. /\ IsFiniteSet(1 .. n)
          /\ Cardinality(1 .. n) = IF 1 > n THEN 0 ELSE n - 1 + 1
        BY <2>1, FS_Interval
    <2> HIDE DEF n
    <2> QED BY <1>1, <2>2
<1>6. f \in Surjection(1 .. n, S) BY <1>4, <1>5, FS_Injection
<1>7. \A k \in S : \E i \in 1 .. n : f[i] = k
    <2> HIDE DEF f, n
    <2> QED BY <1>6 DEF Surjection
<1> QED BY <1>1, <1>3, <1>7

LEMMA ChildrenAreListed ==
    ASSUME RowsAndEditsOK, NEW m
    PROVE  /\ Cardinality(Children(m)) \in Nat
           /\ SetToSeq(Children(m)) \in [1 .. Cardinality(Children(m)) -> Children(m)]
           /\ \A k \in Children(m) :
                 \E i \in 1 .. Cardinality(Children(m)) : SetToSeq(Children(m))[i] = k
<1>1. exists \in SUBSET Monitors BY RowsAreMonitors
<1>2. IsFiniteSet(Monitors)
    <2>1. 1 \in Int /\ MaxMonitors \in Int BY MaxMonitorsAssumption
    <2> QED BY <2>1, FS_Interval DEF Monitors
<1>3. Children(m) \in SUBSET Monitors BY <1>1 DEF Children
<1>4. IsFiniteSet(Children(m)) BY <1>2, <1>3, FS_Subset
<1> QED BY <1>4, ListedOnce

(* What a visit puts on the stack: visits of the children, if it is a      *)
(* group, and then the row itself.                                         *)
LEMMA OpenedIsStack ==
    ASSUME RowsAndEditsOK, NEW m \in Monitors
    PROVE  /\ Opened(m) \in Seq(Row) /\ Len(Opened(m)) \in Nat \ {0}
           /\ Opened(m)[Len(Opened(m))] = DropRow(m)
           /\ \A i \in 1 .. Len(Opened(m)) - 1 :
                 Opened(m)[i].op = "visit" /\ Opened(m)[i].id \in Children(m)
           /\ m \in groups =>
                 \A k \in Children(m) : \E i \in 1 .. Len(Opened(m)) - 1 : Opened(m)[i].id = k
<1> DEFINE n == Cardinality(Children(m))
           f == SetToSeq(Children(m))
           v == [i \in 1 .. n |-> Visit(f[i])]
<1>1. n \in Nat /\ f \in [1 .. n -> Children(m)]
      /\ \A k \in Children(m) : \E i \in 1 .. n : f[i] = k
    BY ChildrenAreListed
<1>2. Children(m) \subseteq Monitors BY RowsAreMonitors DEF Children
<1>3. Opened(m) = IF m \in groups \cap exists THEN Append(v, DropRow(m)) ELSE <<DropRow(m)>>
    BY DEF Opened
<1>4. DropRow(m) \in Row /\ \A k \in Monitors : Visit(k) \in Row
    BY DEF DropRow, Visit, Row
<1>5. groups \subseteq exists BY DEF RowsAndEditsOK
<1>6. \A k : Visit(k).op = "visit" /\ Visit(k).id = k BY DEF Visit
<1> HIDE DEF n, f
<1>7. v \in Seq(Row) /\ Len(v) = n
    <2>1. \A i \in 1 .. n : Visit(f[i]) \in Row BY <1>1, <1>2, <1>4
    <2>2. v \in [1 .. n -> Row] BY <2>1
    <2> QED BY <1>1, <2>2
<1>8. CASE m \in groups
    <2>1. Opened(m) = Append(v, DropRow(m)) BY <1>3, <1>5, <1>8
    <2>2. /\ Opened(m) \in Seq(Row) /\ Len(Opened(m)) = n + 1
          /\ Opened(m)[n + 1] = DropRow(m)
          /\ \A i \in 1 .. n : Opened(m)[i] = v[i]
        BY <1>1, <1>4, <1>7, <2>1
    <2>3. \A i \in 1 .. n : Opened(m)[i] = Visit(f[i]) BY <2>2
    <2>4. \A i \in 1 .. n : Opened(m)[i].op = "visit" /\ Opened(m)[i].id = f[i]
        BY <1>6, <2>3
    <2>5. \A k \in Children(m) : \E i \in 1 .. n : Opened(m)[i].id = k BY <1>1, <2>4
    <2>6. Len(Opened(m)) - 1 = n /\ Len(Opened(m)) \in Nat \ {0} BY <1>1, <2>2
    <2> QED BY <1>1, <2>2, <2>4, <2>5, <2>6
<1>9. CASE m \notin groups
    <2>1. Opened(m) = <<DropRow(m)>> BY <1>3, <1>9
    <2>2. Opened(m) \in Seq(Row) /\ Len(Opened(m)) = 1 /\ Opened(m)[1] = DropRow(m)
        BY <1>4, <2>1
    <2> QED BY <1>9, <2>2
<1> QED BY <1>8, <1>9

(* Where the parents are groups, that is what was to go below the row.     *)
LEMMA OpenedIsExact ==
    ASSUME RowsAndEditsOK, ParentsExist, ParentsGrouped, NEW m \in Monitors
    PROVE  /\ AllDoomed(Opened(m)) = (exists \cap {m}) \cup Below(m)
           /\ ChildrenFirst(Opened(m))
<1> DEFINE o == Opened(m)
           n == Len(o)
<1>1. /\ o \in Seq(Row) /\ n \in Nat \ {0} /\ o[n] = DropRow(m)
      /\ \A i \in 1 .. n - 1 : o[i].op = "visit" /\ o[i].id \in Children(m)
      /\ m \in groups => \A k \in Children(m) : \E i \in 1 .. n - 1 : o[i].id = k
    BY OpenedIsStack
<1>2. \A k \in Children(m) : \E i \in 1 .. n - 1 : o[i].id = k
    <2>1. m \notin groups => Children(m) = {}
        BY DEF ParentsGrouped, Children, Monitors, Top
    <2> QED BY <1>1, <2>1
<1>3. o[n].op = "drop" /\ o[n].id = m BY <1>1 DEF DropRow
<1> DEFINE B == {(exists \cap {k}) \cup Below(k) : k \in Children(m)}
<1> HIDE DEF o, n
<1>4. \A i \in 1 .. n - 1 : Doomed(o[i]) = (exists \cap {o[i].id}) \cup Below(o[i].id)
    BY <1>1 DEF Doomed
<1>5. Doomed(o[n]) = exists \cap {m} BY <1>3 DEF Doomed
<1>6. AllDoomed(o) = (exists \cap {m}) \cup UNION B
    <2>1. \A x : x \in AllDoomed(o) <=> \E i \in 1 .. n : x \in Doomed(o[i])
        BY DEF AllDoomed, n
    <2>2. \A x : x \in UNION B <=>
              \E k \in Children(m) : x \in (exists \cap {k}) \cup Below(k)
        OBVIOUS
    <2>3. \A x : (\E i \in 1 .. n - 1 : x \in Doomed(o[i])) <=> x \in UNION B
        <3> HIDE DEF B
        <3>1. ASSUME NEW x, NEW i \in 1 .. n - 1, x \in Doomed(o[i]) PROVE x \in UNION B
            BY <1>1, <1>4, <2>2, <3>1
        <3>2. ASSUME NEW x, x \in UNION B PROVE \E i \in 1 .. n - 1 : x \in Doomed(o[i])
            <4>1. PICK k \in Children(m) : x \in (exists \cap {k}) \cup Below(k)
                BY <2>2, <3>2
            <4>2. PICK i \in 1 .. n - 1 : o[i].id = k BY <1>2
            <4> QED BY <1>4, <4>1, <4>2
        <3> QED BY <3>1, <3>2
    <2>4. \A i : i \in 1 .. n <=> i \in 1 .. n - 1 \/ i = n BY <1>1
    <2> HIDE DEF B
    <2>5. \A x : x \in AllDoomed(o) <=> x \in UNION B \/ x \in exists \cap {m}
        BY <1>5, <2>1, <2>3, <2>4
    <2> QED BY <2>5
<1>7. AllDoomed(o) = (exists \cap {m}) \cup Below(m) BY <1>6, BelowChildren
<1>8. ChildrenFirst(o)
    <2> SUFFICES ASSUME NEW i \in 1 .. n, o[i].op = "drop", NEW k \in Children(o[i].id)
                 PROVE  \E j \in 1 .. i - 1 : o[j].id = k
        BY DEF ChildrenFirst, n
    <2>1. i = n BY <1>1
    <2> QED BY <1>2, <1>3, <2>1
<1> QED BY <1>7, <1>8 DEF o

LEMMA HeadOfStack ==
    ASSUME NEW w \in Seq(Row), w # <<>>
    PROVE  /\ Head(w) = w[1] /\ Head(w) \in Row /\ Tail(w) \in Seq(Row)
           /\ Len(w) \in Nat \ {0} /\ Len(Tail(w)) = Len(w) - 1
           /\ \A i \in 1 .. Len(w) - 1 : Tail(w)[i] = w[i + 1]
OBVIOUS

LEMMA LastOfStack ==
    ASSUME NEW w \in Seq(Row), w # <<>>
    PROVE  Len(w) = 1 <=> Tail(w) = <<>>
<1>1. PICK t \in Seq(Row) : t = Tail(w) BY HeadOfStack
<1>2. Len(w) \in Nat /\ Len(t) = Len(w) - 1 BY <1>1, HeadOfStack
<1>3. Len(t) = 0 <=> t = <<>> OBVIOUS
<1>4. Len(w) = 1 <=> Len(t) = 0
    <2>1. PICK n \in Nat : n = Len(w) BY <1>2
    <2>2. PICK k : k = Len(t) OBVIOUS
    <2>3. k = n - 1 BY <1>2, <2>1, <2>2
    <2> QED BY <2>1, <2>2, <2>3
<1> QED BY <1>1, <1>3, <1>4

LEMMA JoinedStacks ==
    ASSUME NEW o \in Seq(Row), NEW t \in Seq(Row)
    PROVE  /\ Len(o \o t) = Len(o) + Len(t)
           /\ \A i \in 1 .. Len(o) : (o \o t)[i] = o[i]
           /\ \A i \in Len(o) + 1 .. Len(o) + Len(t) : (o \o t)[i] = t[i - Len(o)]
OBVIOUS

(* A row is visited: nothing is lost, nothing is put on the stack too soon.*)
LEMMA VisitKeepsStack ==
    ASSUME RowsAndEditsOK, ParentsExist, ParentsGrouped,
           NEW w \in Seq(Row), w # <<>>, Head(w).op = "visit", ChildrenFirst(w)
    PROVE  /\ AllDoomed(Opened(Head(w).id) \o Tail(w)) = AllDoomed(w)
           /\ ChildrenFirst(Opened(Head(w).id) \o Tail(w))
<1> DEFINE m == Head(w).id
           o == Opened(m)
           t == Tail(w)
           n == Len(o)
           l == Len(w)
<1>1. /\ w[1].id = m /\ m \in Monitors /\ t \in Seq(Row) /\ l \in Nat \ {0}
      /\ Len(t) = l - 1 /\ \A i \in 1 .. l - 1 : t[i] = w[i + 1]
      /\ Doomed(w[1]) = (exists \cap {m}) \cup Below(m) /\ w[1].op = "visit"
    BY HeadOfStack DEF Row, Doomed
<1>2. /\ o \in Seq(Row) /\ n \in Nat \ {0} /\ o[n] = DropRow(m)
    BY <1>1, OpenedIsStack
<1>3. AllDoomed(o) = Doomed(w[1]) /\ ChildrenFirst(o) BY <1>1, OpenedIsExact
<1>4. o[n].id = m BY <1>2 DEF DropRow
<1> DEFINE s == o \o t
<1> HIDE DEF m, o, t
<1>5. /\ Len(s) = n + l - 1 /\ \A i \in 1 .. n : s[i] = o[i]
      /\ \A i \in n + 1 .. n + l - 1 : s[i] = w[i - n + 1]
    <2>0. /\ Len(s) = n + Len(t) /\ \A i \in 1 .. n : s[i] = o[i]
          /\ \A i \in n + 1 .. n + Len(t) : s[i] = t[i - n]
        BY <1>1, <1>2, JoinedStacks
    <2> HIDE DEF s, n, l
    <2>1. Len(s) = n + (l - 1) /\ \A i \in 1 .. n : s[i] = o[i] BY <1>1, <2>0
    <2>2. \A i \in n + 1 .. n + l - 1 : s[i] = t[i - n]
        <3>1. n + Len(t) = n + l - 1 BY <1>1, <1>2
        <3> QED BY <2>0, <3>1
    <2>3. \A i \in n + 1 .. n + l - 1 : i - n \in 1 .. l - 1 /\ (i - n) + 1 = i - n + 1
        BY <1>1, <1>2
    <2>4. \A i \in n + 1 .. n + l - 1 : t[i - n] = w[i - n + 1] BY <1>1, <2>3
    <2> QED BY <1>1, <1>2, <2>1, <2>2, <2>4
<1> HIDE DEF s, n, l
<1>6. AllDoomed(s) = AllDoomed(w)
    <2>1. /\ \A x : x \in AllDoomed(s) <=> \E i \in 1 .. n + l - 1 : x \in Doomed(s[i])
          /\ \A x : x \in AllDoomed(w) <=> \E i \in 1 .. l : x \in Doomed(w[i])
          /\ \A x : x \in AllDoomed(o) <=> \E i \in 1 .. n : x \in Doomed(o[i])
        BY <1>5 DEF AllDoomed, n, l
    <2>2. ASSUME NEW x \in AllDoomed(s) PROVE x \in AllDoomed(w)
        <3>1. PICK i \in 1 .. n + l - 1 : x \in Doomed(s[i]) BY <2>1
        <3>2. CASE i \in 1 .. n
            <4>1. x \in AllDoomed(o) BY <1>5, <2>1, <3>1, <3>2
            <4>2. 1 \in 1 .. l BY <1>1
            <4> QED BY <1>3, <2>1, <4>1, <4>2
        <3>3. CASE i \in n + 1 .. n + l - 1
            <4>1. i - n + 1 \in 1 .. l BY <1>1, <1>2, <3>3
            <4> QED BY <1>5, <2>1, <3>1, <3>3, <4>1
        <3> QED BY <1>1, <1>2, <3>2, <3>3
    <2>3. ASSUME NEW x \in AllDoomed(w) PROVE x \in AllDoomed(s)
        <3>1. PICK i \in 1 .. l : x \in Doomed(w[i]) BY <2>1
        <3>2. CASE i = 1
            <4>1. PICK j \in 1 .. n : x \in Doomed(o[j]) BY <1>3, <2>1, <3>1, <3>2
            <4>2. j \in 1 .. n + l - 1 BY <1>1, <1>2
            <4> QED BY <1>5, <2>1, <4>1, <4>2
        <3>3. CASE i # 1
            <4>1. i + n - 1 \in n + 1 .. n + l - 1 /\ (i + n - 1) - n + 1 = i
                BY <1>1, <1>2, <3>3
            <4>2. i + n - 1 \in 1 .. n + l - 1 BY <1>1, <1>2, <3>3
            <4>3. s[i + n - 1] = w[i] BY <1>5, <4>1
            <4> QED BY <2>1, <3>1, <4>2, <4>3
        <3> QED BY <3>2, <3>3
    <2> QED BY <2>2, <2>3
<1>7. ChildrenFirst(s)
    <2> SUFFICES ASSUME NEW i \in 1 .. n + l - 1, s[i].op = "drop", NEW k \in Children(s[i].id)
                 PROVE  \E j \in 1 .. i - 1 : s[j].id = k
        BY <1>5 DEF ChildrenFirst
    <2>1. CASE i \in 1 .. n
        <3>1. o[i].op = "drop" /\ k \in Children(o[i].id) BY <1>5, <2>1
        <3>2. PICK j \in 1 .. i - 1 : o[j].id = k
            BY <1>3, <2>1, <3>1 DEF ChildrenFirst, n
        <3>3. j \in 1 .. n BY <1>2, <2>1
        <3> QED BY <1>5, <3>2, <3>3
    <2>2. CASE i \in n + 1 .. n + l - 1
        <3> DEFINE g == i - n + 1
        <3>1. g \in 1 .. l /\ s[i] = w[g]
            <4>1. g \in 1 .. l BY <1>1, <1>2, <2>2
            <4>2. s[i] = w[g] BY <1>5, <2>2
            <4> QED BY <4>1, <4>2
        <3>2. PICK j \in 1 .. g - 1 : w[j].id = k BY <3>1 DEF ChildrenFirst, l
        <3>3. CASE j = 1
            <4>1. o[n].id = k
                <5>1. w[1].id = k BY <3>2, <3>3
                <5>2. k = m BY <1>1, <5>1, Zenon
                <5> QED BY <1>4, <5>2, Zenon
            <4>2. n \in 1 .. n /\ n \in 1 .. i - 1 BY <1>2, <2>2
            <4> QED BY <1>5, <4>1, <4>2
        <3>4. CASE j # 1
            <4>0. l \in Nat /\ n \in Nat /\ i \in Nat /\ j \in 2 .. i - n /\ i =< n + l - 1
                BY <1>1, <1>2, <2>2, <3>2, <3>4
            <4>1. j + n - 1 \in n + 1 .. n + l - 1 /\ (j + n - 1) - n + 1 = j
                  /\ j + n - 1 \in 1 .. i - 1
                <5> HIDE DEF n, l
                <5>1. PICK a \in Nat : a = n
                    BY <4>0
                <5>2. PICK b \in Nat : b = l
                    BY <4>0
                <5>3. PICK c \in Nat : c = i
                    BY <4>0
                <5>4. PICK d \in Nat : d = j
                    BY <4>0
                <5>5. d >= 2 /\ d <= c - a /\ c <= a + b - 1
                    BY <4>0, <5>1, <5>2, <5>3, <5>4
                <5>6. d + a - 1 \in a + 1 .. a + b - 1 /\ (d + a - 1) - a + 1 = d
                      /\ d + a - 1 \in 1 .. c - 1
                    BY <5>5
                <5> QED BY <5>1, <5>2, <5>3, <5>4, <5>6
            <4>2. s[j + n - 1] = w[j] BY <1>5, <4>1
            <4> QED BY <3>2, <4>1, <4>2
        <3> QED BY <3>3, <3>4
    <2> QED BY <1>1, <1>2, <2>1, <2>2
<1> QED BY <1>6, <1>7 DEF m, o, t, s

(* The row on top of the stack is dropped: it has no children any more.    *)
LEMMA DropKeepsStack ==
    ASSUME RowsAndEditsOK, ParentsExist, NEW w \in Seq(Row), w # <<>>, NEW m, m = Head(w).id,
           Head(w).op = "drop", ChildrenFirst(w),
           exists' = exists \ {m}, parent' = [Unlinked(m) EXCEPT ![m] = Top]
    PROVE  /\ m \in Monitors /\ Doomed(Head(w)) = exists \cap {m} /\ m \notin AllDoomed(Tail(w))'
           /\ \A k \in exists' : parent'[k] = parent[k] /\ parent[k] # m
           /\ AllDoomed(Tail(w))' = AllDoomed(w) \ {m}
           /\ ChildrenFirst(Tail(w))'
<1> DEFINE t == Tail(w)
           l == Len(w)
<1>1. /\ w[1].id = m /\ m \in Monitors /\ t \in Seq(Row) /\ l \in Nat \ {0}
      /\ Len(t) = l - 1 /\ \A i \in 1 .. l - 1 : t[i] = w[i + 1]
      /\ Head(w) = w[1] /\ w[1].op = "drop"
      /\ \A i \in 1 .. l : w[i] \in Row
    <2>1. w[1].id = m /\ t \in Seq(Row) /\ l \in Nat \ {0} /\ Len(t) = l - 1
          /\ Head(w) = w[1] /\ w[1].op = "drop"
        BY HeadOfStack
    <2>2. \A i \in 1 .. l - 1 : t[i] = w[i + 1] BY HeadOfStack
    <2>3. \A i \in 1 .. l : w[i] \in Row OBVIOUS
    <2>4. m \in Monitors BY <2>1, <2>3 DEF Row
    <2> QED BY <2>1, <2>2, <2>3, <2>4
<1>2. Children(m) = {}
    <2>1. 1 \in 1 .. l BY <1>1
    <2>2. \A k \in Children(m) : \E j \in 1 .. 1 - 1 : w[j].id = k
        BY <1>1, <2>1 DEF ChildrenFirst
    <2> QED BY <2>2
<1>3. \A k \in exists' : parent'[k] = parent[k] /\ parent[k] # m
    <2>1. \A k \in exists' : parent[k] # m /\ k \in Monitors /\ k # m
        BY <1>2, RowsAreMonitors DEF Children
    <2> QED BY <2>1 DEF Unlinked
<1>4. \A x \in Monitors : Below(x)' = Below(x) \ {m} BY <1>1, <1>2, <1>3, DropBelow
<1>5. \A e \in Row : Doomed(e)' = Doomed(e) \ {m} BY <1>4 DEF Doomed, Row
<1>6. Doomed(w[1]) = exists \cap {m} BY <1>1 DEF Doomed
<1> HIDE DEF t, l
<1>7. /\ \A x : x \in AllDoomed(t)' <=> \E i \in 1 .. l - 1 : x \in Doomed(t[i])'
      /\ \A x : x \in AllDoomed(w) <=> \E i \in 1 .. l : x \in Doomed(w[i])
    BY <1>1 DEF AllDoomed, l
<1>8. \A i \in 1 .. l - 1 : i + 1 \in 1 .. l /\ Doomed(t[i])' = Doomed(w[i + 1]) \ {m}
    <2> TAKE i \in 1 .. l - 1
    <2>1. i + 1 \in 1 .. l BY <1>1
    <2>2. t[i] = w[i + 1] /\ w[i + 1] \in Row BY <1>1, <2>1
    <2>3. Doomed(w[i + 1])' = Doomed(w[i + 1]) \ {m} BY <1>5, <2>2
    <2> QED BY <2>1, <2>2, <2>3
<1>9. AllDoomed(t)' = AllDoomed(w) \ {m}
    <2>1. ASSUME NEW x \in AllDoomed(t)' PROVE x \in AllDoomed(w) \ {m}
        <3>1. PICK i \in 1 .. l - 1 : x \in Doomed(t[i])' BY <1>7
        <3> QED BY <1>7, <1>8, <3>1
    <2>2. ASSUME NEW x \in AllDoomed(w), x # m PROVE x \in AllDoomed(t)'
        <3>1. PICK i \in 1 .. l : x \in Doomed(w[i]) BY <1>7
        <3>2. i # 1 BY <1>6, <2>2, <3>1
        <3>3. i - 1 \in 1 .. l - 1 /\ (i - 1) + 1 = i BY <1>1, <3>2
        <3> QED BY <1>7, <1>8, <2>2, <3>1, <3>3
    <2>3. m \notin AllDoomed(t)' BY <1>7, <1>8
    <2> QED BY <2>1, <2>2, <2>3
<1>10. ChildrenFirst(t)'
    <2> SUFFICES ASSUME NEW i \in 1 .. l - 1, t[i].op = "drop", NEW k \in exists',
                        parent'[k] = t[i].id
                 PROVE  \E j \in 1 .. i - 1 : t[j].id = k
        BY <1>1 DEF ChildrenFirst, Children
    <2>1. i + 1 \in 1 .. l /\ t[i] = w[i + 1] BY <1>1
    <2>2. k \in Children(w[i + 1].id) BY <1>3, <2>1 DEF Children
    <2>3. PICK j \in 1 .. (i + 1) - 1 : w[j].id = k BY <2>1, <2>2 DEF ChildrenFirst, l
    <2>4. j # 1 BY <1>1, <2>3
    <2>5. j - 1 \in 1 .. i - 1 /\ j - 1 \in 1 .. l - 1 /\ (j - 1) + 1 = j BY <1>1, <2>3, <2>4
    <2> QED BY <1>1, <2>3, <2>5
<1>11. m \notin AllDoomed(t)' BY <1>9
<1> QED BY <1>1, <1>3, <1>6, <1>9, <1>10, <1>11 DEF t

-----------------------------------------------------------------------------
LEMMA SameRowsSameDoom ==
    ASSUME UNCHANGED rowsOfTree
    PROVE  /\ \A w : AllDoomed(w)' = AllDoomed(w)
           /\ \A w : ChildrenFirst(w)' = ChildrenFirst(w)
           /\ ParentsGrouped' = ParentsGrouped
<1>1. exists' = exists /\ parent' = parent /\ groups' = groups BY DEF rowsOfTree
<1>2. \A x : Below(x)' = Below(x) BY <1>1 DEF Below
<1>3. \A e : Doomed(e)' = Doomed(e) BY <1>1, <1>2 DEF Doomed
<1>4. \A w : AllDoomed(w)' = AllDoomed(w) BY <1>3 DEF AllDoomed
<1>5. \A x : Children(x)' = Children(x) BY <1>1 DEF Children
<1>6. \A w : ChildrenFirst(w)' = ChildrenFirst(w) BY <1>5 DEF ChildrenFirst
<1>7. ParentsGrouped' = ParentsGrouped BY <1>1 DEF ParentsGrouped
<1> QED BY <1>4, <1>6, <1>7

(* Whatever the others do, a deletion goes on knowing, or is not alone.    *)
LEMMA OthersKnow ==
    ASSUME NEW d, StackOK(d), DeletionKnows(d),
           stage'[d] = stage[d], call'[d] = call[d], work'[d] = work[d],
           alone'[d] => alone[d] /\ spared'[d] = spared[d] /\ UNCHANGED rowsOfTree
    PROVE  StackOK(d)' /\ DeletionKnows(d)'
<1>1. StackOK(d)' BY DEF StackOK
<1>2. DeletionKnows(d)'
    <2> SUFFICES ASSUME alone'[d], NEW w, w = work[d], w = work'[d] PROVE DeletionKnows(d)'
        BY DEF DeletionKnows
    <2>1. exists' = exists /\ alone[d] /\ spared'[d] = spared[d] BY DEF rowsOfTree
    <2>2. /\ AllDoomed(w)' = AllDoomed(w) /\ ChildrenFirst(w)' = ChildrenFirst(w)
          /\ ParentsGrouped' = ParentsGrouped
        BY SameRowsSameDoom
    <2> QED BY <2>1, <2>2 DEF DeletionKnows
<1> QED BY <1>1, <1>2

LEMMA StepKeepsKnowledge ==
    ASSUME DeletionInv, NEW c \in Clients, GroupInv',
           work' \in [Clients -> Seq(Row)],
           alone' \in [Clients -> BOOLEAN], spared' \in [Clients -> SUBSET Monitors],
           \A d \in Clients \ {c} :
               /\ stage'[d] = stage[d] /\ call'[d] = call[d] /\ work'[d] = work[d]
               /\ alone'[d] => alone[d] /\ spared'[d] = spared[d] /\ UNCHANGED rowsOfTree,
           StackOK(c)' /\ DeletionKnows(c)'
    PROVE  DeletionInv'
<1>1. TreeTypeOK' BY DEF GroupInv, TreeInv, TreeTypeOK, Row
<1>2. \A d \in Clients : StackOK(d)' /\ DeletionKnows(d)'
    <2> TAKE d \in Clients
    <2>1. CASE d = c BY <2>1
    <2>2. CASE d # c BY <2>2, OthersKnow DEF DeletionInv
    <2> QED BY <2>1, <2>2
<1> QED BY <1>1, <1>2 DEF DeletionInv

LEMMA OverlapIsTyped ==
    ASSUME TreeTypeOK, NEW own, Overlap(own)
    PROVE  /\ alone' \in [Clients -> BOOLEAN] /\ spared' \in [Clients -> SUBSET Monitors]
           /\ \A d \in Clients : alone'[d] = (d \in own /\ alone[d])
           /\ \A d \in Clients : d \in own => spared'[d] = spared[d]
<1>1. alone' = [d \in Clients |-> d \in own /\ alone[d]]
      /\ spared' = [d \in Clients |-> IF d \in own THEN spared[d] ELSE {}]
    BY DEF Overlap
<1>2. alone \in [Clients -> BOOLEAN] /\ spared \in [Clients -> SUBSET Monitors]
    BY DEF TreeTypeOK
<1> QED BY <1>1, <1>2

LEMMA SingleDrop ==
    ASSUME NEW m \in Monitors
    PROVE  /\ <<DropRow(m)>> \in Seq(Row) /\ <<DropRow(m)>> # <<>>
           /\ Doomed(DropRow(m)) = exists \cap {m} /\ DropRow(m).id = m
           /\ AllDoomed(<<DropRow(m)>>) = exists \cap {m}
           /\ AllDoomed(<<DropRow(m)>>)' = exists' \cap {m}
           /\ Children(m) = {} => ChildrenFirst(<<DropRow(m)>>)
           /\ Children(m)' = {} => ChildrenFirst(<<DropRow(m)>>)'
<1>1. DropRow(m) \in Row /\ DropRow(m).id = m /\ DropRow(m).op = "drop" BY DEF DropRow, Row
<1> DEFINE e == DropRow(m)
           w == <<e>>
<1>2. Doomed(e) = exists \cap {m} /\ Doomed(e)' = exists' \cap {m} BY <1>1 DEF Doomed
<1> HIDE DEF e
<1>3. w \in Seq(Row) /\ w # <<>> /\ Len(w) = 1 /\ w[1] = e BY <1>1 DEF e
<1> HIDE DEF w
<1>4. \A i \in 1 .. Len(w) : i = 1 BY <1>3
<1>5. 1 \in 1 .. Len(w) BY <1>3
<1>6. AllDoomed(w) = exists \cap {m} /\ AllDoomed(w)' = exists' \cap {m}
    <2>1. {Doomed(w[i]) : i \in 1 .. Len(w)} = {exists \cap {m}}
        BY <1>2, <1>3, <1>4, <1>5
    <2>2. {Doomed(w[i])' : i \in 1 .. Len(w)} = {exists' \cap {m}}
        BY <1>2, <1>3, <1>4, <1>5
    <2> QED BY <2>1, <2>2 DEF AllDoomed
<1>7. Children(m) = {} => ChildrenFirst(w)
    BY <1>1, <1>3, <1>4 DEF ChildrenFirst, e
<1>8. Children(m)' = {} => ChildrenFirst(w)'
    BY <1>1, <1>3, <1>4 DEF ChildrenFirst, e
<1> QED BY <1>1, <1>2, <1>3, <1>6, <1>7, <1>8 DEF w, e

LEMMA DeletionInvInit == TreeInit => DeletionInv
<1> SUFFICES ASSUME TreeInit PROVE DeletionInv OBVIOUS
<1>1. GroupInv BY GroupInvInit
<1>2. TreeTypeOK
    <2>1. <<>> \in Seq(Row) OBVIOUS
    <2>2. work \in [Clients -> Seq(Row)] BY <2>1 DEF TreeInit
    <2>3. spared \in [Clients -> SUBSET Monitors] /\ alone \in [Clients -> BOOLEAN]
          /\ torn \in BOOLEAN
        BY DEF TreeInit
    <2> QED BY <1>1, <2>2, <2>3 DEF GroupInv, TreeInv, TreeTypeOK, Row
<1>3. \A c \in Clients : StackOK(c) /\ DeletionKnows(c)
    BY DEF TreeInit, StackOK, DeletionKnows
<1> QED BY <1>1, <1>2, <1>3 DEF DeletionInv

(* Calls other than deletions.                                             *)
LEMMA EditsKeepKnowledge ==
    ASSUME DeletionInv, NEW c \in Clients, GroupInv',
           \/ \E m \in Monitors, p \in Monitors \cup {Top}, g \in BOOLEAN :
                 AddMonitor(c, m, p, g) \/ EditMonitor(c, m, p, g)
           \/ \E m \in Monitors : ReadChildren(c, m)
           \/ WalkEnds(c) \/ EditTreeStored(c) \/ EditThrows(c) \/ UnlinkAllChildren(c)
    PROVE  DeletionInv'
<1>0. /\ TreeTypeOK /\ stage \in [Clients -> {"idle", "edit.walk", "edit.store", "edit.unlink",
                                              "delete.kids", "delete.work"}]
      /\ call \in [Clients -> Call] /\ work \in [Clients -> Seq(Row)]
    BY DEF DeletionInv, TreeTypeOK, RowsAndEditsOK, Row
<1>1. /\ stage'[c] \notin {"delete.kids", "delete.work"}
      /\ \A d \in Clients \ {c} : stage'[d] = stage[d] /\ call'[d] = call[d]
    BY <1>0 DEF AddMonitor, EditMonitor, ReadChildren, WalkEnds, EditTreeStored, EditThrows,
       UnlinkAllChildren, EndCall, GoOn, walks, Editing
<1>2. work' = work \/ work' = [work EXCEPT ![c] = <<>>]
    BY DEF AddMonitor, EditMonitor, ReadChildren, WalkEnds, EditTreeStored, EditThrows,
       UnlinkAllChildren, EndCall, walks
<1>3. /\ work' \in [Clients -> Seq(Row)]
      /\ \A d \in Clients \ {c} : work'[d] = work[d]
    <2>1. <<>> \in Seq(Row) OBVIOUS
    <2> QED BY <1>0, <1>2, <2>1
<1>4. Overlap({c}) \/ UNCHANGED <<rowsOfTree, alone, spared>>
    BY DEF AddMonitor, EditMonitor, ReadChildren, WalkEnds, EditTreeStored, EditThrows,
       UnlinkAllChildren
<1>5. /\ alone' \in [Clients -> BOOLEAN] /\ spared' \in [Clients -> SUBSET Monitors]
      /\ \A d \in Clients \ {c} :
            alone'[d] => alone[d] /\ spared'[d] = spared[d] /\ UNCHANGED rowsOfTree
    <2>1. CASE Overlap({c}) BY <1>0, <2>1, OverlapIsTyped
    <2>2. CASE UNCHANGED <<rowsOfTree, alone, spared>> BY <1>0, <2>2 DEF TreeTypeOK
    <2> QED BY <1>4, <2>1, <2>2
<1>6. StackOK(c)' /\ DeletionKnows(c)' BY <1>1 DEF StackOK, DeletionKnows
<1> QED BY <1>1, <1>3, <1>5, <1>6, StepKeepsKnowledge

(* The deletion begins alone: the parents are groups.                      *)
LEMMA DeleteBeginsKnowing ==
    ASSUME DeletionInv, NEW c \in Clients, GroupInv', NEW m \in Monitors, NEW deep \in BOOLEAN,
           DeleteTree(c, m, deep)
    PROVE  DeletionInv'
<1>0. /\ TreeTypeOK /\ RowsAndEditsOK /\ ParentsExist /\ work \in [Clients -> Seq(Row)]
      /\ alone \in [Clients -> BOOLEAN] /\ spared \in [Clients -> SUBSET Monitors]
      /\ call \in [Clients -> Call]
    BY DEF DeletionInv, TreeTypeOK, GroupInv, TreeInv, RowsAndEditsOK, Row
<1>1. UNCHANGED rowsOfTree /\ exists' = exists BY DEF DeleteTree, rowsOfTree
<1> DEFINE w == IF deep THEN Opened(m) ELSE <<DropRow(m)>>
           a == ~crossed /\ ~torn /\ \A d \in Clients : stage[d] = "idle"
           s == IF a THEN exists \ ({m} \cup IF deep THEN Below(m) ELSE {}) ELSE {}
<1>2. /\ stage' = [stage EXCEPT ![c] =
                       IF m \in groups /\ ~deep THEN "delete.kids" ELSE "delete.work"]
      /\ call' = [call EXCEPT ![c].id = m] /\ work' = [work EXCEPT ![c] = w]
      /\ alone' = [alone EXCEPT ![c] = a] /\ m \in exists
      /\ spared' = [spared EXCEPT ![c] =
                         IF alone'[c] THEN exists \ ({m} \cup IF deep THEN Below(m) ELSE {})
                         ELSE {}]
    BY DEF DeleteTree, GoOn
<1>3. a \in BOOLEAN OBVIOUS
<1>4. w \in Seq(Row) /\ w # <<>>
    <2>1. Opened(m) \in Seq(Row) /\ Len(Opened(m)) \in Nat \ {0} BY <1>0, OpenedIsStack
    <2>2. Opened(m) # <<>> BY <2>1
    <2> QED BY <2>1, <2>2, SingleDrop
<1>5. s \in SUBSET Monitors BY <1>0, RowsAreMonitors
<1>6. a => ParentsGrouped
    BY <1>0 DEF DeletionInv, GroupInv, ParentsAreGroups, ParentsGrouped
<1>7. a /\ deep => /\ exists \ s = AllDoomed(w) /\ s \subseteq exists /\ ChildrenFirst(w)
    <2> HAVE a /\ deep
    <2>1. AllDoomed(Opened(m)) = (exists \cap {m}) \cup Below(m) /\ ChildrenFirst(Opened(m))
        BY <1>0, <1>6, OpenedIsExact
    <2>2. Below(m) \subseteq exists BY DEF Below
    <2> QED BY <1>2, <2>1, <2>2
<1>8. a /\ ~deep => s = exists \ {m}
    OBVIOUS
<1>9. a /\ ~deep /\ m \notin groups =>
        /\ exists \ s = AllDoomed(w) /\ s \subseteq exists /\ ChildrenFirst(w)
    <2> HAVE a /\ ~deep /\ m \notin groups
    <2>1. Children(m) = {}
        <3>1. m # Top BY DEF Monitors, Top
        <3> QED BY <1>6, <3>1 DEF ParentsGrouped, Children
    <2>2. AllDoomed(<<DropRow(m)>>) = exists \cap {m} /\ ChildrenFirst(<<DropRow(m)>>)
        BY <2>1, SingleDrop
    <2> QED BY <1>8, <2>2
<1>10. /\ alone'[c] = a /\ spared'[c] = s /\ work'[c] = w /\ call'[c].id = m
       /\ stage'[c] = IF m \in groups /\ ~deep THEN "delete.kids" ELSE "delete.work"
    <2> HIDE DEF w, a
    <2>1. alone'[c] = a /\ work'[c] = w BY <1>0, <1>2, <1>3
    <2>2. call'[c].id = m BY <1>0, <1>2 DEF Call
    <2>3. stage'[c] = IF m \in groups /\ ~deep THEN "delete.kids" ELSE "delete.work"
        BY <1>0, <1>2 DEF RowsAndEditsOK
    <2>4. spared'[c] = s BY <1>0, <1>2, <2>1
    <2> QED BY <2>1, <2>2, <2>3, <2>4
<1>11. /\ work' \in [Clients -> Seq(Row)]
       /\ alone' \in [Clients -> BOOLEAN] /\ spared' \in [Clients -> SUBSET Monitors]
       /\ \A d \in Clients \ {c} :
             /\ stage'[d] = stage[d] /\ call'[d] = call[d] /\ work'[d] = work[d]
             /\ alone'[d] => alone[d] /\ spared'[d] = spared[d] /\ UNCHANGED rowsOfTree
    <2> HIDE DEF w, a
    <2>1. spared' = [spared EXCEPT ![c] = s] BY <1>2, <1>10
    <2> HIDE DEF s
    <2>2. work' \in [Clients -> Seq(Row)] BY <1>0, <1>2, <1>4
    <2>3. alone' \in [Clients -> BOOLEAN] BY <1>0, <1>2, <1>3
    <2>4. spared' \in [Clients -> SUBSET Monitors] BY <1>0, <1>5, <2>1
    <2>5. \A d \in Clients \ {c} :
              /\ stage'[d] = stage[d] /\ call'[d] = call[d] /\ work'[d] = work[d]
              /\ alone'[d] = alone[d] /\ spared'[d] = spared[d]
        BY <1>0, <1>2, <2>1 DEF RowsAndEditsOK
    <2> QED BY <1>1, <2>2, <2>3, <2>4, <2>5
<1>12. StackOK(c)' BY <1>4, <1>10 DEF StackOK
<1>13. DeletionKnows(c)'
    <2> SUFFICES ASSUME a, NEW v, v = w PROVE DeletionKnows(c)'
        <3> HIDE DEF a, w
        <3> QED BY <1>10 DEF DeletionKnows
    <2>1. /\ AllDoomed(v)' = AllDoomed(v) /\ ChildrenFirst(v)' = ChildrenFirst(v)
          /\ ParentsGrouped' = ParentsGrouped
        BY <1>1, SameRowsSameDoom
    <2>2. stage'[c] = "delete.kids" => ~deep BY <1>10
    <2>3. stage'[c] = "delete.work" => deep \/ m \notin groups BY <1>10
    <2>4. ~deep => w = <<DropRow(m)>> OBVIOUS
    <2>5. stage'[c] = "delete.kids" =>
              work'[c] = <<DropRow(call'[c].id)>> /\ spared'[c] = exists' \ {call'[c].id}
        <3> HIDE DEF a, w, s
        <3> QED BY <1>1, <1>8, <1>10, <2>2, <2>4
    <2>6. stage'[c] = "delete.work" =>
              /\ exists \ s = AllDoomed(w) /\ s \subseteq exists /\ ChildrenFirst(w)
        <3> HIDE DEF a, w, s
        <3> QED BY <1>7, <1>9, <2>3
    <2>7. stage'[c] = "delete.work" =>
              /\ exists' \ spared'[c] = AllDoomed(work[c])' /\ spared'[c] \subseteq exists'
              /\ ChildrenFirst(work[c])'
        <3> HIDE DEF a, w, s
        <3>1. v = work'[c] /\ AllDoomed(v) = AllDoomed(w) BY <1>10
        <3>2. ChildrenFirst(v) <=> ChildrenFirst(w) OBVIOUS
        <3> QED BY <1>1, <1>10, <2>1, <2>6, <3>1, <3>2
    <2> HIDE DEF a, w, s
    <2> QED BY <1>6, <2>1, <2>5, <2>7 DEF DeletionKnows
<1> HIDE DEF a, w, s
<1> QED BY <1>11, <1>12, <1>13, StepKeepsKnowledge

(* The children of the group are let go of first.                          *)
LEMMA KidsUnlinkedKeepsKnowledge ==
    ASSUME DeletionInv, NEW c \in Clients, GroupInv', KidsUnlinked(c)
    PROVE  DeletionInv'
<1>0. /\ TreeTypeOK /\ RowsAndEditsOK /\ ParentsExist /\ StackOK(c) /\ DeletionKnows(c)
      /\ work \in [Clients -> Seq(Row)]
    BY DEF DeletionInv, GroupInv, TreeInv, TreeTypeOK, Row
<1>1. /\ stage[c] = "delete.kids" /\ stage' = [stage EXCEPT ![c] = "delete.work"]
      /\ parent' = Unlinked(call[c].id) /\ Overlap({c})
      /\ UNCHANGED <<exists, groups, call, work>>
    BY DEF KidsUnlinked, GoOn
<1>2. /\ alone' \in [Clients -> BOOLEAN] /\ spared' \in [Clients -> SUBSET Monitors]
      /\ \A d \in Clients : alone'[d] = (d = c /\ alone[d])
      /\ spared'[c] = spared[c]
    BY <1>0, <1>1, OverlapIsTyped
<1>3. stage'[c] = "delete.work" /\ \A d \in Clients \ {c} : stage'[d] = stage[d]
    BY <1>0, <1>1 DEF RowsAndEditsOK
<1>4. StackOK(c)' BY <1>0, <1>1 DEF StackOK
<1>5. DeletionKnows(c)'
    <2> SUFFICES ASSUME alone'[c], NEW m, m = call[c].id PROVE DeletionKnows(c)'
        BY DEF DeletionKnows
    <2>1. /\ alone[c] /\ ParentsGrouped /\ work[c] = <<DropRow(m)>>
          /\ spared[c] = exists \ {m}
        BY <1>0, <1>1, <1>2 DEF DeletionKnows
    <2>2. m \in Monitors
        <3>1. PICK e : e = DropRow(m) OBVIOUS
        <3>2. <<e>> \in Seq(Row) BY <1>0, <2>1, <3>1
        <3>3. DropRow(m) \in Row BY <3>1, <3>2
        <3>4. DropRow(m).id \in Monitors BY <3>3 DEF Row
        <3> QED BY <3>4 DEF DropRow
    <2>3. Top # m BY <2>2 DEF Monitors, Top
    <2>4. \A k \in exists : parent'[k] # m /\ parent'[k] \in {parent[k], Top}
        BY <1>0, <1>1, <2>3, UnlinkedShrinks
    <2>5. Children(m)' = {} BY <1>1, <2>4 DEF Children
    <2>6. ParentsGrouped' BY <1>1, <2>1, <2>4 DEF ParentsGrouped
    <2>7. /\ AllDoomed(<<DropRow(m)>>)' = exists' \cap {m}
          /\ ChildrenFirst(<<DropRow(m)>>)'
        BY <2>2, <2>5, SingleDrop
    <2>8. work'[c] = <<DropRow(m)>> BY <1>1, <2>1
    <2>9. AllDoomed(work[c])' = exists' \cap {m} /\ ChildrenFirst(work[c])' BY <2>7, <2>8
    <2>10. exists' \ spared'[c] = exists' \cap {m} /\ spared'[c] \subseteq exists'
        BY <1>1, <1>2, <2>1
    <2> QED BY <1>3, <2>6, <2>9, <2>10 DEF DeletionKnows
<1>6. work' \in [Clients -> Seq(Row)] BY <1>0, <1>1
<1> QED BY <1>1, <1>2, <1>3, <1>4, <1>5, <1>6, StepKeepsKnowledge

LEMMA VisitKeepsKnowledge ==
    ASSUME DeletionInv, NEW c \in Clients, GroupInv', VisitRow(c)
    PROVE  DeletionInv'
<1>0. /\ TreeTypeOK /\ RowsAndEditsOK /\ ParentsExist /\ StackOK(c) /\ DeletionKnows(c)
      /\ work \in [Clients -> Seq(Row)]
    BY DEF DeletionInv, TreeTypeOK, GroupInv, TreeInv, Row
<1>1. /\ stage[c] = "delete.work" /\ Head(work[c]).op = "visit"
      /\ work' = [work EXCEPT ![c] = Opened(Head(work[c]).id) \o Tail(work[c])]
      /\ UNCHANGED <<rowsOfTree, stage, call, alone, spared>>
    BY DEF VisitRow
<1>2. PICK w \in Seq(Row) : w = work[c] BY <1>0
<1>3. w # <<>> BY <1>0, <1>1, <1>2 DEF StackOK
<1>4. PICK v : v = Opened(Head(w).id) \o Tail(w) OBVIOUS
<1>5. v \in Seq(Row) /\ v # <<>>
    <2>1. Head(w).id \in Monitors /\ Tail(w) \in Seq(Row) BY <1>3, HeadOfStack DEF Row
    <2>2. Opened(Head(w).id) \in Seq(Row) /\ Len(Opened(Head(w).id)) \in Nat \ {0}
        BY <1>0, <2>1, OpenedIsStack
    <2> DEFINE o == Opened(Head(w).id)
               t == Tail(w)
    <2> HIDE DEF o, t
    <2>3. o \in Seq(Row) /\ t \in Seq(Row) /\ Len(o) \in Nat \ {0} BY <2>1, <2>2 DEF o, t
    <2>4. o \o t \in Seq(Row) /\ Len(o \o t) = Len(o) + Len(t) BY <2>3
    <2>5. o \o t # <<>> BY <2>3, <2>4
    <2> QED BY <1>4, <2>4, <2>5 DEF o, t
<1>6. work' = [work EXCEPT ![c] = v] BY <1>1, <1>2, <1>4
<1>7. /\ work' \in [Clients -> Seq(Row)] /\ work'[c] = v
      /\ \A d \in Clients \ {c} : work'[d] = work[d]
    BY <1>0, <1>5, <1>6
<1>8. StackOK(c)' BY <1>5, <1>7 DEF StackOK
<1>9. DeletionKnows(c)'
    <2> SUFFICES ASSUME alone[c] PROVE DeletionKnows(c)'
        BY <1>1 DEF DeletionKnows
    <2>1. /\ ParentsGrouped /\ exists \ spared[c] = AllDoomed(w) /\ spared[c] \subseteq exists
          /\ ChildrenFirst(w)
        BY <1>0, <1>1, <1>2 DEF DeletionKnows
    <2>2. Head(w).op = "visit" BY <1>1, <1>2
    <2>3. AllDoomed(v) = AllDoomed(w) /\ ChildrenFirst(v)
        BY <1>0, <1>3, <1>4, <2>1, <2>2, VisitKeepsStack
    <2>4. /\ AllDoomed(v)' = AllDoomed(v) /\ ChildrenFirst(v)' = ChildrenFirst(v)
          /\ ParentsGrouped' = ParentsGrouped
        BY <1>1, SameRowsSameDoom
    <2>5. exists' = exists /\ spared' = spared /\ stage'[c] = "delete.work"
        BY <1>1 DEF rowsOfTree
    <2>6. AllDoomed(work[c])' = AllDoomed(w) /\ ChildrenFirst(work[c])'
        BY <1>7, <2>3, <2>4
    <2> QED BY <2>1, <2>4, <2>5, <2>6 DEF DeletionKnows
<1>10. alone' \in [Clients -> BOOLEAN] /\ spared' \in [Clients -> SUBSET Monitors]
    BY <1>0, <1>1 DEF TreeTypeOK
<1> QED BY <1>1, <1>7, <1>8, <1>9, <1>10, StepKeepsKnowledge

(* A deletion that is alone knows, of the row it drops, that it is to go,  *)
(* that no row has it for parent, and, when it is the last, that it is all.*)
LEMMA DropIsKnown ==
    ASSUME DeletionInv, NEW c \in Clients, DropVisited(c), alone[c],
           NEW w \in Seq(Row), w = work[c], NEW m, m = Head(w).id
    PROVE  /\ \A k \in exists' : parent'[k] = parent[k] /\ parent[k] # m
           /\ spared[c] \subseteq exists' /\ ParentsGrouped /\ m \in Monitors
           /\ exists' = exists \ {m}
           /\ exists' \ spared[c] = AllDoomed(Tail(w))' /\ ChildrenFirst(Tail(w))'
           /\ Len(w) = 1 => exists' = spared[c]
<1>1. /\ RowsAndEditsOK /\ ParentsExist /\ StackOK(c) /\ DeletionKnows(c)
    BY DEF DeletionInv, TreeTypeOK, GroupInv, TreeInv, Row
<1>2. /\ stage[c] = "delete.work" /\ Head(w).op = "drop" /\ exists' = exists \ {m}
      /\ parent' = [Unlinked(m) EXCEPT ![m] = Top]
    BY DEF DropVisited
<1>3. /\ ParentsGrouped /\ exists \ spared[c] = AllDoomed(w) /\ spared[c] \subseteq exists
      /\ ChildrenFirst(w) /\ w # <<>>
    BY <1>1, <1>2 DEF DeletionKnows, StackOK
<1>4. /\ m \in Monitors /\ Doomed(Head(w)) = exists \cap {m}
      /\ \A k \in exists' : parent'[k] = parent[k] /\ parent[k] # m
      /\ AllDoomed(Tail(w))' = AllDoomed(w) \ {m} /\ ChildrenFirst(Tail(w))'
    BY <1>1, <1>2, <1>3, DropKeepsStack
<1>5. exists \cap {m} \subseteq AllDoomed(w)
    <2>1. Head(w) = w[1] /\ 1 \in 1 .. Len(w) BY <1>3, HeadOfStack
    <2> QED BY <1>4, <2>1 DEF AllDoomed
<1>6. exists' \ spared[c] = AllDoomed(Tail(w))' BY <1>2, <1>3, <1>4
<1>7. spared[c] \subseteq exists' BY <1>2, <1>3, <1>5
<1>8. Len(w) = 1 => exists' = spared[c]
    <2> SUFFICES ASSUME Len(w) = 1 PROVE exists' = spared[c] OBVIOUS
    <2>2. AllDoomed(w) = exists \cap {m}
        <3>0. Head(w) = w[1] BY <1>3, HeadOfStack
        <3>1. 1 .. Len(w) = {1} /\ Head(w) = w[1] BY <3>0
        <3>2. Doomed(w[1]) = exists \cap {m} BY <1>4, <3>0
        <3>3. {Doomed(w[i]) : i \in {1}} = {exists \cap {m}} BY <3>2
        <3> QED BY <3>1, <3>3 DEF AllDoomed
    <2> QED BY <1>2, <1>3, <2>2
<1> QED BY <1>2, <1>3, <1>4, <1>6, <1>7, <1>8

LEMMA DropKeepsKnowledge ==
    ASSUME DeletionInv, NEW c \in Clients, GroupInv', DropVisited(c)
    PROVE  DeletionInv'
<1>0. /\ TreeTypeOK /\ RowsAndEditsOK /\ StackOK(c) /\ work \in [Clients -> Seq(Row)]
      /\ call \in [Clients -> Call]
    BY DEF DeletionInv, TreeTypeOK, RowsAndEditsOK, Row
<1>1. PICK w \in Seq(Row) : w = work[c] BY <1>0
<1>2. PICK m : m = Head(w).id OBVIOUS
<1>3. stage[c] = "delete.work" /\ groups' = groups \ {m} BY <1>1, <1>2 DEF DropVisited
<1>4. w # <<>> BY <1>0, <1>1, <1>3 DEF StackOK
<1>5. CASE Len(w) = 1
    <2>1. EndCall(c) /\ Overlap({}) BY <1>1, <1>5 DEF DropVisited
    <2>2. /\ alone' \in [Clients -> BOOLEAN] /\ spared' \in [Clients -> SUBSET Monitors]
          /\ \A d \in Clients : ~alone'[d]
        <3>1. /\ alone' \in [Clients -> BOOLEAN] /\ spared' \in [Clients -> SUBSET Monitors]
              /\ \A d \in Clients : alone'[d] = (d \in {} /\ alone[d])
            BY <1>0, <2>1, OverlapIsTyped
        <3> QED BY <3>1
    <2>3. <<>> \in Seq(Row) OBVIOUS
    <2>4. /\ stage' = [stage EXCEPT ![c] = "idle"] /\ call' = [call EXCEPT ![c] = NoCall]
          /\ work' = [work EXCEPT ![c] = <<>>]
        BY <2>1 DEF EndCall, GoOn
    <2>5. /\ work' \in [Clients -> Seq(Row)] /\ stage'[c] = "idle"
          /\ \A d \in Clients \ {c} :
                stage'[d] = stage[d] /\ call'[d] = call[d] /\ work'[d] = work[d]
        BY <1>0, <2>3, <2>4 DEF RowsAndEditsOK
    <2>6. StackOK(c)' /\ DeletionKnows(c)' BY <2>2, <2>5 DEF StackOK, DeletionKnows
    <2> QED BY <2>2, <2>5, <2>6, StepKeepsKnowledge
<1>6. CASE Len(w) # 1
    <2>1. /\ work' = [work EXCEPT ![c] = Tail(w)] /\ Overlap({c})
          /\ UNCHANGED <<stage, call>>
        BY <1>1, <1>6 DEF DropVisited
    <2>2. /\ alone' \in [Clients -> BOOLEAN] /\ spared' \in [Clients -> SUBSET Monitors]
          /\ \A d \in Clients : alone'[d] = (d = c /\ alone[d])
          /\ spared'[c] = spared[c]
        BY <1>0, <2>1, OverlapIsTyped
    <2>3. Tail(w) \in Seq(Row) /\ Tail(w) # <<>> BY <1>4, <1>6, HeadOfStack, LastOfStack
    <2>4. /\ work' \in [Clients -> Seq(Row)] /\ work'[c] = Tail(w)
          /\ \A d \in Clients \ {c} : work'[d] = work[d]
        BY <1>0, <2>1, <2>3
    <2>5. StackOK(c)' BY <2>3, <2>4 DEF StackOK
    <2>6. DeletionKnows(c)'
        <3> SUFFICES ASSUME alone[c] PROVE DeletionKnows(c)' BY <2>2 DEF DeletionKnows
        <3>1. /\ \A k \in exists' : parent'[k] = parent[k] /\ parent[k] # m
              /\ spared[c] \subseteq exists' /\ ParentsGrouped /\ exists' = exists \ {m}
              /\ exists' \ spared[c] = AllDoomed(Tail(w))' /\ ChildrenFirst(Tail(w))'
            BY <1>1, <1>2, DropIsKnown
        <3>2. ParentsGrouped' BY <1>3, <3>1 DEF ParentsGrouped
        <3>3. PICK v : v = Tail(w) OBVIOUS
        <3>4. AllDoomed(work[c])' = AllDoomed(v)' /\ ChildrenFirst(work[c])' = ChildrenFirst(v)'
            BY <2>4, <3>3
        <3>5. AllDoomed(v)' = AllDoomed(Tail(w))' /\ ChildrenFirst(v)' = ChildrenFirst(Tail(w))'
            BY <3>3
        <3>6. exists' \ spared'[c] = AllDoomed(work[c])' /\ ChildrenFirst(work[c])'
            BY <2>2, <3>1, <3>4, <3>5
        <3> QED BY <1>3, <2>1, <2>2, <3>1, <3>2, <3>6 DEF DeletionKnows
    <2> QED BY <2>1, <2>2, <2>4, <2>5, <2>6, StepKeepsKnowledge
<1> QED BY <1>5, <1>6

LEMMA DeleteThrowsKeepsKnowledge ==
    ASSUME DeletionInv, NEW c \in Clients, GroupInv', DeleteThrows(c)
    PROVE  DeletionInv'
<1>0. /\ TreeTypeOK /\ RowsAndEditsOK /\ work \in [Clients -> Seq(Row)]
      /\ alone \in [Clients -> BOOLEAN] /\ spared \in [Clients -> SUBSET Monitors]
      /\ call \in [Clients -> Call]
    BY DEF DeletionInv, TreeTypeOK, RowsAndEditsOK, Row
<1>1. /\ stage' = [stage EXCEPT ![c] = "idle"] /\ call' = [call EXCEPT ![c] = NoCall]
      /\ work' = [work EXCEPT ![c] = <<>>] /\ alone' = [alone EXCEPT ![c] = FALSE]
      /\ spared' = [spared EXCEPT ![c] = {}] /\ UNCHANGED rowsOfTree
    BY DEF DeleteThrows, EndCall, GoOn
<1>2. <<>> \in Seq(Row) OBVIOUS
<1>3. /\ work' \in [Clients -> Seq(Row)]
      /\ alone' \in [Clients -> BOOLEAN] /\ spared' \in [Clients -> SUBSET Monitors]
      /\ stage'[c] = "idle" /\ ~alone'[c]
      /\ \A d \in Clients \ {c} :
            /\ stage'[d] = stage[d] /\ call'[d] = call[d] /\ work'[d] = work[d]
            /\ alone'[d] = alone[d] /\ spared'[d] = spared[d]
    BY <1>0, <1>1, <1>2 DEF RowsAndEditsOK
<1>4. StackOK(c)' /\ DeletionKnows(c)' BY <1>3 DEF StackOK, DeletionKnows
<1> QED BY <1>1, <1>3, <1>4, StepKeepsKnowledge

LEMMA DeletionInvNext == DeletionInv /\ [TreeNext]_treeVars => DeletionInv'
<1> SUFFICES ASSUME DeletionInv, [TreeNext]_treeVars PROVE DeletionInv' OBVIOUS
<1>0. GroupInv' BY GroupInvNext DEF DeletionInv
<1>1. CASE UNCHANGED treeVars
    <2>1. UNCHANGED <<rowsOfTree, stage, call, work, torn, alone, spared>>
        BY <1>1 DEF treeVars, walks
    <2>2. TreeTypeOK'
        BY <1>0, <2>1 DEF DeletionInv, GroupInv, TreeInv, TreeTypeOK
    <2>3. \A d \in Clients : StackOK(d)' /\ DeletionKnows(d)'
        BY <2>1, OthersKnow DEF DeletionInv
    <2> QED BY <1>0, <2>2, <2>3 DEF DeletionInv
<1>2. ASSUME NEW c \in Clients, TreeStep(c) PROVE DeletionInv'
    BY <1>0, <1>2, EditsKeepKnowledge, KidsUnlinkedKeepsKnowledge, VisitKeepsKnowledge,
       DropKeepsKnowledge, DeleteThrowsKeepsKnowledge
       DEF TreeStep
<1>3. ASSUME NEW c \in Clients, NEW m \in Monitors, NEW p \in Monitors \cup {Top},
             NEW g \in BOOLEAN, AddMonitor(c, m, p, g) \/ EditMonitor(c, m, p, g)
      PROVE  DeletionInv'
    BY <1>0, <1>3, EditsKeepKnowledge
<1>4. ASSUME NEW c \in Clients, NEW m \in Monitors, NEW deep \in BOOLEAN,
             DeleteTree(c, m, deep)
      PROVE  DeletionInv'
    BY <1>0, <1>4, DeleteBeginsKnowing
<1> QED BY <1>1, <1>2, <1>3, <1>4 DEF TreeNext

(* The step that empties the stack of a deletion drops its last row, or is *)
(* the deletion's end by an error.                                         *)
LEMMA DeletionEndsExactly ==
    ASSUME DeletionInv, [TreeNext]_treeVars, NEW c \in Clients,
           stage[c] = "delete.work", work'[c] = <<>>, alone[c]
    PROVE  exists' = spared[c] \/ DeleteThrows(c)
<1>0. /\ work \in [Clients -> Seq(Row)] /\ work[c] # <<>>
      /\ stage \in [Clients -> {"idle", "edit.walk", "edit.store", "edit.unlink",
                                "delete.kids", "delete.work"}]
      /\ RowsAndEditsOK
    BY DEF DeletionInv, StackOK, TreeTypeOK, RowsAndEditsOK, Row
<1>1. ~UNCHANGED treeVars BY <1>0 DEF treeVars, walks
<1>2. PICK d \in Clients :
          \/ TreeStep(d)
          \/ \E m \in Monitors, p \in Monitors \cup {Top}, g \in BOOLEAN :
                AddMonitor(d, m, p, g) \/ EditMonitor(d, m, p, g)
          \/ \E m \in Monitors, deep \in BOOLEAN : DeleteTree(d, m, deep)
    BY <1>1 DEF TreeNext
<1>3. d = c /\ (VisitRow(c) \/ DropVisited(c) \/ DeleteThrows(c))
    <2>1. d # c => work'[c] = work[c]
        BY <1>0, <1>2 DEF TreeStep, AddMonitor, EditMonitor, DeleteTree, ReadChildren, WalkEnds,
           EditTreeStored, EditThrows, UnlinkAllChildren, KidsUnlinked, VisitRow, DropVisited,
           DeleteThrows, EndCall, walks
    <2>2. d = c BY <1>0, <2>1
    <2> QED BY <1>2, <2>2 DEF TreeStep, AddMonitor, EditMonitor, DeleteTree, ReadChildren,
               WalkEnds, EditTreeStored, EditThrows, UnlinkAllChildren, KidsUnlinked, Editing
<1>4. PICK w \in Seq(Row) : w = work[c] BY <1>0
<1>5. CASE VisitRow(c)
    <2>1. w # <<>> /\ work'[c] = Opened(Head(w).id) \o Tail(w)
        BY <1>0, <1>4, <1>5 DEF VisitRow
    <2>2. Head(w).id \in Monitors /\ Tail(w) \in Seq(Row) BY <2>1, HeadOfStack DEF Row
    <2> DEFINE o == Opened(Head(w).id)
               t == Tail(w)
    <2>3. o \in Seq(Row) /\ Len(o) \in Nat \ {0} /\ t \in Seq(Row)
        BY <1>0, <2>2, OpenedIsStack
    <2>4. o \o t = <<>> BY <2>1
    <2> HIDE DEF o, t
    <2>5. Len(o \o t) = Len(o) + Len(t) BY <2>3
    <2> QED BY <2>3, <2>4, <2>5
<1>6. CASE DropVisited(c)
    <2>1. PICK m : m = Head(w).id OBVIOUS
    <2>2. Len(w) = 1
        <3> SUFFICES ASSUME Len(w) # 1 PROVE FALSE OBVIOUS
        <3>1. work'[c] = Tail(w) BY <1>0, <1>4, <1>6 DEF DropVisited
        <3>2. Tail(w) = <<>> BY <3>1
        <3> QED BY <1>0, <1>4, <3>2, LastOfStack
    <2> QED BY <1>4, <1>6, <2>1, <2>2, DropIsKnown
<1> QED BY <1>3, <1>5, <1>6

(* A deletion that nothing overlaps leaves the rows it ought to, for any   *)
(* tree and any number of clients (DeletionIsExact;                        *)
(* monitor-socket-handler.js, deleteMonitor, and monitor.js,               *)
(* deleteMonitorRecursively()).                                            *)
THEOREM DeletionsAreExact == TreeSpec => DeletionIsExact
<1>1. DeletionInv /\ [TreeNext]_treeVars =>
          [\A c \in Clients : stage[c] = "delete.work" /\ work'[c] = <<>> /\ alone[c]
                                  => exists' = spared[c] \/ DeleteThrows(c)]_treeVars
    BY DeletionEndsExactly
<1> QED BY DeletionInvInit, DeletionInvNext, <1>1, PTL DEF TreeSpec, DeletionIsExact

LEMMA TreeTypes == TreeSpec => []TreeTypeOK
<1>1. DeletionInv => TreeTypeOK BY DEF DeletionInv
<1> QED BY DeletionInvInit, DeletionInvNext, <1>1, PTL DEF TreeSpec
=============================================================================
