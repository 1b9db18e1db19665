------------------------- MODULE UptimeStatsProofs -------------------------
(***************************************************************************)
(* For any number of beats and viewers, any faults and any clearings: no   *)
(* beat is counted twice, and while they take turns none that is stored    *)
(* goes uncounted.  And for every length of the queue, what is shown of    *)
(* the last buckets is what was counted in them.                           *)
(***************************************************************************)
EXTENDS UptimeStats, UptimeWindow, FiniteSetTheorems, WellFoundedInduction, TLAPS

(* Beats on their way that update() has already counted                    *)
Entered == {b \in Beats : pc[b] \in {"find", "sql", "beat"}}

Attempts == stored + lost + cleared + Cardinality(Busy)

Tally == stored + lost + cleared + Cardinality(Entered)

(* Nothing in memory, on its way or in the row exceeds the tally of beats. *)
TallyInv ==
    /\ \A o \in Objects : count[o] <= Tally
    /\ \A b \in Beats :
          pc[b] = "sql" \/ (pc[b] = "find" /\ b \in behind) => value[b] <= Tally
    /\ row <= Tally

(* A statement that is going to be sent has something to write.            *)
HeldInv ==
    \A b \in Beats : pc[b] = "find" =>
        IF b \in behind THEN value[b] > 0 ELSE count[held[b]] > 0

(* A clearing nobody has overlapped is alone, and does what it says.       *)
ClearInv ==
    /\ \A c \in behind : pc[c] \in {"init", "find", "sql"}
    /\ wiping # "no" /\ ~mixed =>
          stored = 0 /\ \A c \in Callers : pc[c] = "idle"
    /\ wiping = "forget" /\ ~mixed => row = 0

IInv == TypeOK /\ TallyInv /\ HeldInv /\ ClearInv /\ Attempts <= Cap

-----------------------------------------------------------------------------
LEMMA Finite ==
    ASSUME NEW S \in SUBSET Beats
    PROVE  IsFiniteSet(S) /\ Cardinality(S) \in Nat
  BY CallersAssumption, FS_Subset, FS_CardinalityType, Beats \subseteq Beats \cup Viewers

LEMMA Sizes ==
    ASSUME TypeOK
    PROVE  /\ Cardinality(Entered) \in Nat
           /\ Cardinality(Busy) \in Nat
           /\ Cardinality(Entered) <= Cardinality(Busy)
  <1>1. Entered \subseteq Busy /\ Busy \subseteq Beats
    BY DEF Entered, Busy
  <1>2. QED
    BY <1>1, Finite, FS_Subset

LEMMA OneMore ==
    ASSUME NEW S \in SUBSET Beats, NEW b \in Beats, b \notin S
    PROVE  Cardinality(S \cup {b}) = Cardinality(S) + 1
  BY Finite, FS_AddElement

LEMMA Parted ==
    ASSUME NEW S \in SUBSET Beats, NEW b \in S
    PROVE  Cardinality(S \ {b}) = Cardinality(S) - 1
  BY Finite, FS_RemoveElement

LEMMA TallyInit == Init => IInv
  <1>. SUFFICES ASSUME Init PROVE IInv
    OBVIOUS
  <1>1. Entered = {} /\ Busy = {}
    BY DEF Init, Entered, Busy, Callers
  <1>2. Tally = 0 /\ Attempts = 0
    BY <1>1, FS_EmptySet DEF Init, Tally, Attempts
  <1>3. TypeOK
    <2>1. mixed \in BOOLEAN
      BY Zenon DEF Init
    <2>2. QED
      BY <2>1, CapAssumption DEF Init, TypeOK, Objects, Callers
  <1>4. QED
    BY <1>2, <1>3, CapAssumption DEF Init, IInv, TallyInv, HeldInv, ClearInv, Callers

LEMMA AskKeepsTally ==
    ASSUME IInv, NEW c \in Callers, Ask(c)
    PROVE  IInv'
  <1>. USE DEF IInv
  <1>1. mixed' \in BOOLEAN /\ (wiping # "no" => mixed')
    BY Zenon DEF Ask
  <1>2. TypeOK' /\ HeldInv' /\ ClearInv'
    BY <1>1 DEF Ask, GoTo, TypeOK, HeldInv, ClearInv, clears, Callers
  <1>3. Entered' = Entered
    BY DEF Ask, GoTo, TypeOK, Entered, Callers
  <1>4. TallyInv'
    BY <1>3 DEF Ask, GoTo, TallyInv, Tally, TypeOK, clears, Callers
  <1>5. CASE c \in Beats
    <2>1. Busy' = Busy \cup {c} /\ c \notin Busy
      BY <1>5 DEF Ask, GoTo, TypeOK, Busy, Callers
    <2>2. Cardinality(Busy)' = Cardinality(Busy) + 1
      BY <1>5, <2>1, OneMore DEF Busy
    <2>3. Attempts' <= Cap
      BY <1>5, <2>2, Sizes, CapAssumption DEF Ask, Attempts, TypeOK, clears
    <2>4. QED
      BY <1>2, <1>4, <2>3
  <1>6. CASE c \notin Beats
    <2>1. Busy' = Busy
      BY <1>6 DEF Ask, GoTo, TypeOK, Busy, Callers
    <2>2. QED
      BY <1>2, <1>4, <2>1 DEF Ask, Attempts, clears
  <1>7. QED
    BY <1>5, <1>6

LEMMA LoadKeepsTally ==
    ASSUME IInv, NEW c \in Callers, Load(c)
    PROVE  IInv'
  <1>. USE DEF IInv
  <1>1. TypeOK' /\ HeldInv' /\ ClearInv'
    <2>1. TypeOK' /\ HeldInv'
      BY DEF Load, GoTo, TypeOK, HeldInv, clears, Objects, Callers
    <2>2. ClearInv'
      BY DEF Load, GoTo, TypeOK, ClearInv, clears, Callers
    <2>3. QED
      BY <2>1, <2>2
  <1>2. Entered' = Entered /\ Busy' = Busy
    BY DEF Load, GoTo, TypeOK, Entered, Busy, Callers
  <1>3. TallyInv'
    BY <1>2 DEF Load, GoTo, TallyInv, Tally, TypeOK, clears, Objects, Callers
  <1>4. QED
    BY <1>1, <1>2, <1>3 DEF Load, Attempts, clears

LEMMA UpdateKeepsTally ==
    ASSUME IInv, NEW b \in Beats, Update(b)
    PROVE  IInv'
  <1>. USE DEF IInv
  <1>1. Busy' = Busy /\ Entered' = Entered \cup {b} /\ b \notin Entered
    BY DEF Update, GoTo, TypeOK, Entered, Busy, Callers
  <1>2. Cardinality(Entered)' = Cardinality(Entered) + 1
    BY <1>1, OneMore DEF Entered
  <1>3. Tally' = Tally + 1 /\ Tally \in Nat
    BY <1>2, Sizes DEF Update, Tally, TypeOK, clears
  <1>4. Tally' <= Cap
    <2>1. Entered' \subseteq Busy
      BY DEF Update, GoTo, TypeOK, Entered, Busy, Callers
    <2>2. Cardinality(Entered)' <= Cardinality(Busy) /\ Busy \subseteq Beats
      BY <2>1, Finite, FS_Subset DEF Busy
    <2>3. QED
      BY <2>2, <1>2, Sizes, CapAssumption DEF Update, Tally, Attempts, TypeOK, clears
  <1>5. TallyInv'
    BY <1>3 DEF Update, GoTo, TallyInv, ClearInv, TypeOK, Objects, Callers
  <1>6. \A o \in Objects : count[o]' \in 0 .. Cap
    BY <1>3, <1>4, CapAssumption DEF Update, TallyInv, TypeOK, Objects
  <1>7. TypeOK' /\ HeldInv' /\ ClearInv'
    BY <1>6, CapAssumption
    DEF Update, GoTo, TypeOK, HeldInv, ClearInv, clears, Objects, Callers
  <1>8. QED
    BY <1>1, <1>5, <1>7 DEF Update, Attempts, clears

LEMMA StatementKeepsTally ==
    ASSUME IInv, NEW b \in Beats, Find(b) \/ StoreStat(b)
    PROVE  IInv'
  <1>. USE DEF IInv
  <1>1. Busy' = Busy /\ Entered' = Entered
    BY DEF Find, StoreStat, GoTo, TypeOK, Entered, Busy, Callers
  <1>2. TallyInv' /\ Attempts' = Attempts
    <2>1. CASE Find(b)
      BY <2>1, <1>1 DEF Find, GoTo, TallyInv, Tally, Attempts, TypeOK, clears, Callers
    <2>2. CASE StoreStat(b)
      BY <2>2, <1>1, Sizes
      DEF StoreStat, GoTo, LetsGo, TallyInv, Tally, Attempts, TypeOK, clears, Callers
    <2>3. QED
      BY <2>1, <2>2
  <1>3. TypeOK' /\ HeldInv' /\ ClearInv'
    <2>1. CASE Find(b)
      BY <2>1, CapAssumption, CallersAssumption
      DEF Find, GoTo, TypeOK, HeldInv, ClearInv, clears, Callers
    <2>2. CASE StoreStat(b)
      BY <2>2, CapAssumption, CallersAssumption
      DEF StoreStat, GoTo, LetsGo, TypeOK, HeldInv, ClearInv, clears, Objects, Callers
    <2>3. QED
      BY <2>1, <2>2
  <1>4. QED
    BY <1>2, <1>3

LEMMA EndKeepsTally ==
    ASSUME IInv, NEW b \in Beats, StoreBeat(b) \/ Fail(b)
    PROVE  IInv'
  <1>. USE DEF IInv
  <1>1. TypeOK' /\ HeldInv' /\ ClearInv'
    <2>1. CASE StoreBeat(b)
      BY <2>1 DEF StoreBeat, GoTo, TypeOK, HeldInv, ClearInv, memory, clears, Callers
    <2>2. CASE Fail(b)
      <3>1. TypeOK'
        BY <2>2, CapAssumption DEF Fail, GoTo, LetsGo, TypeOK, memory, clears, Objects, Callers
      <3>2. HeldInv'
        BY <2>2 DEF Fail, GoTo, LetsGo, TypeOK, HeldInv, memory, Callers
      <3>3. ClearInv'
        BY <2>2 DEF Fail, GoTo, LetsGo, TypeOK, ClearInv, clears, Callers
      <3>4. QED
        BY <3>1, <3>2, <3>3
    <2>3. QED
      BY <2>1, <2>2
  <1>2. /\ Busy' = Busy \ {b} /\ b \in Busy
        /\ Entered' = Entered \ {b} /\ b \in Entered
    BY DEF StoreBeat, Fail, GoTo, TypeOK, Entered, Busy, Callers
  <1>3. /\ Cardinality(Busy)' = Cardinality(Busy) - 1
        /\ Cardinality(Entered)' = Cardinality(Entered) - 1
    BY <1>2, Parted DEF Busy, Entered
  <1>4. Tally' = Tally /\ Attempts' = Attempts
    BY <1>3, Sizes DEF StoreBeat, Fail, Tally, Attempts, TypeOK, clears
  <1>5. TallyInv'
    <2>1. CASE StoreBeat(b)
      BY <2>1, <1>4 DEF StoreBeat, GoTo, TallyInv, TypeOK, memory, Callers
    <2>2. CASE Fail(b)
      BY <2>2, <1>4 DEF Fail, GoTo, LetsGo, TallyInv, TypeOK, memory, Callers
    <2>3. QED
      BY <2>1, <2>2
  <1>6. QED
    BY <1>1, <1>4, <1>5

(* A caller that comes back from a load with nothing to go on with.        *)
LEMMA LoadEndKeepsTally ==
    ASSUME IInv, NEW c \in Callers, LoadsForgotten(c) \/ LoadFails(c)
    PROVE  IInv'
  <1>. USE DEF IInv
  <1>1. TypeOK' /\ HeldInv' /\ ClearInv' /\ Entered' = Entered
    <2>1. CASE LoadsForgotten(c)
      <3>1. TypeOK' /\ Entered' = Entered
        BY <2>1 DEF LoadsForgotten, GoTo, TypeOK, Entered, Callers, memory, clears
      <3>2. HeldInv'
        BY <2>1 DEF LoadsForgotten, GoTo, TypeOK, HeldInv, Callers, memory
      <3>3. ClearInv'
        BY <2>1 DEF LoadsForgotten, GoTo, TypeOK, ClearInv, Callers, clears
      <3>4. QED
        BY <3>1, <3>2, <3>3
    <2>2. CASE LoadFails(c)
      BY <2>2
      DEF LoadFails, GoTo, TypeOK, HeldInv, ClearInv, Entered, Callers, memory, clears
    <2>3. QED
      BY <2>1, <2>2
  <1>2. Tally' \in Nat /\ Tally \in Nat /\ Tally <= Tally'
    BY <1>1, Sizes DEF LoadsForgotten, LoadFails, Tally, TypeOK, clears
  <1>3. TallyInv'
    <2>1. CASE LoadsForgotten(c)
      BY <2>1, <1>2 DEF LoadsForgotten, GoTo, TallyInv, TypeOK, memory, Objects, Callers
    <2>2. CASE LoadFails(c)
      BY <2>2, <1>2 DEF LoadFails, GoTo, TallyInv, TypeOK, memory, Objects, Callers
    <2>3. QED
      BY <2>1, <2>2
  <1>4. Attempts' <= Cap
    <2>1. CASE c \in Beats /\ pc[c]' = "idle"
      <3>1. Busy' = Busy \ {c} /\ c \in Busy
        BY <2>1 DEF LoadsForgotten, LoadFails, GoTo, TypeOK, Busy, Callers
      <3>2. Cardinality(Busy)' = Cardinality(Busy) - 1
        BY <3>1, Parted DEF Busy
      <3>3. QED
        BY <3>2, Sizes, CapAssumption
        DEF LoadsForgotten, LoadFails, Attempts, TypeOK, clears
    <2>2. CASE ~(c \in Beats /\ pc[c]' = "idle")
      <3>1. Busy' = Busy
        BY <2>2 DEF LoadsForgotten, LoadFails, GoTo, TypeOK, Busy, Callers
      <3>2. lost' = lost
        BY <2>2 DEF LoadsForgotten, LoadFails, GoTo, TypeOK
      <3>3. QED
        BY <3>1, <3>2 DEF LoadsForgotten, LoadFails, Attempts, clears
    <2>3. QED
      BY <2>1, <2>2
  <1>5. QED
    BY <1>1, <1>3, <1>4

LEMMA ClearingKeepsTally ==
    ASSUME IInv, ClearStatistics \/ RowsDeleted \/ ClearRefused
    PROVE  IInv'
  <1>. USE DEF IInv
  <1>1. Entered' = Entered /\ Busy' = Busy
    BY DEF ClearStatistics, RowsDeleted, ClearRefused, chains, Entered, Busy
  <1>2. Tally' = Tally /\ Attempts' = Attempts /\ Tally \in Nat
    BY <1>1, Sizes DEF ClearStatistics, RowsDeleted, ClearRefused, Tally, Attempts, TypeOK
  <1>3. mixed' \in BOOLEAN
    BY Zenon DEF ClearStatistics, RowsDeleted, ClearRefused, TypeOK
  <1>4. CASE ClearStatistics
    <2>1. TypeOK' /\ HeldInv'
      BY <1>3, <1>4 DEF ClearStatistics, TypeOK, HeldInv, memory, chains
    <2>2. TallyInv'
      BY <1>2, <1>4 DEF ClearStatistics, TallyInv, memory, chains
    <2>3. ~mixed' => Working = {}
      BY <1>4 DEF ClearStatistics
    <2>4. ClearInv'
      BY <1>4, <2>3 DEF ClearStatistics, ClearInv, TypeOK, Working, chains
    <2>5. QED
      BY <1>2, <2>1, <2>2, <2>4
  <1>5. CASE RowsDeleted
    <2>1. TypeOK'
      BY <1>3, <1>5, CapAssumption DEF RowsDeleted, TypeOK, chains
    <2>2. QED
      BY <1>2, <1>5, <2>1 DEF RowsDeleted, TypeOK, TallyInv, HeldInv, ClearInv, chains
  <1>6. CASE ClearRefused
    BY <1>2, <1>6 DEF ClearRefused, TypeOK, TallyInv, HeldInv, ClearInv, memory, chains
  <1>7. QED
    BY <1>4, <1>5, <1>6

LEMMA ForgottenKeepsTally ==
    ASSUME IInv, CalculatorForgotten
    PROVE  IInv'
  <1>. USE DEF IInv
  <1>1. Entered' = Entered /\ Busy' = Busy
    BY DEF CalculatorForgotten, Entered, Busy
  <1>2. Tally \in Nat /\ (mixed => Tally' = Tally /\ Attempts' = Attempts)
    BY <1>1, Sizes DEF CalculatorForgotten, Tally, Attempts, TypeOK
  <1>3. ~mixed => /\ row = 0 /\ Tally' = 0 /\ Attempts' = 0
                  /\ \A c \in Callers : pc[c] = "idle"
    <2>1. ASSUME ~mixed
          PROVE  stored = 0 /\ row = 0 /\ \A c \in Callers : pc[c] = "idle"
      BY <2>1 DEF CalculatorForgotten, ClearInv, TypeOK
    <2>2. ~mixed => Entered = {} /\ Busy = {}
      BY <2>1 DEF Entered, Busy, Callers
    <2>3. QED
      BY <1>1, <2>1, <2>2, FS_EmptySet DEF CalculatorForgotten, Tally, Attempts
  <1>4. behind' = {c \in Callers : pc[c] \in {"init", "find", "sql"}}
    BY DEF CalculatorForgotten
  <1>5. \A b \in Beats : value[b]' = IF pc[b] = "find" /\ b \notin behind
                                    THEN count[held[b]] ELSE value[b]
    BY DEF CalculatorForgotten
  <1>6. \A b \in Beats : held[b] \in Objects /\ value[b]' \in 0 .. Cap
    BY <1>5 DEF TypeOK
  <1>7. TypeOK'
    BY <1>4, <1>6, CapAssumption DEF CalculatorForgotten, TypeOK, Objects, Callers
  <1>8. HeldInv' /\ ClearInv'
    BY <1>4, <1>5 DEF CalculatorForgotten, HeldInv, ClearInv, TypeOK, Callers
  <1>9. CASE mixed
    <2>1. \A b \in Beats : pc[b] \in {"find", "sql"} => value[b]' <= Tally
      BY <1>5, <1>6 DEF TallyInv, TypeOK
    <2>2. TallyInv'
      BY <1>2, <1>4, <1>9, <2>1 DEF CalculatorForgotten, TallyInv, TypeOK, Objects, Callers
    <2>3. QED
      BY <1>2, <1>7, <1>8, <1>9, <2>2
  <1>10. CASE ~mixed
    BY <1>3, <1>4, <1>7, <1>8, <1>10, CapAssumption
    DEF CalculatorForgotten, TallyInv, TypeOK, Objects, Callers
  <1>11. QED
    BY <1>9, <1>10

LEMMA FaultKeepsTally ==
    ASSUME IInv, Crash \/ BucketRolls
    PROVE  IInv'
  <1>. USE DEF IInv
  <1>1. CASE Crash
    <2>1. Entered' = {} /\ Busy' = {}
      BY <1>1 DEF Crash, Entered, Busy, Callers
    <2>2. Tally' = Attempts /\ Attempts' = Attempts /\ Tally <= Attempts
      BY <1>1, <2>1, Sizes, FS_EmptySet DEF Crash, Tally, Attempts, TypeOK
    <2>3. TypeOK' /\ HeldInv' /\ ClearInv'
      BY <1>1, CapAssumption, Sizes DEF Crash, TypeOK, HeldInv, ClearInv, Objects, Callers
    <2>4. Tally \in Nat
      BY Sizes DEF Tally, TypeOK
    <2>5. TallyInv'
      BY <1>1, <2>2, <2>4, Sizes DEF Crash, TallyInv, TypeOK, Attempts, Callers
    <2>6. QED
      BY <2>2, <2>3, <2>5
  <1>2. CASE BucketRolls
    <2>1. /\ \A c \in Callers : pc[c] = "idle"
          /\ behind = {}
      BY <1>2 DEF BucketRolls, Working, ClearInv, TypeOK
    <2>2. Entered = {} /\ Busy = {} /\ Entered' = {} /\ Busy' = {}
      BY <1>2, <2>1 DEF BucketRolls, chains, Entered, Busy, Callers
    <2>3. Tally' = 0 /\ Attempts' = 0
      BY <1>2, <2>2, FS_EmptySet DEF BucketRolls, Tally, Attempts
    <2>4. mixed' \in BOOLEAN
      BY <1>2, Zenon DEF BucketRolls
    <2>5. TypeOK' /\ HeldInv' /\ ClearInv'
      BY <1>2, <2>1, <2>4, CapAssumption
      DEF BucketRolls, chains, TypeOK, HeldInv, ClearInv, Objects, Callers
    <2>6. QED
      BY <1>2, <2>1, <2>3, <2>5, CapAssumption
      DEF BucketRolls, TallyInv, chains, TypeOK, Objects, Callers
  <1>3. QED
    BY <1>1, <1>2

LEMMA TallyStep == IInv /\ [Next]_vars => IInv'
  <1>. SUFFICES ASSUME IInv, [Next]_vars PROVE IInv'
    OBVIOUS
  <1>1. CASE UNCHANGED vars
    BY <1>1
    DEF vars, memory, chains, clears, IInv, TypeOK, TallyInv, HeldInv, ClearInv,
        Tally, Attempts, Entered, Busy
  <1>2. QED
    BY <1>1, AskKeepsTally, LoadKeepsTally, UpdateKeepsTally, StatementKeepsTally,
       EndKeepsTally, LoadEndKeepsTally, ClearingKeepsTally, ForgottenKeepsTally,
       FaultKeepsTally DEF Next

(* Every variable of UptimeStats keeps its type, and no statement is sent  *)
(* that has nothing to write.                                              *)
THEOREM StatsTypes == Spec => []TypeOK
  <1>1. IInv => TypeOK
    BY DEF IInv
  <1>2. QED
    BY TallyInit, TallyStep, <1>1, PTL DEF Spec

(* However many beats and viewers race for the calculator, and whatever    *)
(* fails or is cleared: a row never counts more than the heartbeats, the   *)
(* beats that failed, the ones on their way and those that a clearing has  *)
(* deleted while others were at it.                                        *)
THEOREM NothingCountedTwice == Spec => []CountedOnce
  <1>1. IInv => CountedOnce
    BY Sizes DEF IInv, TallyInv, Tally, CountedOnce, TypeOK
  <1>2. QED
    BY TallyInit, TallyStep, <1>1, PTL DEF Spec

-----------------------------------------------------------------------------
(* While nobody is mixed up with anybody: one caller at most is at work, a *)
(* loaded bucket is never behind its row, the row is never behind the      *)
(* heartbeats, and a statement on its way is ahead of them.                *)
Ahead == IF bucket = "none" THEN row = 0 ELSE row <= count[bucket]

(* No bean is in use whose row has been deleted.                           *)
BeansAlive ==
    /\ cache # None => saved[cache] # "gone"
    /\ \A b \in Beats : pc[b] = "sql" => saved[bean[b]] # "gone"

TurnInv ==
    /\ \A c, d \in Callers : pc[c] # "idle" /\ pc[d] # "idle" => c = d
    /\ calc = "none" => bucket = "none" /\ \A c \in Callers : pc[c] = "idle"
    /\ \A c \in Callers : pc[c] = "init" => bucket = "none"
    /\ calc = "none" \/ Ahead \/ \E c \in Callers : pc[c] = "init"
    /\ \A b \in Beats : pc[b] \in {"find", "sql"} =>
          bucket # "none" /\ held[b] = bucket /\ stored < count[bucket]
    /\ \A b \in Beats : pc[b] = "sql" => value[b] = count[bucket]
    /\ \A b \in Beats : pc[b] = "beat" => stored < row
    /\ BeansAlive

AheadInv ==
    ~mixed => /\ behind = {} /\ stored <= row
              /\ wiping = "no" => TurnInv

LEMMA AheadInit == Init => AheadInv
  BY CallersAssumption DEF Init, AheadInv, TurnInv, BeansAlive, Callers

LEMMA CallersKeepAhead ==
    ASSUME IInv, AheadInv, NEW c \in Callers,
           Ask(c) \/ Load(c) \/ LoadsForgotten(c) \/ LoadFails(c)
    PROVE  AheadInv'
  <1>. USE DEF IInv
  <1>1. CASE Ask(c)
    <2>1. mixed' = (mixed \/ Working # {} \/ wiping # "no")
      BY <1>1 DEF Ask
    <2>2. SUFFICES ASSUME ~mixed' PROVE behind' = {} /\ stored' <= row' /\ TurnInv'
      BY <2>1 DEF AheadInv
    <2>3. ~mixed /\ wiping = "no" /\ \A d \in Callers : pc[d] = "idle"
      BY <2>1, <2>2 DEF Working
    <2>4. QED
      BY <1>1, <2>3
      DEF Ask, GoTo, TypeOK, AheadInv, TurnInv, BeansAlive, Ahead, clears, Callers
  <1>2. CASE Load(c)
    BY <1>2 DEF Load, GoTo, TypeOK, AheadInv, TurnInv, ClearInv, BeansAlive, Ahead, clears,
                Callers, Objects
  <1>3. CASE LoadsForgotten(c)
    BY <1>3 DEF LoadsForgotten, AheadInv
  <1>4. CASE LoadFails(c)
    BY <1>4 DEF LoadFails, AheadInv
  <1>5. QED
    BY <1>1, <1>2, <1>3, <1>4

LEMMA BeatsKeepAhead ==
    ASSUME IInv, AheadInv, NEW b \in Beats,
           Update(b) \/ Find(b) \/ StoreStat(b) \/ StoreBeat(b) \/ Fail(b)
    PROVE  AheadInv'
  <1>. USE DEF IInv
  <1>. SUFFICES ASSUME ~mixed' PROVE AheadInv'
    BY DEF AheadInv
  <1>1. ~mixed /\ wiping = "no" /\ pc[b] # "idle"
    BY DEF Update, Find, StoreStat, StoreBeat, Fail, ClearInv, TypeOK, Callers
  <1>2. behind = {} /\ stored <= row /\ TurnInv
    BY <1>1 DEF AheadInv
  <1>3. CASE Update(b)
    BY <1>1, <1>2, <1>3
    DEF Update, GoTo, TypeOK, AheadInv, TurnInv, BeansAlive, Ahead, clears, Callers, Objects
  <1>4. CASE Find(b)
    BY <1>1, <1>2, <1>4, CallersAssumption
    DEF Find, GoTo, TypeOK, AheadInv, TurnInv, BeansAlive, Ahead, clears, Callers, Objects
  <1>5. CASE StoreStat(b)
    BY <1>1, <1>2, <1>5
    DEF StoreStat, LetsGo, GoTo, TypeOK, AheadInv, TurnInv, BeansAlive, Ahead, clears,
        Callers, Objects
  <1>6. CASE StoreBeat(b)
    BY <1>1, <1>2, <1>6
    DEF StoreBeat, GoTo, TypeOK, AheadInv, TurnInv, BeansAlive, Ahead, clears, Callers, memory
  <1>7. CASE Fail(b)
    BY <1>1, <1>2, <1>7
    DEF Fail, LetsGo, GoTo, TypeOK, AheadInv, TurnInv, BeansAlive, Ahead, clears, Callers,
        memory
  <1>8. QED
    BY <1>3, <1>4, <1>5, <1>6, <1>7

LEMMA ClearingKeepsAhead ==
    ASSUME IInv, AheadInv, ClearStatistics \/ RowsDeleted \/ CalculatorForgotten \/ ClearRefused
    PROVE  AheadInv'
  <1>. USE DEF IInv
  <1>1. CASE ClearStatistics
    <2>1. ~mixed' => \A c \in Callers : pc[c] = "idle"
      BY <1>1 DEF ClearStatistics, Working
    <2>2. ~mixed' => behind = {}
      BY <2>1 DEF ClearInv, TypeOK
    <2>3. QED
      BY <1>1, <2>2 DEF ClearStatistics, AheadInv, TypeOK
  <1>2. CASE RowsDeleted
    BY <1>2 DEF RowsDeleted, AheadInv, ClearInv, TypeOK
  <1>3. CASE CalculatorForgotten
    BY <1>3, CallersAssumption
    DEF CalculatorForgotten, AheadInv, TurnInv, BeansAlive, Ahead, ClearInv, TypeOK, Callers
  <1>4. CASE ClearRefused
    BY <1>4 DEF ClearRefused, AheadInv
  <1>5. QED
    BY <1>1, <1>2, <1>3, <1>4

LEMMA AheadStep == IInv /\ AheadInv /\ [Next]_vars => AheadInv'
  <1>. SUFFICES ASSUME IInv, AheadInv, [Next]_vars PROVE AheadInv'
    OBVIOUS
  <1>. USE DEF IInv
  <1>1. CASE Crash
    BY <1>1, CallersAssumption
    DEF Crash, TypeOK, AheadInv, TurnInv, BeansAlive, Ahead, Callers, Objects
  <1>2. CASE BucketRolls
    <2>1. /\ \A c \in Callers : pc[c] = "idle"
          /\ behind = {}
      BY <1>2 DEF BucketRolls, Working, ClearInv, TypeOK
    <2>2. QED
      BY <1>2, <2>1, CallersAssumption
      DEF BucketRolls, chains, TypeOK, AheadInv, TurnInv, BeansAlive, Ahead, Callers, Objects
  <1>3. CASE UNCHANGED vars
    BY <1>3 DEF vars, memory, chains, clears, AheadInv, TurnInv, BeansAlive, Ahead
  <1>4. QED
    BY <1>1, <1>2, <1>3, CallersKeepAhead, BeatsKeepAhead, ClearingKeepsAhead DEF Next

(* Through any crash, any refused statement and any wiping, for any      *)
(* number of beats and viewers that take turns: every stored heartbeat is  *)
(* in the row.                                                             *)
THEOREM TurnTakersAreCounted == Spec => []EveryBeatCounted
  <1>1. AheadInv => EveryBeatCounted
    BY DEF AheadInv, EveryBeatCounted
  <1>2. QED
    BY TallyInit, TallyStep, AheadInit, AheadStep, <1>1, PTL DEF Spec

(* Both (CountIsExact): the row neither misses nor invents a beat.         *)
THEOREM CountsAreExact == Spec => []CountIsExact
  <1>1. CountedOnce /\ EveryBeatCounted => CountIsExact
    BY DEF CountIsExact
  <1>2. QED
    BY <1>1, NothingCountedTwice, TurnTakersAreCounted, PTL

-----------------------------------------------------------------------------
(* Induction, with a set for the predicate.                                *)
LEMMA UpFromZero ==
    ASSUME NEW T, 0 \in T, \A n \in Nat : n \in T => n + 1 \in T
    PROVE  Nat \subseteq T
<1>1. \A x, y \in Nat : <<y, x>> \in OpToRel(<, Nat) <=> y < x
  BY DEF OpToRel
<1>2. PICK R : IsWellFoundedOn(R, Nat) /\ \A x, y \in Nat : <<y, x>> \in R <=> y < x
  BY NatLessThanWellFounded, <1>1, Zenon
<1> DEFINE D == {n \in Nat : n \notin T}
<1>3. SUFFICES ASSUME D # {} PROVE FALSE
  OBVIOUS
<1>4. PICK x \in D : \A y \in D : ~(<<y, x>> \in R)
  <2>1. D \subseteq Nat OBVIOUS
  <2> HIDE DEF D
  <2> QED BY <1>2, <1>3, <2>1, WFMin, Zenon
<1>5. x \in Nat /\ x \notin T /\ x # 0
  OBVIOUS
<1>6. x - 1 \in Nat /\ x - 1 < x
  BY <1>5
<1>7. PICK y \in Nat : y = x - 1
  BY <1>6
<1>8. <<y, x>> \in R
  BY <1>2, <1>5, <1>6, <1>7
<1>9. y \in T
  BY <1>4, <1>7, <1>8
<1> QED
  BY <1>5, <1>7, <1>9

(* What is defined by recursion on the naturals is there.                  *)
Steps(step, S) == step \in [Nat \X S -> S]

Reaches(step, S, s0) ==
    \E f \in [Nat -> S] : f[0] = s0 /\ \A n \in Nat : f[n + 1] = step[<<n, f[n]>>]

LEMMA Recursion ==
    ASSUME NEW S, NEW s0 \in S, NEW step, Steps(step, S)
    PROVE  Reaches(step, S, s0)
<1> USE DEF Steps
<1> DEFINE Begins(g, n) == /\ g \in [0 .. n -> S] /\ g[0] = s0
                           /\ \A i \in 0 .. n - 1 : g[i + 1] = step[<<i, g[i]>>]
<1>1. \A n \in Nat : \E g : Begins(g, n)
  <2> DEFINE T == {n \in Nat : \E g : Begins(g, n)}
  <2>1. 0 \in T
    <3>1. Begins([i \in 0 .. 0 |-> s0], 0) OBVIOUS
    <3> QED BY <3>1
  <2>2. ASSUME NEW n \in Nat, n \in T PROVE n + 1 \in T
    <3>1. PICK g : Begins(g, n) BY <2>2
    <3>2. g[n] \in S /\ step[<<n, g[n]>>] \in S BY <3>1
    <3> DEFINE h == [i \in 0 .. n + 1 |-> IF i = n + 1 THEN step[<<n, g[n]>>] ELSE g[i]]
    <3>3. h \in [0 .. n + 1 -> S] BY <3>1, <3>2
    <3>4. h[0] = s0 BY <3>1
    <3>5. ASSUME NEW i \in 0 .. n PROVE h[i + 1] = step[<<i, h[i]>>]
      <4>1. h[i] = g[i] BY <3>5
      <4>2. CASE i = n
        <5>1. h[n + 1] = step[<<n, g[n]>>] OBVIOUS
        <5> HIDE DEF h
        <5> QED BY <4>1, <4>2, <5>1
      <4>3. CASE i # n
        <5>1. i \in 0 .. n - 1 /\ h[i + 1] = g[i + 1] BY <4>3
        <5> QED BY <3>1, <4>1, <5>1
      <4> QED BY <4>2, <4>3
    <3>6. Begins(h, n + 1)
      <4>1. 0 .. (n + 1) - 1 = 0 .. n OBVIOUS
      <4> HIDE DEF h
      <4> QED BY <3>3, <3>4, <3>5, <4>1
    <3> HIDE DEF h, Begins
    <3> QED BY <3>6
  <2> HIDE DEF T
  <2>3. Nat \subseteq T BY <2>1, <2>2, UpFromZero
  <2> QED BY <2>3 DEF T
<1>2. ASSUME NEW n \in Nat, NEW g, NEW h, Begins(g, n), Begins(h, n + 1)
      PROVE  g[n] = h[n]
  <2> DEFINE T == {i \in Nat : i <= n => g[i] = h[i]}
  <2>1. 0 \in T BY <1>2
  <2>2. ASSUME NEW i \in Nat, i \in T PROVE i + 1 \in T
    <3>1. SUFFICES ASSUME i + 1 <= n PROVE g[i + 1] = h[i + 1] OBVIOUS
    <3>2. i \in 0 .. n - 1 /\ i \in 0 .. (n + 1) - 1 /\ g[i] = h[i] BY <2>2, <3>1
    <3> QED BY <1>2, <3>2
  <2> HIDE DEF T
  <2>3. n \in T BY <2>1, <2>2, UpFromZero
  <2> QED BY <2>3 DEF T
<1> DEFINE G(n) == CHOOSE g : Begins(g, n)
           f == [n \in Nat |-> G(n)[n]]
<1> HIDE DEF Begins
<1>3. \A n \in Nat : Begins(G(n), n) BY <1>1
<1> HIDE DEF G
<1>4. \A n \in Nat : f[n] \in S
  BY <1>3 DEF Begins
<1>5. f[0] = s0 BY <1>3 DEF Begins
<1>6. ASSUME NEW n \in Nat PROVE f[n + 1] = step[<<n, f[n]>>]
  <2>1. Begins(G(n), n) /\ Begins(G(n + 1), n + 1) BY <1>3
  <2>2. G(n)[n] = G(n + 1)[n] BY <1>2, <2>1
  <2>3. n \in 0 .. (n + 1) - 1 OBVIOUS
  <2>4. G(n + 1)[n + 1] = step[<<n, G(n + 1)[n]>>] BY <2>1, <2>3 DEF Begins
  <2> QED BY <2>2, <2>4
<1>7. f \in [Nat -> S] BY <1>4
<1> HIDE DEF f
<1> QED BY <1>5, <1>6, <1>7 DEF Reaches

-----------------------------------------------------------------------------
(* Sums of tallies.                                                        *)
Totals == [up : Nat, down : Nat]

LEMMA TotalsAdd ==
    ASSUME NEW of, \A k \in Int : TallyAt(of, k) \in Totals, present \in Int
    PROVE  \E total \in [Nat -> Totals] :
              /\ total[0] = NoBeats
              /\ \A n \in Nat : total[n + 1] = Plus(total[n], TallyAt(of, present - n))
              /\ \A n \in Nat : Sum(of, n) = total[n]
<1> DEFINE Adds(g) == g = [n \in Nat |-> IF n = 0 THEN NoBeats
                                         ELSE Plus(g[n - 1], TallyAt(of, present - n + 1))]
           step == [p \in Nat \X Totals |-> Plus(p[2], TallyAt(of, present - p[1]))]
           total == CHOOSE g : Adds(g)
<1>1. NoBeats \in Totals /\ \A s, t \in Totals : Plus(s, t) \in Totals
  BY DEF NoBeats, Totals, Plus
<1>2. step \in [Nat \X Totals -> Totals]
  <2>1. \A p \in Nat \X Totals : p[2] \in Totals /\ present - p[1] \in Int OBVIOUS
  <2> QED BY <1>1, <2>1
<1>3. \E g : Adds(g)
  <2>1. PICK f \in [Nat -> Totals] :
            f[0] = NoBeats /\ \A n \in Nat : f[n + 1] = step[<<n, f[n]>>]
    <3>1. NoBeats \in Totals BY <1>1
    <3> HIDE DEF step
    <3>2. Steps(step, Totals) BY <1>2 DEF Steps
    <3>3. Reaches(step, Totals, NoBeats) BY <3>1, <3>2, Recursion
    <3> QED BY <3>3, Zenon DEF Reaches
  <2>2. ASSUME NEW n \in Nat, n # 0
        PROVE  f[n] = Plus(f[n - 1], TallyAt(of, present - n + 1))
    <3>1. PICK m \in Nat : n = m + 1 BY <2>2
    <3>2. f[m + 1] = Plus(f[m], TallyAt(of, present - m)) BY <2>1
    <3>3. present - n + 1 = present - m /\ n - 1 = m BY <3>1
    <3> QED BY <3>1, <3>2, <3>3
  <2>3. f = [n \in Nat |-> f[n]] OBVIOUS
  <2>4. Adds(f) BY <2>1, <2>2, <2>3
  <2> QED BY <2>4
<1>4. Adds(total)
  <2> HIDE DEF Adds
  <2> QED BY <1>3
<1>5. \A n \in Nat : Sum(of, n) = total[n] BY DEF Sum
<1> HIDE DEF total
<1>6. total[0] = NoBeats BY <1>4
<1>7. ASSUME NEW n \in Nat PROVE total[n + 1] = Plus(total[n], TallyAt(of, present - n))
  <2>1. PICK m \in Nat : m = n + 1 OBVIOUS
  <2>2. total[m] = Plus(total[m - 1], TallyAt(of, present - m + 1)) BY <1>4, <2>1
  <2>3. present - m + 1 = present - n /\ m - 1 = n BY <2>1
  <2> QED BY <2>1, <2>2, <2>3
<1>8. total \in [Nat -> Totals]
  <2> DEFINE T == {n \in Nat : total[n] \in Totals}
  <2>1. 0 \in T BY <1>1, <1>6
  <2>2. ASSUME NEW n \in Nat, n \in T PROVE n + 1 \in T
    <3>1. TallyAt(of, present - n) \in Totals OBVIOUS
    <3> QED BY <1>1, <1>7, <2>2, <3>1
  <2> HIDE DEF T
  <2>3. Nat \subseteq T BY <2>1, <2>2, UpFromZero
  <2>4. \A n \in Nat : total[n] \in Totals BY <2>3 DEF T
  <2> QED BY <1>4, <2>4
<1> QED BY <1>5, <1>6, <1>7, <1>8

(* Sums of the same tallies are the same.                                  *)
LEMMA SumsAgree ==
    ASSUME NEW a, \A k \in Int : TallyAt(a, k) \in Totals,
           NEW b, \A k \in Int : TallyAt(b, k) \in Totals,
           present \in Int, NEW num \in Nat,
           \A k \in Int : present - num < k /\ k <= present => TallyAt(a, k) = TallyAt(b, k)
    PROVE  Sum(a, num) = Sum(b, num)
<1>1. PICK f \in [Nat -> Totals] :
          /\ f[0] = NoBeats
          /\ \A n \in Nat : f[n + 1] = Plus(f[n], TallyAt(a, present - n))
          /\ \A n \in Nat : Sum(a, n) = f[n]
  BY TotalsAdd
<1>2. PICK g \in [Nat -> Totals] :
          /\ g[0] = NoBeats
          /\ \A n \in Nat : g[n + 1] = Plus(g[n], TallyAt(b, present - n))
          /\ \A n \in Nat : Sum(b, n) = g[n]
  BY TotalsAdd
<1> DEFINE T == {n \in Nat : n <= num => f[n] = g[n]}
<1>3. 0 \in T BY <1>1, <1>2
<1>4. ASSUME NEW n \in Nat, n \in T PROVE n + 1 \in T
  <2>1. SUFFICES ASSUME n + 1 <= num PROVE f[n + 1] = g[n + 1] OBVIOUS
  <2>2. f[n] = g[n] BY <1>4, <2>1
  <2>3. PICK k \in Int : k = present - n OBVIOUS
  <2>4. present - num < k /\ k <= present BY <2>1, <2>3
  <2>5. TallyAt(a, k) = TallyAt(b, k) BY <2>4
  <2> QED BY <1>1, <1>2, <2>2, <2>3, <2>5
<1> HIDE DEF T
<1>5. num \in T BY <1>3, <1>4, UpFromZero
<1> QED BY <1>1, <1>2, <1>5 DEF T

(* A sum of nothing is of nothing.                                         *)
LEMMA NothingInNothing ==
    ASSUME NEW a, \A k \in Int : TallyAt(a, k) \in Totals, present \in Int,
           NEW num \in Nat, Sum(a, num) = NoBeats,
           NEW k \in Int, present - num < k, k <= present
    PROVE  TallyAt(a, k) = NoBeats
<1>1. PICK f \in [Nat -> Totals] :
          /\ f[0] = NoBeats
          /\ \A n \in Nat : f[n + 1] = Plus(f[n], TallyAt(a, present - n))
          /\ \A n \in Nat : Sum(a, n) = f[n]
  BY TotalsAdd
<1> DEFINE T == {n \in Nat : f[n] = NoBeats /\ present - n < k => TallyAt(a, k) = NoBeats}
<1>2. 0 \in T OBVIOUS
<1>3. ASSUME NEW n \in Nat, n \in T PROVE n + 1 \in T
  <2>1. SUFFICES ASSUME f[n + 1] = NoBeats, present - (n + 1) < k
                 PROVE  TallyAt(a, k) = NoBeats
    OBVIOUS
  <2>2. PICK t \in Totals : t = TallyAt(a, present - n)
    <3>1. present - n \in Int OBVIOUS
    <3> QED BY <3>1
  <2>3. Plus(f[n], t) = NoBeats /\ f[n] \in Totals BY <1>1, <2>1, <2>2
  <2>4. f[n] = NoBeats /\ t = NoBeats BY <2>3 DEF Plus, NoBeats, Totals
  <2>5. CASE k = present - n BY <2>2, <2>4, <2>5
  <2>6. CASE k # present - n
    <3>1. present - n < k BY <2>1, <2>6
    <3> QED BY <1>3, <2>4, <3>1
  <2> QED BY <2>5, <2>6
<1> HIDE DEF T
<1>4. num \in T BY <1>2, <1>3, UpFromZero
<1> QED BY <1>1, <1>4 DEF T

-----------------------------------------------------------------------------
(* Queues.                                                                 *)
Memories ==
    {m \in [queue : Seq(Int), tallies : UNION {[D -> Tallies] : D \in SUBSET Int}] :
        DOMAIN m.tallies = ToSet(m.queue)}

(* As long as the limit says, and in the order of the keys.                *)
Ordered(m) ==
    /\ Len(m.queue) <= Window
    /\ \A i, j \in 1 .. Len(m.queue) : i < j => m.queue[j] - m.queue[i] >= j - i

LEMMA MemoryParts ==
    ASSUME NEW m \in Memories
    PROVE  /\ m.queue \in Seq(Int) /\ Len(m.queue) \in Nat
           /\ \A i \in 1 .. Len(m.queue) : m.queue[i] \in Int
           /\ m.tallies = [x \in DOMAIN m.tallies |-> m.tallies[x]]
           /\ \A x \in DOMAIN m.tallies : x \in Int /\ m.tallies[x] \in Tallies
           /\ \A x : x \in DOMAIN m.tallies <=> \E i \in 1 .. Len(m.queue) : x = m.queue[i]
<1>1. m.queue \in Seq(Int) /\ DOMAIN m.tallies = ToSet(m.queue)
  BY DEF Memories
<1>2. PICK D \in SUBSET Int : m.tallies \in [D -> Tallies]
  BY DEF Memories
<1>3. Len(m.queue) \in Nat /\ DOMAIN m.queue = 1 .. Len(m.queue)
  BY <1>1
<1>4. \A x : x \in ToSet(m.queue) <=> \E i \in 1 .. Len(m.queue) : x = m.queue[i]
  BY <1>3 DEF ToSet
<1> QED
  BY <1>1, <1>2, <1>3, <1>4

LEMMA MemoryFrom ==
    ASSUME NEW q \in Seq(Int), NEW D, D = ToSet(q), NEW t, t = [x \in D |-> t[x]],
           \A x \in D : t[x] \in Tallies
    PROVE  [queue |-> q, tallies |-> t] \in Memories
<1>1. D \subseteq Int
  BY DEF ToSet
<1>2. t \in [D -> Tallies] /\ DOMAIN t = D
  BY Zenon
<1> QED
  BY <1>1, <1>2 DEF Memories

(* Push() behind the last key.                                             *)
LEMMA PushAdds ==
    ASSUME WindowAssumption, NEW m \in Memories, NEW k \in Int, NEW t \in Tallies,
           NEW r, r = Push(m, k, t)
    PROVE  /\ r \in Memories
           /\ (Ordered(m) /\ \A x \in DOMAIN m.tallies : x < k) =>
                 /\ Ordered(r)
                 /\ \A x \in DOMAIN r.tallies : x = k \/ x \in DOMAIN m.tallies
                 /\ k \in DOMAIN r.tallies /\ r.tallies[k] = t
                 /\ \A x \in DOMAIN r.tallies : x # k => r.tallies[x] = m.tallies[x]
                 /\ \A x \in DOMAIN m.tallies : x > k - Window => x \in DOMAIN r.tallies
<1> DEFINE longer == Append(m.queue, k)
           all == [x \in DOMAIN m.tallies \cup {k} |-> IF x = k THEN t ELSE m.tallies[x]]
           n == Len(m.queue)
<1>1. Window \in Nat /\ Window >= 1
  BY WindowAssumption
<1>2. /\ m.queue \in Seq(Int) /\ n \in Nat /\ \A i \in 1 .. n : m.queue[i] \in Int
      /\ \A x \in DOMAIN m.tallies : x \in Int /\ m.tallies[x] \in Tallies
      /\ \A x : x \in DOMAIN m.tallies <=> \E i \in 1 .. n : x = m.queue[i]
  BY MemoryParts
<1>3. /\ longer \in Seq(Int) /\ Len(longer) = n + 1
      /\ \A i \in 1 .. n : longer[i] = m.queue[i]
      /\ longer[n + 1] = k
  BY <1>2
<1>4. \A x : x \in ToSet(longer) <=> x = k \/ x \in DOMAIN m.tallies
  <2>1. \A x : x \in ToSet(longer) <=> \E i \in 1 .. n + 1 : x = longer[i]
    BY <1>3 DEF ToSet
  <2>2. \A i \in 1 .. n + 1 : i \in 1 .. n \/ i = n + 1
    BY <1>2
  <2>3. \A i \in 1 .. n : i \in 1 .. n + 1
    BY <1>2
  <2>4. n + 1 \in 1 .. n + 1
    BY <1>2
  <2> HIDE DEF longer, n
  <2> QED BY <1>2, <1>3, <2>1, <2>2, <2>3, <2>4
<1>5. DOMAIN m.tallies \cup {k} = ToSet(longer)
  BY <1>4
<1>6. \A x \in ToSet(longer) : all[x] \in Tallies
  BY <1>2, <1>4
<1>7. Ordered(m) /\ (\A x \in DOMAIN m.tallies : x < k) =>
         \A i, j \in 1 .. n + 1 : i < j => longer[j] - longer[i] >= j - i
  <2>1. SUFFICES ASSUME Ordered(m), \A x \in DOMAIN m.tallies : x < k,
                        NEW i \in 1 .. n + 1, NEW j \in 1 .. n + 1, i < j
                 PROVE  longer[j] - longer[i] >= j - i
    OBVIOUS
  <2>2. i \in 1 .. n /\ i \in Int /\ j \in Int /\ m.queue[i] \in Int
    BY <1>2, <2>1
  <2>3. CASE j \in 1 .. n
    <3>1. m.queue[j] - m.queue[i] >= j - i
      BY <2>1, <2>2, <2>3 DEF Ordered
    <3> QED BY <1>3, <2>2, <2>3, <3>1
  <2>4. CASE j = n + 1
    <3>1. m.queue[i] < k
      BY <1>2, <2>1, <2>2
    <3>2. CASE i = n
      BY <1>2, <1>3, <2>2, <2>4, <3>1, <3>2
    <3>3. CASE i # n
      <4>1. n \in 1 .. n /\ i < n
        BY <1>2, <2>2, <3>3
      <4>2. m.queue[n] - m.queue[i] >= n - i /\ m.queue[n] \in Int
        BY <1>2, <2>1, <2>2, <4>1 DEF Ordered
      <4>3. m.queue[n] < k
        BY <1>2, <2>1, <4>1
      <4>4. k - m.queue[i] >= (n + 1) - i
        <5>1. PICK a \in Int : a = m.queue[i]
          BY <2>2
        <5>2. PICK b \in Int : b = m.queue[n]
          BY <4>2
        <5>3. PICK c \in Nat : c = n
          BY <1>2
        <5> HIDE DEF n
        <5>4. b - a >= c - i /\ b < k
          BY <4>2, <4>3, <5>1, <5>2, <5>3
        <5>5. k - a >= (c + 1) - i
          BY <2>2, <5>4
        <5> QED BY <5>1, <5>3, <5>5
      <4> QED BY <1>3, <2>2, <2>4, <4>4
    <3> QED BY <3>2, <3>3
  <2>5. j \in 1 .. n \/ j = n + 1
    <3>1. n \in Nat
      BY <1>2
    <3> HIDE DEF n
    <3> QED BY <3>1, <2>1
  <2> HIDE DEF longer
  <2> QED BY <2>3, <2>4, <2>5
<1>8. CASE n + 1 <= Window
  <2>1. r = [queue |-> longer, tallies |-> all]
    BY <1>3, <1>8 DEF Push
  <2>2. r \in Memories
    <3> HIDE DEF longer
    <3>1. all = [x \in ToSet(longer) |-> all[x]]
      BY <1>5
    <3> HIDE DEF all
    <3> QED BY <1>3, <1>6, <2>1, <3>1, MemoryFrom
  <2>3. DOMAIN r.tallies = ToSet(longer) /\ \A x \in ToSet(longer) : r.tallies[x] = all[x]
    BY <1>5, <2>1
  <2>4. \A x \in ToSet(longer) : all[x] = IF x = k THEN t ELSE m.tallies[x]
    BY <1>5
  <2>5. Ordered(m) /\ (\A x \in DOMAIN m.tallies : x < k) => Ordered(r)
    <3>1. r.queue = longer
      BY <2>1
    <3>2. Len(longer) = n + 1
      BY <1>3
    <3> HIDE DEF longer, n
    <3> QED BY <1>7, <1>8, <3>1, <3>2 DEF Ordered
  <2> HIDE DEF longer, all
  <2> QED BY <1>4, <2>2, <2>3, <2>4, <2>5
<1>9. CASE ~(n + 1 <= Window)
  <2> DEFINE rest == Tail(longer)
  <2>1. r = [queue |-> rest, tallies |-> Restrict(all, ToSet(rest))]
    BY <1>3, <1>9 DEF Push
  <2>2. /\ rest \in Seq(Int) /\ Len(rest) = n
        /\ \A i \in 1 .. n : rest[i] = longer[i + 1]
    <3> HIDE DEF longer
    <3> QED BY <1>2, <1>3
  <2>3. \A x : x \in ToSet(rest) <=> \E i \in 1 .. n : x = longer[i + 1]
    <3> HIDE DEF rest, longer
    <3>1. DOMAIN rest = 1 .. n
      BY <2>2
    <3>2. \A x : x \in ToSet(rest) <=> \E i \in 1 .. n : x = rest[i]
      BY <3>1 DEF ToSet
    <3>3. \A i \in 1 .. n : rest[i] = longer[i + 1]
      BY <2>2
    <3> HIDE DEF n
    <3> QED BY <3>2, <3>3, Zenon
  <2>4. \A x : x \in ToSet(longer) <=> \E i \in 1 .. n + 1 : x = longer[i]
    BY <1>3 DEF ToSet
  <2>5. ToSet(rest) \subseteq ToSet(longer)
    <3>1. \A i \in 1 .. n : i + 1 \in 1 .. n + 1
      BY <1>2
    <3> HIDE DEF longer, rest, n
    <3> QED BY <2>3, <2>4, <3>1
  <2>6. \A x \in ToSet(longer) : x = longer[1] \/ x \in ToSet(rest)
    <3>1. SUFFICES ASSUME NEW i \in 1 .. n + 1, i # 1 PROVE longer[i] \in ToSet(rest)
      BY <2>4
    <3>2. i - 1 \in 1 .. n /\ (i - 1) + 1 = i
      BY <1>2, <3>1
    <3> HIDE DEF longer, rest, n
    <3> QED BY <2>3, <3>2
  <2>7. /\ DOMAIN r.tallies = ToSet(rest)
        /\ \A x \in ToSet(rest) : r.tallies[x] = all[x]
        /\ r.queue = rest
    BY <2>1 DEF Restrict
  <2>8. \A x \in ToSet(longer) : all[x] = IF x = k THEN t ELSE m.tallies[x]
    BY <1>5
  <2>9. r \in Memories
    <3> DEFINE few == Restrict(all, ToSet(rest))
    <3>1. few = [x \in ToSet(rest) |-> few[x]]
      BY DEF Restrict
    <3>2. \A x \in ToSet(rest) : few[x] \in Tallies
      <4>1. \A x \in ToSet(rest) : few[x] = all[x]
        <5> HIDE DEF all, rest
        <5> QED BY DEF Restrict
      <4> HIDE DEF few, all, rest, longer
      <4> QED BY <1>6, <2>5, <4>1
    <3> HIDE DEF few
    <3>3. [queue |-> rest, tallies |-> few] \in Memories
      <4> HIDE DEF rest
      <4> QED BY <2>2, <3>1, <3>2, MemoryFrom
    <3> QED BY <2>1, <3>3 DEF few
  <2>10. ASSUME Ordered(m), \A x \in DOMAIN m.tallies : x < k
         PROVE  /\ Ordered(r) /\ k \in ToSet(rest)
                /\ \A x \in DOMAIN m.tallies : x > k - Window => x \in ToSet(rest)
    <3>1. n = Window /\ n >= 1
      BY <1>1, <1>2, <1>9, <2>10 DEF Ordered
    <3>2. \A i, j \in 1 .. n + 1 : i < j => longer[j] - longer[i] >= j - i
      BY <1>7, <2>10
    <3>3. longer[1] \in Int /\ longer[1] <= k - Window
      <4>1. 1 \in 1 .. n + 1 /\ n + 1 \in 1 .. n + 1 /\ 1 < n + 1 /\ 1 \in 1 .. n
        BY <1>2, <3>1
      <4>2. longer[n + 1] - longer[1] >= (n + 1) - 1
        BY <3>2, <4>1
      <4>3. longer[1] \in Int
        BY <1>2, <1>3, <4>1
      <4> HIDE DEF longer
      <4> QED BY <1>1, <1>2, <1>3, <3>1, <4>2, <4>3
    <3>4. \A i, j \in 1 .. n : i < j => rest[j] - rest[i] >= j - i
      <4>1. SUFFICES ASSUME NEW i \in 1 .. n, NEW j \in 1 .. n, i < j
                     PROVE  rest[j] - rest[i] >= j - i
        OBVIOUS
      <4>2. i + 1 \in 1 .. n + 1 /\ j + 1 \in 1 .. n + 1 /\ i + 1 < j + 1
        BY <1>2, <4>1
      <4>3. longer[j + 1] - longer[i + 1] >= (j + 1) - (i + 1)
        BY <3>2, <4>2
      <4>4. (j + 1) - (i + 1) = j - i
        BY <4>1
      <4> HIDE DEF longer, rest
      <4> QED BY <2>2, <4>1, <4>3, <4>4
    <3>5. Ordered(r)
      <4>1. r.queue = rest /\ Len(rest) = n
        BY <2>2, <2>7
      <4> HIDE DEF rest, n
      <4>2. n <= Window
        BY <1>1, <3>1
      <4> QED BY <3>4, <4>1, <4>2 DEF Ordered
    <3>6. k \in ToSet(rest)
      <4>1. n \in 1 .. n
        BY <1>2, <3>1
      <4> HIDE DEF longer, rest
      <4> QED BY <1>3, <2>3, <4>1
    <3>7. ASSUME NEW x \in DOMAIN m.tallies, x > k - Window
          PROVE  x \in ToSet(rest)
      <4>1. x \in ToSet(longer) /\ x \in Int
        BY <1>2, <1>4
      <4>2. x # longer[1]
        <5> HIDE DEF longer
        <5> QED BY <1>1, <3>3, <3>7, <4>1
      <4> QED BY <2>6, <4>1, <4>2
    <3> QED BY <3>5, <3>6, <3>7
  <2> HIDE DEF longer, all, rest
  <2> QED BY <1>4, <2>5, <2>7, <2>8, <2>9, <2>10
<1> QED BY <1>2, <1>8, <1>9

LEMMA EmptyMemory ==
    ASSUME WindowAssumption
    PROVE  NoMemory \in Memories /\ Ordered(NoMemory) /\ DOMAIN NoMemory.tallies = {}
<1>1. /\ <<>> \in Seq(Int) /\ ToSet(<<>>) = {} /\ DOMAIN <<>> = {} /\ Len(<<>>) = 0
      /\ <<>> = [x \in {} |-> <<>>[x]]
  BY DEF ToSet
<1>2. NoMemory \in Memories
  BY <1>1, MemoryFrom DEF NoMemory
<1> QED
  BY <1>1, <1>2, WindowAssumption DEF NoMemory, Ordered

(* The load: the rows behind the oldest key that fit into the window, and  *)
(* of the key itself what nobody looks at.                                 *)
LEMMA LoadedIs ==
    ASSUME WindowAssumption, present \in Int, DOMAIN statRows \subseteq Int,
           \A x \in DOMAIN statRows : statRows[x] \in Tallies
    PROVE  /\ Loaded \in Memories /\ Ordered(Loaded)
           /\ \A x \in DOMAIN Loaded.tallies : x <= present
           /\ \A x \in Int : present - Window < x /\ x <= present =>
                 /\ x \in DOMAIN Loaded.tallies <=> x \in DOMAIN statRows
                 /\ x \in DOMAIN statRows => Loaded.tallies[x] = statRows[x]
<1> DEFINE oldest == present - Window
           first == WithKey(NoMemory, oldest)
           Moved(m, n) == IF oldest + n \in DOMAIN statRows
                          THEN Push(m, oldest + n, statRows[oldest + n])
                          ELSE m
           Walks(g) == g = [n \in Nat |-> IF n = 0 THEN first
                                          ELSE IF oldest + n \in DOMAIN statRows
                                               THEN Push(g[n - 1], oldest + n, statRows[oldest + n])
                                               ELSE g[n - 1]]
           step == [p \in Nat \X Memories |-> Moved(p[2], p[1] + 1)]
           upTo == CHOOSE g : Walks(g)
<1>1. Window \in Nat /\ Window >= 1 /\ oldest \in Int /\ NoBeats \in Tallies
  BY WindowAssumption DEF NoBeats, Tallies
<1>2. first \in Memories /\ Ordered(first) /\ DOMAIN first.tallies = {oldest}
  <2>1. first = Push(NoMemory, oldest, NoBeats)
    BY EmptyMemory DEF WithKey
  <2> HIDE DEF oldest, first
  <2>2. first \in Memories /\ Ordered(first) /\ oldest \in DOMAIN first.tallies
        /\ \A x \in DOMAIN first.tallies : x = oldest
    BY <1>1, <2>1, EmptyMemory, PushAdds
  <2> QED BY <2>2
<1> HIDE DEF oldest, first
<1>3. \A m \in Memories, n \in Nat : Moved(m, n) \in Memories
  <2>1. SUFFICES ASSUME NEW m \in Memories, NEW n \in Nat, oldest + n \in DOMAIN statRows
                 PROVE  Push(m, oldest + n, statRows[oldest + n]) \in Memories
    OBVIOUS
  <2>2. PICK k \in Int : k = oldest + n
    BY <1>1
  <2>3. PICK t \in Tallies : t = statRows[oldest + n]
    BY <2>1
  <2> QED BY <2>2, <2>3, PushAdds
<1>4. step \in [Nat \X Memories -> Memories]
  <2>1. \A p \in Nat \X Memories : p[2] \in Memories /\ p[1] + 1 \in Nat
    OBVIOUS
  <2> HIDE DEF Moved
  <2> QED BY <1>3, <2>1
<1>5. \E g : Walks(g)
  <2>1. PICK f \in [Nat -> Memories] :
            f[0] = first /\ \A n \in Nat : f[n + 1] = step[<<n, f[n]>>]
    <3> HIDE DEF step
    <3>1. Steps(step, Memories) BY <1>4 DEF Steps
    <3>2. Reaches(step, Memories, first) BY <1>2, <3>1, Recursion
    <3> QED BY <3>2, Zenon DEF Reaches
  <2>2. ASSUME NEW n \in Nat, n # 0 PROVE f[n] = Moved(f[n - 1], n)
    <3>1. PICK i \in Nat : n = i + 1
      BY <2>2
    <3>2. f[i + 1] = Moved(f[i], i + 1)
      <4>1. <<i, f[i]>> \in Nat \X Memories
        BY <2>1
      <4> HIDE DEF Moved
      <4> QED BY <2>1, <4>1
    <3>3. n - 1 = i
      BY <3>1
    <3> HIDE DEF Moved
    <3> QED BY <3>1, <3>2, <3>3
  <2>3. f = [n \in Nat |-> f[n]]
    OBVIOUS
  <2>4. Walks(f)
    <3>1. f = [n \in Nat |-> IF n = 0 THEN first ELSE Moved(f[n - 1], n)]
      <4> HIDE DEF Moved
      <4> QED BY <2>1, <2>2, <2>3
    <3> QED BY <3>1
  <2> QED BY <2>4
<1>6. Walks(upTo)
  <2> HIDE DEF Walks
  <2> QED BY <1>5
<1>7. Loaded = upTo[Window]
  BY DEF Loaded, oldest, first
<1> HIDE DEF upTo
<1>8. upTo[0] = first /\ \A n \in Nat : upTo[n + 1] = Moved(upTo[n], n + 1)
  <2>1. upTo[0] = first
    BY <1>6
  <2>2. ASSUME NEW n \in Nat PROVE upTo[n + 1] = Moved(upTo[n], n + 1)
    <3>1. PICK i \in Nat : i = n + 1
      OBVIOUS
    <3>2. upTo[i] = Moved(upTo[i - 1], i)
      BY <1>6, <3>1
    <3>3. i - 1 = n
      BY <3>1
    <3> HIDE DEF Moved
    <3> QED BY <3>1, <3>2, <3>3
  <2> QED BY <2>1, <2>2
<1> DEFINE Walked(n) ==
        /\ upTo[n] \in Memories /\ Ordered(upTo[n])
        /\ \A x \in DOMAIN upTo[n].tallies : x <= oldest + n
        /\ \A x \in Int : oldest < x =>
              /\ x \in DOMAIN upTo[n].tallies <=> x \in DOMAIN statRows /\ x <= oldest + n
              /\ x \in DOMAIN upTo[n].tallies => upTo[n].tallies[x] = statRows[x]
           T == {n \in Nat : n <= Window => Walked(n)}
<1>9. 0 \in T
  BY <1>1, <1>2, <1>8
<1>10. ASSUME NEW n \in Nat, n \in T PROVE n + 1 \in T
  <2>1. SUFFICES ASSUME n + 1 <= Window PROVE Walked(n + 1)
    OBVIOUS
  <2>2. PICK m \in Memories : m = upTo[n]
    BY <1>1, <1>10, <2>1
  <2>3. PICK k \in Int : k = oldest + (n + 1)
    BY <1>1
  <2>4. PICK r : r = upTo[n + 1]
    OBVIOUS
  <2>5. /\ Ordered(m) /\ \A x \in DOMAIN m.tallies : x <= k - 1
        /\ \A x \in Int : oldest < x =>
              /\ x \in DOMAIN m.tallies <=> x \in DOMAIN statRows /\ x <= k - 1
              /\ x \in DOMAIN m.tallies => m.tallies[x] = statRows[x]
    <3>1. Walked(n) /\ k - 1 = oldest + n
      BY <1>1, <1>10, <2>1, <2>3
    <3> QED BY <2>2, <3>1
  <2>6. \A x \in DOMAIN m.tallies : x \in Int
    BY MemoryParts
  <2>7. /\ r \in Memories /\ Ordered(r)
        /\ \A x \in DOMAIN r.tallies : x <= k
        /\ \A x \in Int : oldest < x =>
              /\ x \in DOMAIN r.tallies <=> x \in DOMAIN statRows /\ x <= k
              /\ x \in DOMAIN r.tallies => r.tallies[x] = statRows[x]
    <3>1. CASE k \in DOMAIN statRows
      <4>1. PICK t \in Tallies : t = statRows[k]
        BY <3>1
      <4>2. r = Push(m, k, t)
        BY <1>8, <2>2, <2>3, <2>4, <3>1, <4>1
      <4>3. \A x \in DOMAIN m.tallies : x < k
        BY <2>5, <2>6
      <4>4. /\ r \in Memories /\ Ordered(r)
            /\ \A x \in DOMAIN r.tallies : x = k \/ x \in DOMAIN m.tallies
            /\ k \in DOMAIN r.tallies /\ r.tallies[k] = t
            /\ \A x \in DOMAIN r.tallies : x # k => r.tallies[x] = m.tallies[x]
            /\ \A x \in DOMAIN m.tallies : x > k - Window => x \in DOMAIN r.tallies
        BY <2>5, <4>2, <4>3, PushAdds
      <4>5. \A x \in Int : oldest < x => x > k - Window
        BY <1>1, <2>1, <2>3
      <4>6. \A x \in DOMAIN r.tallies : x <= k
        BY <2>5, <2>6, <4>4
      <4>7. ASSUME NEW x \in Int, oldest < x
            PROVE  /\ x \in DOMAIN r.tallies <=> x \in DOMAIN statRows /\ x <= k
                   /\ x \in DOMAIN r.tallies => r.tallies[x] = statRows[x]
        <5>1. CASE x = k
          BY <3>1, <4>1, <4>4, <5>1
        <5>2. CASE x # k
          <6>1. x <= k <=> x <= k - 1
            BY <5>2
          <6>2. x \in DOMAIN r.tallies <=> x \in DOMAIN m.tallies
            BY <4>4, <4>5, <4>7, <5>2
          <6> QED BY <2>5, <4>4, <4>7, <5>2, <6>1, <6>2
        <5> QED BY <5>1, <5>2
      <4> QED BY <4>4, <4>6, <4>7
    <3>2. CASE k \notin DOMAIN statRows
      <4>1. r = m
        BY <1>8, <2>2, <2>3, <2>4, <3>2
      <4>2. \A x \in Int : x # k => (x <= k <=> x <= k - 1)
        OBVIOUS
      <4>3. \A x \in Int : x <= k - 1 => x <= k
        OBVIOUS
      <4> QED BY <2>5, <2>6, <3>2, <4>1, <4>2, <4>3
    <3> QED BY <3>1, <3>2
  <2> QED BY <2>3, <2>4, <2>7
<1> HIDE DEF T
<1>11. Window \in T
  BY <1>1, <1>9, <1>10, UpFromZero
<1>12. Walked(Window)
  BY <1>1, <1>11 DEF T
<1>13. oldest + Window = present
  BY <1>1 DEF oldest
<1>14. \A x \in Int : present - Window < x <=> oldest < x
  BY DEF oldest
<1> QED
  BY <1>7, <1>12, <1>13, <1>14

-----------------------------------------------------------------------------
(* What a calculator knows of the last buckets is what there was, but for  *)
(* buckets whose rows have been removed.                                   *)
Remembers(m) ==
    /\ m \in Memories /\ Ordered(m)
    /\ \A x \in DOMAIN m.tallies :
          /\ x <= present
          /\ x > present - Window => x \in Buckets /\ m.tallies[x] = beatsAt[x]
    /\ \A k \in Buckets :
          k > present - Window /\ k \notin removed /\ beatsAt[k] # NoBeats
            => k \in DOMAIN m.tallies

(* The rows a load asks for are those of the beats.                        *)
StatInv ==
    /\ DOMAIN statRows \subseteq 0 .. present
    /\ \A k \in DOMAIN statRows : statRows[k] = beatsAt[k]
    /\ \A k \in Buckets : beatsAt[k] # NoBeats =>
          /\ k <= present
          /\ k >= present - Window /\ k \notin removed => k \in DOMAIN statRows
    /\ \A k \in removed : k < present

LastInv == lastTally = NoBeats \/ \E k \in 0 .. present : lastTally = beatsAt[k]

Queued == [queue |-> queue, tallies |-> tallies]

WindowInv ==
    /\ WindowTypeOK
    /\ opened => Remembers(Queued)
    /\ StatInv /\ LastInv

LEMMA WindowFacts ==
    ASSUME WindowTypeOK, WindowAssumption
    PROVE  /\ present \in Nat /\ present \in Int /\ Window \in Nat /\ Window >= 1
           /\ present \in Buckets /\ 0 .. present \subseteq Buckets /\ Buckets \subseteq Int
           /\ \A k \in Buckets : beatsAt[k] \in Tallies
           /\ \A k \in DOMAIN statRows : k \in Buckets /\ statRows[k] \in Tallies
           /\ NoBeats \in Tallies /\ Tallies \subseteq Totals
BY DEF WindowTypeOK, WindowAssumption, Buckets, NoBeats, Tallies, Totals

LEMMA LoadedRemembers ==
    ASSUME WindowInv, WindowAssumption
    PROVE  Remembers(Loaded)
<1>1. WindowTypeOK /\ StatInv
  BY DEF WindowInv
<1>2. /\ present \in Int /\ 0 .. present \subseteq Buckets /\ Buckets \subseteq Int
      /\ DOMAIN statRows \subseteq Int /\ \A x \in DOMAIN statRows : statRows[x] \in Tallies
  BY <1>1, WindowFacts
<1>3. /\ Loaded \in Memories /\ Ordered(Loaded)
      /\ \A x \in DOMAIN Loaded.tallies : x <= present
      /\ \A x \in Int : present - Window < x /\ x <= present =>
            /\ x \in DOMAIN Loaded.tallies <=> x \in DOMAIN statRows
            /\ x \in DOMAIN statRows => Loaded.tallies[x] = statRows[x]
  BY <1>2, LoadedIs
<1>4. \A x \in DOMAIN Loaded.tallies : x \in Int
  BY <1>3, MemoryParts
<1>5. ASSUME NEW x \in DOMAIN Loaded.tallies, x > present - Window
      PROVE  x \in Buckets /\ Loaded.tallies[x] = beatsAt[x]
  <2>1. present - Window < x /\ x <= present
    BY <1>2, <1>3, <1>4, <1>5, WindowAssumption
  <2>2. x \in DOMAIN statRows /\ Loaded.tallies[x] = statRows[x]
    BY <1>3, <1>4, <2>1
  <2> QED BY <1>1, <1>2, <2>2 DEF StatInv
<1>6. ASSUME NEW k \in Buckets, k > present - Window, k \notin removed, beatsAt[k] # NoBeats
      PROVE  k \in DOMAIN Loaded.tallies
  <2>1. k \in Int /\ present - Window < k /\ k <= present /\ k >= present - Window
    BY <1>1, <1>2, <1>6, WindowAssumption DEF StatInv
  <2>2. k \in DOMAIN statRows
    BY <1>1, <1>6, <2>1 DEF StatInv
  <2> QED BY <1>3, <2>1, <2>2
<1> QED
  BY <1>3, <1>5, <1>6 DEF Remembers

LEMMA MemoryRemembers ==
    ASSUME WindowInv, WindowAssumption
    PROVE  /\ Remembers(Memory) /\ present \in DOMAIN Memory.tallies
           /\ Memory.tallies[present] = beatsAt[present]
<1>1. WindowTypeOK /\ StatInv
  BY DEF WindowInv
<1>2. /\ present \in Int /\ present \in Buckets /\ NoBeats \in Tallies /\ Window \in Nat
      /\ Window >= 1 /\ present \notin removed
  <2>1. \A k \in removed : k < present
    BY <1>1 DEF StatInv
  <2> QED BY <1>1, <2>1, WindowFacts
<1>3. PICK m : /\ m = IF opened THEN Queued ELSE Loaded
               /\ Remembers(m)
  BY LoadedRemembers DEF WindowInv
<1>4. Memory = WithKey(m, present)
  BY <1>3 DEF Memory, Queued
<1>5. PICK r : r = Memory
  OBVIOUS
<1>6. CASE present \in DOMAIN m.tallies
  <2>1. Memory = m
    BY <1>4, <1>6 DEF WithKey
  <2> QED BY <1>2, <1>3, <1>6, <2>1 DEF Remembers
<1>7. CASE present \notin DOMAIN m.tallies
  <2>1. r = Push(m, present, NoBeats)
    BY <1>4, <1>5, <1>7 DEF WithKey
  <2>2. m \in Memories /\ Ordered(m) /\ \A x \in DOMAIN m.tallies : x \in Int /\ x <= present
    BY <1>3, MemoryParts DEF Remembers
  <2>3. \A x \in DOMAIN m.tallies : x < present
    BY <1>2, <1>7, <2>2
  <2>4. /\ r \in Memories /\ Ordered(r)
        /\ \A x \in DOMAIN r.tallies : x = present \/ x \in DOMAIN m.tallies
        /\ present \in DOMAIN r.tallies /\ r.tallies[present] = NoBeats
        /\ \A x \in DOMAIN r.tallies : x # present => r.tallies[x] = m.tallies[x]
        /\ \A x \in DOMAIN m.tallies : x > present - Window => x \in DOMAIN r.tallies
    BY <1>2, <2>1, <2>2, <2>3, PushAdds
  <2>5. beatsAt[present] = NoBeats
    <3>1. present > present - Window
      BY <1>2
    <3> QED BY <1>2, <1>3, <1>7, <3>1 DEF Remembers
  <2>6. \A x \in DOMAIN r.tallies :
            /\ x <= present
            /\ x > present - Window => x \in Buckets /\ r.tallies[x] = beatsAt[x]
    <3>1. SUFFICES ASSUME NEW x \in DOMAIN r.tallies
                   PROVE  /\ x <= present
                          /\ x > present - Window => x \in Buckets /\ r.tallies[x] = beatsAt[x]
      OBVIOUS
    <3>2. CASE x = present
      BY <1>2, <2>4, <2>5, <3>2
    <3>3. CASE x # present
      BY <1>3, <2>4, <3>1, <3>3 DEF Remembers
    <3> QED BY <3>2, <3>3
  <2>7. \A k \in Buckets : k > present - Window /\ k \notin removed /\ beatsAt[k] # NoBeats
                             => k \in DOMAIN r.tallies
    BY <1>3, <2>4 DEF Remembers
  <2>8. Remembers(r)
    BY <2>4, <2>6, <2>7 DEF Remembers
  <2> QED BY <1>5, <2>4, <2>5, <2>8
<1> QED BY <1>6, <1>7

(* Memory as the variables keep it.                                        *)
LEMMA KeptTypes ==
    ASSUME NEW m, m \in Memories, Ordered(m), Keeps(m)
    PROVE  /\ opened' = TRUE /\ Queued' = m
           /\ DOMAIN tallies' \subseteq Int /\ \A k \in DOMAIN tallies' : tallies'[k] \in Tallies
           /\ ToSet(queue') = DOMAIN tallies' /\ Len(queue') <= Window
<1>1. queue' = m.queue /\ tallies' = m.tallies /\ opened' = TRUE
  BY DEF Keeps
<1>2. m = [queue |-> m.queue, tallies |-> m.tallies]
  BY DEF Memories
<1>3. \A x \in DOMAIN m.tallies : x \in Int /\ m.tallies[x] \in Tallies
  BY MemoryParts
<1> QED
  BY <1>1, <1>2, <1>3 DEF Memories, Ordered, Queued

LEMMA AskKeepsWindow ==
    ASSUME WindowInv, WindowAssumption, AskForData
    PROVE  WindowInv'
<1>1. Remembers(Memory) /\ Keeps(Memory)
      /\ UNCHANGED <<daily, present, statRows, lastTally, beatsAt, removed>>
  BY MemoryRemembers DEF AskForData
<1>2. PICK m : m = Memory
  OBVIOUS
<1>3. m \in Memories /\ Ordered(m) /\ Keeps(m) /\ Remembers(m)
  BY <1>1, <1>2 DEF Remembers
<1>4. /\ opened' = TRUE /\ Queued' = m
      /\ DOMAIN tallies' \subseteq Int /\ \A k \in DOMAIN tallies' : tallies'[k] \in Tallies
      /\ ToSet(queue') = DOMAIN tallies' /\ Len(queue') <= Window
  BY <1>3, KeptTypes
<1>5. WindowTypeOK'
  BY <1>1, <1>4 DEF WindowInv, WindowTypeOK
<1>6. Remembers(m)'
  BY <1>1, <1>3 DEF Remembers
<1>7. Remembers(Queued)'
  BY <1>4, <1>6 DEF Remembers
<1> QED
  BY <1>1, <1>5, <1>7 DEF WindowInv, StatInv, LastInv

LEMMA CountKeepsWindow ==
    ASSUME WindowInv, WindowAssumption, NEW status \in {"up", "down", "maintenance"},
           CountBeat(status)
    PROVE  WindowInv'
<1>0. WindowTypeOK /\ StatInv
  BY DEF WindowInv
<1>1. PICK m : m = Memory
  OBVIOUS
<1>2. /\ m \in Memories /\ Ordered(m) /\ Remembers(m)
      /\ present \in DOMAIN m.tallies /\ m.tallies[present] = beatsAt[present]
  BY <1>1, MemoryRemembers DEF Remembers
<1>3. PICK t : t = Tallied(beatsAt[present], status)
  OBVIOUS
<1>4. /\ t \in Tallies
      /\ Keeps([m EXCEPT !.tallies[present] = t])
      /\ lastTally' = t
      /\ statRows' = [k \in {x \in DOMAIN statRows : daily \/ x >= present - Window} \cup {present}
                        |-> IF k = present THEN t ELSE statRows[k]]
      /\ beatsAt' = [beatsAt EXCEPT ![present] = Tallied(beatsAt[present], status)]
      /\ UNCHANGED <<daily, present, removed>>
  BY <1>1, <1>2, <1>3 DEF CountBeat
<1>5. /\ present \in Int /\ present \in Buckets /\ 0 .. present \subseteq Buckets
      /\ Buckets \subseteq Int /\ Window \in Nat /\ present \in 0 .. present
      /\ \A k \in DOMAIN statRows : k \in Buckets /\ statRows[k] \in Tallies
  BY <1>0, WindowFacts
<1>6. /\ beatsAt \in [Buckets -> Tallies] /\ beatsAt'[present] = t
      /\ \A k \in Buckets : k # present => beatsAt'[k] = beatsAt[k]
      /\ beatsAt' \in [Buckets -> Tallies]
  BY <1>0, <1>3, <1>4, <1>5 DEF WindowTypeOK
<1>7. PICK r : r = [m EXCEPT !.tallies[present] = t]
  OBVIOUS
<1>8. /\ m.queue \in Seq(Int)
      /\ \A x \in DOMAIN m.tallies : x \in Int /\ m.tallies[x] \in Tallies
      /\ DOMAIN m.tallies = ToSet(m.queue)
      /\ m = [queue |-> m.queue, tallies |-> m.tallies]
  BY <1>2, MemoryParts DEF Memories
<1>9. PICK f : f = [x \in DOMAIN m.tallies |-> IF x = present THEN t ELSE m.tallies[x]]
  OBVIOUS
<1>10. r = [queue |-> m.queue, tallies |-> f]
  <2>1. f = [m.tallies EXCEPT ![present] = t]
    BY <1>9
  <2> QED BY <1>7, <1>8, <2>1
<1>11. r \in Memories
  <2>1. f = [x \in DOMAIN m.tallies |-> f[x]] /\ \A x \in DOMAIN m.tallies : f[x] \in Tallies
    BY <1>4, <1>8, <1>9
  <2> QED BY <1>8, <1>10, <2>1, MemoryFrom
<1>12. Ordered(r)
  BY <1>2, <1>10 DEF Ordered
<1>13. /\ opened' = TRUE /\ Queued' = r
       /\ DOMAIN tallies' \subseteq Int /\ \A k \in DOMAIN tallies' : tallies'[k] \in Tallies
       /\ ToSet(queue') = DOMAIN tallies' /\ Len(queue') <= Window
  BY <1>4, <1>7, <1>11, <1>12, KeptTypes
<1>14. Remembers(r)'
  <2>1. /\ DOMAIN r.tallies = DOMAIN m.tallies /\ r.tallies[present] = t
        /\ \A x \in DOMAIN m.tallies : x # present => r.tallies[x] = m.tallies[x]
    BY <1>2, <1>9, <1>10
  <2>2. ASSUME NEW x \in DOMAIN m.tallies
        PROVE  /\ x <= present
               /\ x > present - Window => x \in Buckets /\ r.tallies[x] = beatsAt'[x]
    <3>1. CASE x = present
      BY <1>5, <1>6, <2>1, <3>1
    <3>2. CASE x # present
      BY <1>2, <1>6, <2>1, <2>2, <3>2 DEF Remembers
    <3> QED BY <3>1, <3>2
  <2>3. ASSUME NEW k \in Buckets, k > present - Window, k \notin removed, beatsAt'[k] # NoBeats
        PROVE  k \in DOMAIN m.tallies
    <3>1. CASE k = present
      BY <1>2, <3>1
    <3>2. CASE k # present
      BY <1>2, <1>6, <2>3, <3>2 DEF Remembers
    <3> QED BY <3>1, <3>2
  <2> QED BY <1>4, <1>11, <1>12, <2>1, <2>2, <2>3 DEF Remembers
<1>15. Remembers(Queued)'
  BY <1>13, <1>14 DEF Remembers
<1>16. /\ \A k \in DOMAIN statRows' : k = present \/ k \in DOMAIN statRows
       /\ present \in DOMAIN statRows' /\ statRows'[present] = t
       /\ \A k \in DOMAIN statRows' : k # present => statRows'[k] = statRows[k]
       /\ \A k \in DOMAIN statRows : k >= present - Window => k \in DOMAIN statRows'
  BY <1>4
<1>17. StatInv'
  <2>1. DOMAIN statRows' \subseteq 0 .. present
    BY <1>0, <1>5, <1>16 DEF StatInv
  <2>2. ASSUME NEW k \in DOMAIN statRows' PROVE statRows'[k] = beatsAt'[k]
    <3>1. CASE k = present
      BY <1>6, <1>16, <3>1
    <3>2. CASE k # present
      <4>1. k \in DOMAIN statRows /\ k \in Buckets
        BY <1>5, <1>16, <3>2
      <4> QED BY <1>0, <1>6, <1>16, <3>2, <4>1 DEF StatInv
    <3> QED BY <3>1, <3>2
  <2>3. ASSUME NEW k \in Buckets, beatsAt'[k] # NoBeats
        PROVE  /\ k <= present
               /\ k >= present - Window /\ k \notin removed => k \in DOMAIN statRows'
    <3>1. CASE k = present
      BY <1>5, <1>16, <3>1
    <3>2. CASE k # present
      <4>1. beatsAt[k] # NoBeats
        BY <1>6, <2>3, <3>2
      <4> QED BY <1>0, <1>16, <4>1 DEF StatInv
    <3> QED BY <3>1, <3>2
  <2>4. \A k \in removed : k < present
    BY <1>0 DEF StatInv
  <2> QED BY <1>4, <2>1, <2>2, <2>3, <2>4 DEF StatInv
<1>18. LastInv'
  BY <1>4, <1>5, <1>6 DEF LastInv
<1>19. WindowTypeOK'
  <2>1. \A k \in DOMAIN statRows' : k \in Buckets /\ statRows'[k] \in Tallies
    BY <1>4, <1>5, <1>16
  <2> QED BY <1>0, <1>4, <1>6, <1>13, <2>1 DEF WindowTypeOK
<1> QED
  BY <1>15, <1>17, <1>18, <1>19 DEF WindowInv

LEMMA OthersKeepWindow ==
    ASSUME WindowInv, WindowAssumption,
           \/ BucketPasses \/ ServerRestarts \/ UNCHANGED windowVars
           \/ \E period \in 0 .. Window : OldRowsRemoved(period)
    PROVE  WindowInv'
<1>0. WindowTypeOK /\ StatInv /\ LastInv /\ (opened => Remembers(Queued))
  BY DEF WindowInv
<1>1. /\ present \in Int /\ present \in Nat /\ present \in Buckets /\ 0 .. present \subseteq Buckets
      /\ Buckets \subseteq Int /\ Window \in Nat /\ LastBucket \in Nat
      /\ \A k \in DOMAIN statRows : k \in Buckets /\ statRows[k] \in Tallies
      /\ NoBeats \in Tallies
  BY <1>0, WindowFacts, WindowAssumption
<1>2. CASE UNCHANGED windowVars
  BY <1>0, <1>2
  DEF windowVars, WindowInv, WindowTypeOK, StatInv, LastInv, Remembers, Queued
<1>3. CASE BucketPasses
  <2>1. /\ present < LastBucket /\ present' = present + 1
        /\ UNCHANGED <<daily, statRows, queue, tallies, lastTally, opened, beatsAt, removed>>
    BY <1>3 DEF BucketPasses
  <2>2. present' \in Buckets
    BY <1>1, <2>1 DEF Buckets
  <2>3. WindowTypeOK'
    BY <1>0, <2>1, <2>2 DEF WindowTypeOK
  <2>4. \A k \in Int : k <= present => k <= present'
    BY <1>1, <2>1
  <2>5. \A k \in Int : k > present' - Window => k > present - Window
    BY <1>1, <2>1
  <2>6. ASSUME opened' PROVE Remembers(Queued)'
    <3>1. PICK m : m = Queued
      OBVIOUS
    <3>2. Remembers(m) /\ \A x \in DOMAIN m.tallies : x \in Int
      <4>1. Remembers(m)
        BY <1>0, <2>1, <2>6, <3>1
      <4> QED BY <4>1, MemoryParts DEF Remembers
    <3>3. Remembers(m)'
      BY <1>1, <2>1, <2>4, <2>5, <3>2 DEF Remembers
    <3>4. Queued' = m
      BY <2>1, <3>1 DEF Queued
    <3> QED BY <3>3, <3>4 DEF Remembers
  <2>7. StatInv'
    <3>1. 0 .. present \subseteq 0 .. present'
      BY <1>1, <2>1
    <3>2. \A k \in Int : k >= present' - Window => k >= present - Window
      BY <1>1, <2>1
    <3>3. \A k \in removed : k \in Int /\ k < present'
      BY <1>0, <1>1, <2>1 DEF StatInv, WindowTypeOK
    <3>4. \A k \in Buckets : beatsAt[k] # NoBeats => k <= present'
      BY <1>0, <1>1, <2>4 DEF StatInv
    <3> QED BY <1>0, <1>1, <2>1, <3>1, <3>2, <3>3, <3>4 DEF StatInv
  <2>8. LastInv'
    <3>1. 0 .. present \subseteq 0 .. present'
      BY <1>1, <2>1
    <3> QED BY <1>0, <2>1, <3>1 DEF LastInv
  <2> QED BY <2>3, <2>6, <2>7, <2>8 DEF WindowInv
<1>4. CASE ServerRestarts
  <2>1. /\ opened' = FALSE /\ lastTally' = NoBeats /\ queue' = <<>> /\ tallies' = <<>>
        /\ UNCHANGED <<daily, present, statRows, beatsAt, removed>>
    BY <1>4 DEF ServerRestarts
  <2>2. WindowTypeOK'
    <3>1. DOMAIN tallies' = {} /\ ToSet(queue') = {} /\ Len(queue') <= Window
      BY <1>1, <2>1 DEF ToSet
    <3> QED BY <1>0, <1>1, <2>1, <3>1 DEF WindowTypeOK
  <2> QED BY <1>0, <2>1, <2>2 DEF WindowInv, StatInv, LastInv
<1>5. ASSUME NEW period \in 0 .. Window, OldRowsRemoved(period) PROVE WindowInv'
  <2> DEFINE kept == {k \in DOMAIN statRows : k >= present - period}
  <2>1. /\ period \in Int /\ period >= 1 /\ period <= Window
        /\ statRows' = Restrict(statRows, kept)
        /\ removed' = removed \cup (DOMAIN statRows \ kept)
        /\ UNCHANGED <<daily, present, queue, tallies, lastTally, opened, beatsAt>>
    BY <1>1, <1>5 DEF OldRowsRemoved
  <2>2. /\ DOMAIN statRows' = kept /\ kept \subseteq DOMAIN statRows
        /\ \A k \in kept : statRows'[k] = statRows[k]
    BY <2>1 DEF Restrict
  <2>3. \A k \in DOMAIN statRows : k \notin removed' => k \in kept
    BY <2>1
  <2>4. \A k \in removed' : k < present /\ k \in Buckets
    <3>1. ASSUME NEW k \in DOMAIN statRows \ kept PROVE k \in Int /\ k < present
      <4>1. k \in DOMAIN statRows /\ k \in Int /\ ~(k >= present - period)
        BY <1>1
      <4> HIDE DEF kept
      <4> QED BY <1>1, <2>1, <4>1
    <3> QED BY <1>0, <1>1, <2>1, <3>1 DEF StatInv, WindowTypeOK
  <2>5. removed \subseteq removed'
    BY <2>1
  <2> HIDE DEF kept
  <2>6. WindowTypeOK'
    <3>1. \A k \in DOMAIN statRows' : k \in Buckets /\ statRows'[k] \in Tallies
      BY <1>1, <2>2
    <3>2. removed' \subseteq Buckets
      BY <2>4
    <3> QED BY <1>0, <2>1, <3>1, <3>2 DEF WindowTypeOK
  <2>7. StatInv'
    BY <1>0, <2>1, <2>2, <2>3, <2>4, <2>5 DEF StatInv
  <2>8. ASSUME opened' PROVE Remembers(Queued)'
    <3>1. PICK m : m = Queued
      OBVIOUS
    <3>2. Remembers(m)
      BY <1>0, <2>1, <2>8, <3>1
    <3>3. Remembers(m)'
      BY <2>1, <2>5, <3>2 DEF Remembers
    <3>4. Queued' = m
      BY <2>1, <3>1 DEF Queued
    <3> QED BY <3>3, <3>4 DEF Remembers
  <2>9. LastInv'
    BY <1>0, <2>1 DEF LastInv
  <2> QED BY <2>6, <2>7, <2>8, <2>9 DEF WindowInv
<1> QED
  BY <1>2, <1>3, <1>4, <1>5

LEMMA WindowStep == WindowInv /\ [WindowNext]_windowVars => WindowInv'
<1> SUFFICES ASSUME WindowInv, [WindowNext]_windowVars PROVE WindowInv'
  OBVIOUS
<1> QED
  BY WindowAssumption, AskKeepsWindow, CountKeepsWindow, OthersKeepWindow DEF WindowNext

LEMMA WindowBegins == WindowInit => WindowInv
<1> SUFFICES ASSUME WindowInit PROVE WindowInv
  OBVIOUS
<1>1. /\ NoBeats \in Tallies /\ 0 \in Buckets /\ Window \in Nat
      /\ DOMAIN statRows = {} /\ DOMAIN tallies = {} /\ ToSet(queue) = {} /\ Len(queue) = 0
  BY WindowAssumption DEF WindowInit, NoBeats, Tallies, Buckets, ToSet
<1>2. WindowTypeOK
  BY <1>1 DEF WindowInit, WindowTypeOK
<1> QED
  BY <1>1, <1>2 DEF WindowInit, WindowInv, StatInv, LastInv

LEMMA WindowIsShown == WindowInv => UptimeIsOfWindow
<1> SUFFICES ASSUME WindowInv, \E k \in Buckets : beatsAt[k] # NoBeats
             PROVE  UptimeIsOfWindow
  BY DEF UptimeIsOfWindow
<1>0. WindowTypeOK /\ StatInv /\ LastInv
  BY DEF WindowInv
<1>1. /\ present \in Int /\ present \in Nat /\ Window \in Nat /\ Buckets \subseteq Int
      /\ \A k \in Buckets : beatsAt[k] \in Tallies
      /\ NoBeats \in Tallies /\ Tallies \subseteq Totals /\ DOMAIN beatsAt = Buckets
  BY <1>0, WindowFacts, WindowAssumption DEF WindowTypeOK
<1>2. PICK m : m = Memory
  OBVIOUS
<1>3. Remembers(m)
  BY <1>2, MemoryRemembers, WindowAssumption
<1>4. \A k \in Int : TallyAt(m.tallies, k) \in Totals /\ TallyAt(beatsAt, k) \in Totals
  <2>1. \A x \in DOMAIN m.tallies : x \in Int /\ m.tallies[x] \in Tallies
    BY <1>3, MemoryParts DEF Remembers
  <2> QED BY <1>1, <2>1 DEF TallyAt
<1> DEFINE Recent(num) == (present - num + 1 .. present) \cap Buckets
<1>5. ASSUME NEW num \in 1 .. Window, Recent(num) \cap removed = {}
      PROVE  IF Sum(beatsAt, num) # NoBeats
             THEN getData(m, num) = Sum(beatsAt, num)
             ELSE getData(m, num) \in {NoBeats} \cup {beatsAt[k] : k \in 0 .. present - num}
  <2>1. num \in Nat /\ num \in Int /\ num <= Window
    BY <1>1
  <2>2. ASSUME NEW k \in Int, present - num < k, k <= present
        PROVE  TallyAt(m.tallies, k) = TallyAt(beatsAt, k)
    <3>1. k > present - Window
      BY <1>1, <2>1, <2>2
    <3>2. k \in Buckets => k \notin removed
      <4>1. k \in present - num + 1 .. present
        BY <1>1, <2>1, <2>2
      <4> QED BY <1>5, <4>1
    <3>3. CASE k \in DOMAIN m.tallies
      BY <1>1, <1>3, <3>1, <3>3 DEF Remembers, TallyAt
    <3>4. CASE k \notin DOMAIN m.tallies
      BY <1>1, <1>3, <3>1, <3>2, <3>4 DEF Remembers, TallyAt
    <3> QED BY <3>3, <3>4
  <2>3. Sum(m.tallies, num) = Sum(beatsAt, num)
    BY <1>1, <1>4, <2>1, <2>2, SumsAgree
  <2>4. getData(m, num) = IF Sum(beatsAt, num) = NoBeats THEN lastTally ELSE Sum(beatsAt, num)
    BY <2>3 DEF getData
  <2>5. ASSUME Sum(beatsAt, num) = NoBeats
        PROVE  lastTally \in {NoBeats} \cup {beatsAt[k] : k \in 0 .. present - num}
    <3>1. SUFFICES ASSUME NEW k \in 0 .. present, lastTally = beatsAt[k],
                          k \notin 0 .. present - num
                   PROVE  lastTally = NoBeats
      BY <1>0 DEF LastInv
    <3>2. k \in Int /\ present - num < k /\ k <= present
      BY <1>1, <2>1, <3>1
    <3>3. TallyAt(beatsAt, k) = NoBeats
      BY <1>1, <1>4, <2>1, <2>5, <3>2, NothingInNothing
    <3>4. k \in Buckets
      BY <1>0, WindowFacts, WindowAssumption
    <3> QED BY <1>1, <3>1, <3>3, <3>4 DEF TallyAt
  <2> QED BY <2>4, <2>5
<1>6. ASSUME NEW k \in Recent(Window) \ removed, beatsAt[k] # NoBeats
      PROVE  k \in getDataArray(m, present - k + 1) /\ m.tallies[k] = beatsAt[k]
  <2>1. k \in Buckets /\ k \in Int /\ k > present - Window /\ k <= present
    BY <1>1
  <2>2. k \in DOMAIN m.tallies /\ m.tallies[k] = beatsAt[k]
    BY <1>3, <1>6, <2>1 DEF Remembers
  <2>3. present - (present - k + 1) < k
    BY <1>1, <2>1
  <2> QED BY <2>1, <2>2, <2>3 DEF getDataArray
<1> QED
  BY <1>2, <1>5, <1>6 DEF UptimeIsOfWindow

(* UptimeIsOfWindow of UptimeCalculator.getData() and getDataArray(), for  *)
(* every length of the queue: what is shown of the last so many buckets is *)
(* what there was in them.                                                 *)
THEOREM UptimesAreOfWindow == WindowSpec => []UptimeIsOfWindow
<1> QED
  BY WindowBegins, WindowStep, WindowIsShown, PTL DEF WindowSpec

LEMMA WindowTypes == WindowSpec => []WindowTypeOK
<1>1. WindowInv => WindowTypeOK BY DEF WindowInv
<1> QED BY WindowBegins, WindowStep, <1>1, PTL DEF WindowSpec
=============================================================================
