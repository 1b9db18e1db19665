---------------------------- MODULE UptimeWindow ----------------------------
(***************************************************************************)
(* What the uptime calculator shows of a monitor: the buckets of one tier  *)
(* in a queue that keeps as many as the longest window asked for, their    *)
(* rows, and getData() and getDataArray() over the last so many buckets.   *)
(* Time passes, monitors pause, the server restarts, old rows are removed. *)
(* The pieces of update() and of the load are UptimeStats' business: here  *)
(* each is one step.  Averages of the response time are left out.          *)
(***************************************************************************)
EXTENDS Integers, SequencesExt

CONSTANTS
    Window,     \* limit of the queue: 1440 minutes, 720 hours, 365 days
    LastBucket, \* bound: the last key
    PerBucket   \* bound: beats of one bucket

ASSUME WindowAssumption ==
    Window \in Nat \ {0} /\ LastBucket \in Nat /\ PerBucket \in Nat

VARIABLES
    daily,      \* the tier: daily, or minutely and hourly
    present,    \* the key of the current bucket
    statRows,   \* the rows of stat_*: a tally by key
    queue,      \* the keys in the queue (__stack)
    tallies,    \* and the tally of each
    lastTally,  \* last...UptimeData; NoBeats is null, too: it shows the same
    opened,     \* the calculator is in UptimeCalculator.list
    beatsAt,    \* history: the beats of each bucket
    removed     \* history: keys whose rows the job has removed

windowVars == <<daily, present, statRows, queue, tallies, lastTally, opened, beatsAt, removed>>

Buckets == 0 .. LastBucket
NoBeats == [up |-> 0, down |-> 0]
Tallies == [up : 0 .. PerBucket, down : 0 .. PerBucket]

WindowTypeOK ==
    /\ {daily, opened} \subseteq BOOLEAN
    /\ present \in Buckets
    /\ DOMAIN statRows \subseteq Buckets /\ DOMAIN tallies \subseteq Int
    /\ {statRows[k] : k \in DOMAIN statRows} \cup {tallies[k] : k \in DOMAIN tallies}
         \cup {lastTally} \subseteq Tallies
    /\ ToSet(queue) = DOMAIN tallies /\ Len(queue) <= Window
    /\ beatsAt \in [Buckets -> Tallies] /\ removed \subseteq Buckets

WindowInit ==
    /\ daily \in BOOLEAN
    /\ present = 0 /\ statRows = <<>> /\ queue = <<>> /\ tallies = <<>>
    /\ lastTally = NoBeats /\ opened = FALSE
    /\ beatsAt = [k \in Buckets |-> NoBeats] /\ removed = {}

-----------------------------------------------------------------------------
(* The queue of a calculator, as a record of `queue` and `tallies`.        *)
NoMemory == [queue |-> <<>>, tallies |-> <<>>]

Push_early(m, k, t) ==
    LET longer == Append(m.queue, k)
        all == [x \in DOMAIN m.tallies \cup {k} |-> IF x = k THEN t ELSE m.tallies[x]]
    IN IF Len(longer) < Window
       THEN [queue |-> longer, tallies |-> all]
       ELSE [queue |-> Tail(longer), tallies |-> Restrict(all, ToSet(Tail(longer)))]

(* The first element leaves when the length exceeds the limit.             *)
Push(m, k, t) ==
    LET longer == Append(m.queue, k)
        all == [x \in DOMAIN m.tallies \cup {k} |-> IF x = k THEN t ELSE m.tallies[x]]
    IN IF Len(longer) <= Window
       THEN [queue |-> longer, tallies |-> all]
       ELSE [queue |-> Tail(longer), tallies |-> Restrict(all, ToSet(Tail(longer)))]

(* getMinutelyKey(), getHourlyKey(), getDailyKey()                         *)
WithKey(m, k) == IF k \in DOMAIN m.tallies THEN m ELSE Push(m, k, NoBeats)

(* init(): the key it asks for the oldest row with gets a bucket first; the *)
(* rows follow by their keys, of which none is still to come.              *)
Loaded ==
    LET oldest == present - Window
        upTo[n \in Nat] ==
            IF n = 0 THEN WithKey(NoMemory, oldest)
            ELSE IF oldest + n \in DOMAIN statRows
                 THEN Push(upTo[n - 1], oldest + n, statRows[oldest + n])
                 ELSE upTo[n - 1]
    IN upTo[Window]

(* The calculator, loaded if need be, with a bucket for the present.       *)
Memory ==
    WithKey(IF opened THEN [queue |-> queue, tallies |-> tallies] ELSE Loaded, present)

Keeps(m) == queue' = m.queue /\ tallies' = m.tallies /\ opened' = TRUE

(* What a beat adds; "down" is PENDING, too (flatStatus()).                *)
Tallied(t, status) ==
    CASE status = "up"          -> [t EXCEPT !.up = @ + 1]
      [] status = "down"        -> [t EXCEPT !.down = @ + 1]
      [] status = "maintenance" -> t

(* update(): counts, stores the row, and removes the old ones of the tiers *)
(* that clearOldData() does not see to.                                    *)
CountBeat(status) ==
    LET t == Tallied(Memory.tallies[present], status)
        kept == {k \in DOMAIN statRows : daily \/ k >= present - Window}
    IN /\ t \in Tallies
       /\ Keeps([Memory EXCEPT !.tallies[present] = t])
       /\ lastTally' = t
       /\ statRows' = [k \in kept \cup {present} |-> IF k = present THEN t ELSE statRows[k]]
       /\ beatsAt' = [beatsAt EXCEPT ![present] = Tallied(@, status)]
       /\ UNCHANGED <<daily, present, removed>>

(* Whoever asks for data leaves a bucket behind.                           *)
AskForData ==
    /\ Keeps(Memory)
    /\ UNCHANGED <<daily, present, statRows, lastTally, beatsAt, removed>>

BucketPasses ==
    /\ present < LastBucket
    /\ present' = present + 1
    /\ UNCHANGED <<daily, statRows, queue, tallies, lastTally, opened, beatsAt, removed>>

ServerRestarts ==
    /\ opened' = FALSE /\ lastTally' = NoBeats
    /\ queue' = <<>> /\ tallies' = <<>>
    /\ UNCHANGED <<daily, present, statRows, beatsAt, removed>>

(* clearOldData() with keepDataPeriodDays: the rows only.                  *)
OldRowsRemoved(period) ==
    /\ daily /\ period >= 1
    /\ LET kept == {k \in DOMAIN statRows : k >= present - period}
       IN /\ statRows' = Restrict(statRows, kept)
          /\ removed' = removed \cup (DOMAIN statRows \ kept)
    /\ UNCHANGED <<daily, present, queue, tallies, lastTally, opened, beatsAt>>

WindowNext ==
    \/ \E status \in {"up", "down", "maintenance"} : CountBeat(status)
    \/ AskForData \/ BucketPasses \/ ServerRestarts
    \/ \E period \in 0 .. Window : OldRowsRemoved(period)

WindowSpec == WindowInit /\ [][WindowNext]_windowVars

-----------------------------------------------------------------------------
(* The tally of a key; a key without one adds nothing.                     *)
TallyAt(of, k) == IF k \in DOMAIN of THEN of[k] ELSE NoBeats

Plus(s, t) == [up |-> s.up + t.up, down |-> s.down + t.down]

(* Of the last num keys, the present one first.                            *)
Sum(of, num) ==
    LET total[n \in Nat] == IF n = 0 THEN NoBeats
                            ELSE Plus(total[n - 1], TallyAt(of, present - n + 1))
    IN total[num]

(* Of a calculator: the buckets of the last num that the queue has.        *)
getDataArray(m, num) == {k \in DOMAIN m.tallies : present - num < k /\ k <= present}

(* getData(num), of which uptime is up against up and down                 *)
getData(m, num) ==
    LET total == Sum(m.tallies, num)
    IN IF total = NoBeats THEN lastTally ELSE total

(* Once there is a beat, the uptime shown of the last num buckets is that  *)
(* of the beats there were in them, and where there were none that of some *)
(* bucket before; and the chart has every bucket with a beat.  So it is    *)
(* after pauses, and a restart changes nothing of it.  Rows the job has    *)
(* removed are shown until the next restart only.                          *)
UptimeIsOfWindow ==
    LET m == Memory
        Recent(num) == (present - num + 1 .. present) \cap Buckets
        Exact(num) ==
            LET there == Sum(beatsAt, num)
            IN IF there # NoBeats THEN getData(m, num) = there
               ELSE getData(m, num) \in {NoBeats} \cup {beatsAt[k] : k \in 0 .. present - num}
    IN (\E k \in Buckets : beatsAt[k] # NoBeats) =>
         /\ \A num \in 1 .. Window : Recent(num) \cap removed = {} => Exact(num)
         /\ \A k \in Recent(Window) \ removed :
              beatsAt[k] # NoBeats =>
                  k \in getDataArray(m, present - k + 1) /\ m.tallies[k] = beatsAt[k]
=============================================================================
