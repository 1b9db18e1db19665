--------------------------- MODULE MCMaintenance ---------------------------
(* Instances of Maintenance for TLC: days of three units.                    *)
EXTENDS Maintenance, TLC

Setting(strategy, every, at, duration, from, until) ==
    [strategy |-> strategy, every |-> every, at |-> at, duration |-> duration,
     from |-> from, until |-> until]

(* A slot across midnight, with a date range; one longer than a timer can  *)
(* wait; both kinds of intervals; no slots at all.                         *)
AllSettings ==
    { Setting("cron", 1, 2, 2, 1, 6), Setting("cron", 1, 0, 3, 0, 99),
      Setting("recurring-interval", 1, 0, 1, 3, 99),
      Setting("recurring-interval", 2, 1, 2, 0, 99),
      Setting("single", 1, 0, 0, 2, 5), Setting("manual", 1, 0, 0, 0, 99) }

EverySecondDay == { Setting("recurring-interval", 2, 1, 2, 0, 99) }

(* Bound: calls that overlap are followed for two units, between an edit   *)
(* to a slot that is running and one to a slot that is about to begin.     *)
RacesAreShort ==
    raced => now < 2 /\ bean.set \in { Setting("cron", 1, 2, 2, 1, 6),
                                       Setting("recurring-interval", 2, 1, 2, 0, 99) }

Symmetric == Permutations(Jobs) \cup Permutations(Handlers)
=============================================================================
