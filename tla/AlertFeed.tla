------------------------------ MODULE AlertFeed ------------------------------
(***************************************************************************)
(* What a monitor promises its subscribers, whoever produces the beats:    *)
(* no status is recorded whose transition has to be notified unless it has *)
(* been announced since the record before it, and nothing else is          *)
(* announced, apart from reminders of a standing DOWN.  Announcements may  *)
(* repeat: the promise is at-least-once.                                   *)
(***************************************************************************)
EXTENDS BeatRules

VARIABLES
    last,       \* the status recorded last, NONE before the first
    announced   \* what has been announced since then

vars == <<last, announced>>

Init == last = NONE /\ announced = {}

Announce(s) ==
    /\ IsNotified(last, s) \/ (last = DOWN /\ s = DOWN)
    /\ announced' = announced \cup {s}
    /\ UNCHANGED last

Record(s) ==
    /\ IsNotified(last, s) => s \in announced
    /\ last' = s
    /\ announced' = {}

Next == \E s \in Statuses : Announce(s) \/ Record(s)

Spec == Init /\ [][Next]_vars
=============================================================================
