--------------------------- MODULE AlertCooldown ---------------------------
(***************************************************************************)
(* The cooldown of the alerts beside UP and DOWN: an anomaly of the        *)
(* response time, a value in the warning band.  Each beat that looks bad   *)
(* asks for the newest alert of its kind, stores a new one and has it      *)
(* sent.  The beats of a runner follow one another; the requests of the    *)
(* OTLP receiver for the same monitor do not wait for each other.  What    *)
(* makes a beat look bad, and who is told, is left out.                    *)
(***************************************************************************)
EXTENDS Integers

CONSTANTS
    Lines,      \* the runner, or requests that evaluate beats at the same time
    Kinds,      \* "anomaly", "warning_threshold"
    Cooldown,   \* 15 minutes in the code
    MaxTime     \* bound: the last tick

ASSUME CooldownAssumption ==
    Cooldown \in Nat \ {0} /\ MaxTime \in Nat /\ Kinds # {}

VARIABLES
    clock,
    events,     \* alert_event: the times of each kind, by the line that stored them
    evaluation, \* where each line is
    judging     \* the kind it evaluates

cooldownVars == <<clock, events, evaluation, judging>>

Times == 0 .. MaxTime

CooldownTypeOK ==
    /\ clock \in Times
    /\ events \in [Kinds -> [Lines -> SUBSET Times]]
    /\ evaluation \in [Lines -> {"idle", "newest", "insert", "send"}]
    /\ judging \in [Lines -> Kinds]

CooldownInit ==
    /\ clock = 0
    /\ events = [k \in Kinds |-> [l \in Lines |-> {}]]
    /\ evaluation = [l \in Lines |-> "idle"]
    /\ judging = [l \in Lines |-> CHOOSE k \in Kinds : TRUE]

-----------------------------------------------------------------------------
Proceeds(l, stage) == evaluation' = [evaluation EXCEPT ![l] = stage]

Tick ==
    /\ clock < MaxTime /\ clock' = clock + 1
    /\ UNCHANGED <<events, evaluation, judging>>

(* The beat is UP and looks bad.                                           *)
LooksBad(l, k) ==
    /\ evaluation[l] = "idle"
    /\ Proceeds(l, "newest") /\ judging' = [judging EXCEPT ![l] = k]
    /\ UNCHANGED <<clock, events>>

AlertTimes(k) == UNION {events[k][l] : l \in Lines}

(* Bug: the oldest alert is asked for.                                     *)
Cooling_oldest(k) ==
    /\ AlertTimes(k) # {}
    /\ \A t \in AlertTimes(k) : clock - t < Cooldown

(* ORDER BY time DESC LIMIT 1: the newest is younger than the cooldown if  *)
(* and only if one is.                                                     *)
Cooling(k) == \E t \in AlertTimes(k) : clock - t < Cooldown

CooldownChecked(l) ==
    /\ evaluation[l] = "newest"
    /\ Proceeds(l, IF Cooling(judging[l]) THEN "idle" ELSE "insert")
    /\ UNCHANGED <<clock, events, judging>>

EventInserted(l) ==
    /\ evaluation[l] = "insert"
    /\ events' = [events EXCEPT ![judging[l]][l] = @ \cup {clock}]
    /\ Proceeds(l, "send")
    /\ UNCHANGED <<clock, judging>>

EventSent(l) ==
    /\ evaluation[l] = "send"
    /\ Proceeds(l, "idle")
    /\ UNCHANGED <<clock, events, judging>>

(* Errors end in the catch block; a crash ends every line.                 *)
EvaluationFails(l) ==
    /\ evaluation[l] # "idle"
    /\ Proceeds(l, "idle")
    /\ UNCHANGED <<clock, events, judging>>

CooldownNext ==
    \/ Tick
    \/ \E l \in Lines : \/ \E k \in Kinds : LooksBad(l, k)
                        \/ CooldownChecked(l) \/ EventInserted(l) \/ EventSent(l)
                        \/ EvaluationFails(l)

CooldownSpec == CooldownInit /\ [][CooldownNext]_cooldownVars

-----------------------------------------------------------------------------
(* However lines overlap and however long one waits between its query and  *)
(* its INSERT, no line raises two alerts of a kind within the cooldown: a  *)
(* stretch of that length has one for a monitor a runner beats, and one    *)
(* for each request the OTLP receiver handles at the same time.            *)
AlertsAreSparse ==
    [][\A l \in Lines : EventInserted(l) =>
          \A t \in events[judging[l]][l] : clock - t >= Cooldown]_cooldownVars
=============================================================================
