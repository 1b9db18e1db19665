--------------------------- MODULE IzapiaButtons ---------------------------
(***************************************************************************)
(* The buttons of an alert sent over IZAPIA: pause or resume the monitor,  *)
(* or acknowledge.  The message is sent first and its row of pending       *)
(* actions stored afterwards; a tap comes back as a webhook that quotes    *)
(* the message.  Taps repeat and overlap, statements are refused, the      *)
(* server crashes.  One monitor; what calls that overlap do to its runner  *)
(* is MonitorLifecycle's business.                                         *)
(***************************************************************************)
EXTENDS Integers

CONSTANTS
    Messages,   \* bound: alerts sent, each by a message of its own
    Taps,       \* webhooks handled at the same time
    NoMessage   \* a structured reply, which quotes no message

ASSUME NoMessageAssumption == NoMessage \notin Messages

Actions == {"pause", "resume", "ack"}

VARIABLES
    alerts,     \* the messages sent, and where storing their rows is
    pending,    \* rows of izapia_pending_action
    attached,   \* the row of monitor_notification is there
    active,     \* the monitor's column
    running,    \* the monitor listed is being checked
    tap,        \* where a webhook is: [stage, message, action]
    obeyed,     \* history: how often a button of a message has been obeyed
    doubled,    \* history: messages two webhooks were about at the same time
    disturbed   \* history: two taps overlapped, or one failed half-way, since the last start

buttonVars == <<alerts, pending, attached, active, running, tap, obeyed, doubled, disturbed>>

NoTap == [stage |-> "idle", message |-> NoMessage, action |-> "ack"]

ButtonsTypeOK ==
    /\ alerts \in [Messages -> {"unsent", "sent", "done"}]
    /\ pending \subseteq Messages
    /\ {attached, active, running, disturbed} \subseteq BOOLEAN
    /\ tap \in [Taps -> [stage : {"idle", "link", "consume", "obey", "stop", "start"},
                         message : Messages \cup {NoMessage}, action : Actions]]
    /\ obeyed \in [Messages -> Nat]
    /\ doubled \subseteq Messages

ButtonsInit ==
    /\ alerts = [m \in Messages |-> "unsent"] /\ pending = {}
    /\ attached = TRUE /\ active = TRUE /\ running = TRUE
    /\ tap = [h \in Taps |-> NoTap]
    /\ obeyed = [m \in Messages |-> 0] /\ doubled = {} /\ disturbed = FALSE

-----------------------------------------------------------------------------
(* send() and recordPendingAction(): the message goes out, then its row is *)
(* stored, or is not and the error swallowed.                              *)
MessageSent(m) ==
    /\ alerts[m] = "unsent"
    /\ alerts' = [alerts EXCEPT ![m] = "sent"]
    /\ UNCHANGED <<pending, attached, active, running, tap, obeyed, doubled, disturbed>>

ActionRecorded(m) ==
    /\ alerts[m] = "sent"
    /\ alerts' = [alerts EXCEPT ![m] = "done"]
    /\ pending' = pending \cup {m}
    /\ UNCHANGED <<attached, active, running, tap, obeyed, doubled, disturbed>>

ActionUnrecorded(m) ==
    /\ alerts[m] = "sent"
    /\ alerts' = [alerts EXCEPT ![m] = "done"]
    /\ UNCHANGED <<pending, attached, active, running, tap, obeyed, doubled, disturbed>>

-----------------------------------------------------------------------------
Resting(h) == tap[h].stage = "idle"
TapGoes(h, stage) == tap' = [tap EXCEPT ![h].stage = stage]
TapEnds(h) == tap' = [tap EXCEPT ![h] = NoTap]

TapBegins(h, m, a) ==
    /\ Resting(h)
    /\ tap' = [tap EXCEPT ![h] = [stage |-> "link", message |-> m, action |-> a]]
    /\ disturbed' = (disturbed \/ \E g \in Taps : ~Resting(g))

(* The row of the message quoted is found; without it the webhook is       *)
(* answered and ignored.                                                   *)
Tapped(h, m, a) ==
    /\ m \in pending
    /\ TapBegins(h, m, a)
    /\ doubled' = IF \E g \in Taps : tap[g].message = m THEN doubled \cup {m} ELSE doubled
    /\ UNCHANGED <<alerts, pending, attached, active, running, obeyed>>

(* A reply that names the monitor itself.                                  *)
Replied(h, a) ==
    /\ TapBegins(h, NoMessage, a)
    /\ UNCHANGED <<alerts, pending, attached, active, running, obeyed, doubled>>

LinkRead(h) ==
    /\ tap[h].stage = "link"
    /\ IF ~attached THEN TapEnds(h)
       ELSE TapGoes(h, IF tap[h].message = NoMessage THEN "obey" ELSE "consume")
    /\ UNCHANGED <<alerts, pending, attached, active, running, obeyed, doubled, disturbed>>

(* Bug: the row stays.                                                     *)
Consumed_kept(h) ==
    /\ tap[h].stage = "consume"
    /\ TapGoes(h, "obey")
    /\ UNCHANGED <<alerts, pending, attached, active, running, obeyed, doubled, disturbed>>

Consumed(h) ==
    /\ tap[h].stage = "consume"
    /\ pending' = pending \ {tap[h].message}
    /\ TapGoes(h, "obey")
    /\ UNCHANGED <<alerts, attached, active, running, obeyed, doubled, disturbed>>

CountsObeyed(h) ==
    obeyed' = [m \in Messages |-> IF m = tap[h].message THEN obeyed[m] + 1 ELSE obeyed[m]]

RowSet(h) ==
    /\ tap[h].stage = "obey" /\ tap[h].action # "ack"
    /\ active' = (tap[h].action = "resume")
    /\ TapGoes(h, IF tap[h].action = "pause" THEN "stop" ELSE "start")
    /\ CountsObeyed(h)
    /\ UNCHANGED <<alerts, pending, attached, running, doubled, disturbed>>

Acknowledged(h) ==
    /\ tap[h].stage = "obey" /\ tap[h].action = "ack"
    /\ CountsObeyed(h)
    /\ TapEnds(h)
    /\ UNCHANGED <<alerts, pending, attached, active, running, doubled, disturbed>>

Stopped(h) ==
    /\ tap[h].stage = "stop"
    /\ running' = FALSE
    /\ TapEnds(h)
    /\ UNCHANGED <<alerts, pending, attached, active, obeyed, doubled, disturbed>>

(* The row is read, the runner listed stopped and a new one started.       *)
Started(h) ==
    /\ tap[h].stage = "start"
    /\ running' = TRUE
    /\ TapEnds(h)
    /\ UNCHANGED <<alerts, pending, attached, active, obeyed, doubled, disturbed>>

TapFails(h) ==
    /\ tap[h].stage \notin {"idle", "stop"}
    /\ TapEnds(h)
    /\ disturbed' = (disturbed \/ tap[h].stage = "start")
    /\ UNCHANGED <<alerts, pending, attached, active, running, obeyed, doubled>>

-----------------------------------------------------------------------------
(* A user takes the notification off the monitor, or puts it back.         *)
LinkChanged ==
    /\ attached' = ~attached
    /\ UNCHANGED <<alerts, pending, active, running, tap, obeyed, doubled, disturbed>>

(* The next start runs the monitors that are active.                       *)
ButtonsCrash ==
    /\ alerts' = [m \in Messages |-> IF alerts[m] = "sent" THEN "done" ELSE alerts[m]]
    /\ tap' = [h \in Taps |-> NoTap]
    /\ running' = active /\ disturbed' = FALSE
    /\ UNCHANGED <<pending, attached, active, obeyed, doubled>>

ButtonsNext ==
    \/ \E m \in Messages : MessageSent(m) \/ ActionRecorded(m) \/ ActionUnrecorded(m)
    \/ \E h \in Taps :
          \/ \E m \in Messages, a \in Actions : Tapped(h, m, a)
          \/ \E a \in Actions : Replied(h, a)
          \/ LinkRead(h) \/ Consumed(h) \/ RowSet(h) \/ Acknowledged(h)
          \/ Stopped(h) \/ Started(h) \/ TapFails(h)
    \/ LinkChanged \/ ButtonsCrash

ButtonsSpec == ButtonsInit /\ [][ButtonsNext]_buttonVars

-----------------------------------------------------------------------------
(* "One-shot: this specific button press has now been consumed": whatever  *)
(* is tapped, answered late, fails or is cut off by a crash, the buttons   *)
(* of a message are obeyed once; unless two webhooks about the message     *)
(* were handled at the same time.                                          *)
OneShot == \A m \in Messages \ doubled : obeyed[m] <= 1

(* Between taps that came one after the other the monitor is checked if    *)
(* and only if its row says so, and so it is after a restart.              *)
RunnerFollowsRow ==
    ~disturbed /\ (\A h \in Taps : Resting(h)) => running = active

(* So a press is obeyed once, and all of it.                               *)
ButtonsHold == OneShot /\ RunnerFollowsRow
=============================================================================
