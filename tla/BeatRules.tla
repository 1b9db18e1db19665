----------------------------- MODULE BeatRules -----------------------------
(***************************************************************************)
(* The pure rules every producer of heartbeats shares: which transitions   *)
(* are important, which are notified, how a finished check and a received  *)
(* push become a status, and when a standing DOWN is notified again.       *)
(*                                                                         *)
(* Sources: server/model/monitor.js, server/routers/api-router.js,         *)
(* src/util.js.                                                            *)
(***************************************************************************)
EXTENDS Integers

UP          == "UP"
DOWN        == "DOWN"
PENDING     == "PENDING"
MAINTENANCE == "MAINTENANCE"

(* "NONE" is the status of the beat before the first one. *)
NONE == "NONE"

Statuses == {UP, DOWN, PENDING, MAINTENANCE}

(***************************************************************************)
(* A heartbeat, reduced to the fields a later beat reads back.             *)
(***************************************************************************)
BeatRows(counters) == [status : Statuses, retries : counters, downCount : Nat]

NoBeat == [status |-> NONE, retries |-> 0, downCount |-> 0]

FlipStatus(s) ==
    IF s = UP THEN DOWN ELSE IF s = DOWN THEN UP ELSE s

Oriented(upsideDown, s) == IF upsideDown THEN FlipStatus(s) ELSE s

IsImportantBeat_noPendingDown(prev, cur) ==
    \/ prev = NONE
    \/ <<prev, cur>> \in { <<DOWN, MAINTENANCE>>, <<UP, MAINTENANCE>>,
                           <<MAINTENANCE, DOWN>>, <<MAINTENANCE, UP>>,
                           <<UP, DOWN>>, <<DOWN, UP>> }

IsImportantBeat(prev, cur) ==
    \/ prev = NONE
    \/ <<prev, cur>> \in { <<DOWN, MAINTENANCE>>, <<UP, MAINTENANCE>>,
                           <<MAINTENANCE, DOWN>>, <<MAINTENANCE, UP>>,
                           <<UP, DOWN>>, <<DOWN, UP>>, <<PENDING, DOWN>> }

IsImportantForNotification(prev, cur) ==
    \/ prev = NONE
    \/ <<prev, cur>> \in { <<MAINTENANCE, DOWN>>, <<UP, DOWN>>,
                           <<DOWN, UP>>, <<PENDING, DOWN>> }

(* sendNotification stays silent about a first beat that is not DOWN. *)
SendsNotification(prev, cur) == prev # NONE \/ cur = DOWN

(* The transitions the subscribers of a monitor are told about. *)
IsNotified(prev, cur) ==
    IsImportantForNotification(prev, cur) /\ SendsNotification(prev, cur)

(***************************************************************************)
(* What one run of a monitor type's check leaves behind.                   *)
(*   up, pending, down   it returned, having set that status               *)
(*   error               it threw before setting a status                  *)
(*   jsonError           it threw "JSON query does not pass"               *)
(*   late                it set UP and then threw: tcp, whose TLS check    *)
(*                       comes after the connect                           *)
(***************************************************************************)
Outcomes == {"up", "pending", "down", "error", "jsonError", "late"}

OutcomesOf(type) ==
    CASE type = "json-query" -> {"up", "error", "jsonError"}
      [] type = "docker"     -> {"up", "error", "pending"}
      [] type = "group"      -> {"up", "error", "pending"}
      [] type = "manual"     -> {"up", "down", "pending"}
      [] type = "tcp"        -> {"up", "error", "late"}
      [] OTHER               -> {"up", "error"}

Threw(o) == o \in {"error", "jsonError", "late"}

StatusSetBy_startsUp(upsideDown, o) ==
    IF o = "pending" THEN PENDING ELSE IF o = "down" THEN DOWN ELSE UP

(* The status in the bean when the type's check is over, before any flip.  *)
StatusSetBy(upsideDown, o) ==
    CASE o \in {"up", "late"} -> UP
      [] o = "pending"        -> PENDING
      [] o = "down"           -> DOWN
      [] OTHER                -> Oriented(upsideDown, DOWN)

(***************************************************************************)
(* The try block's ending: an upside-down check that flips to DOWN throws, *)
(* and so lands in the catch block like a failed one.                      *)
(***************************************************************************)
StatusBeforeCatch(mon, o) ==
    IF Threw(o) THEN StatusSetBy(mon.upsideDown, o)
                ELSE Oriented(mon.upsideDown, StatusSetBy(mon.upsideDown, o))

ReachesCatch(mon, o) ==
    Threw(o) \/ (mon.upsideDown /\ StatusBeforeCatch(mon, o) = DOWN)

RetriesAvailable_offByOne(mon, retries) ==
    mon.maxretries > 0 /\ retries + 1 < mon.maxretries

RetriesAvailable(mon, retries) == mon.maxretries > 0 /\ retries < mon.maxretries

(* Outcomes the retry rules do not apply to. *)
ResetsRetries(mon, o) ==
    \/ ~ReachesCatch(mon, o)
    \/ mon.upsideDown /\ StatusBeforeCatch(mon, o) = UP
    \/ mon.codeOnly /\ o = "jsonError"

(* retry_only_on_status_code_failure is only looked at for json-query *)
StatusAfter(mon, retries, o) ==
    IF ~ResetsRetries(mon, o) /\ RetriesAvailable(mon, retries)
    THEN PENDING
    ELSE StatusBeforeCatch(mon, o)

(* The counter goes on counting through DOWN; only whether it is below a   *)
(* maxretries is ever asked, so it saturates at cap.                       *)
RetriesAfter(mon, retries, o, cap) ==
    IF ResetsRetries(mon, o) THEN 0
    ELSE IF retries < cap THEN retries + 1 ELSE cap

ResendDue_late(mon, downCount) ==
    mon.resendInterval > 0 /\ downCount + 1 > mon.resendInterval

(***************************************************************************)
(* A standing DOWN is notified again every resendInterval beats.           *)
(***************************************************************************)
ResendDue(mon, downCount) ==
    mon.resendInterval > 0 /\ downCount + 1 >= mon.resendInterval

DownCountAfterQuietBeat(mon, status, downCount) ==
    IF status = DOWN /\ mon.resendInterval > 0
    THEN IF ResendDue(mon, downCount) THEN 0 ELSE downCount + 1
    ELSE downCount
=============================================================================
