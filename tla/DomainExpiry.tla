---------------------------- MODULE DomainExpiry ----------------------------
(***************************************************************************)
(* The notices that a domain is about to expire.  Every beat of every      *)
(* monitor of the domain may look the expiry date up, once a day, and then *)
(* sends what is due without waiting for it; all of them share one row.    *)
(* Dates are days from now: a stored date comes nearer as days go by.      *)
(*                                                                         *)
(* Assumed: a call is over within the day it began in.                     *)
(***************************************************************************)
EXTENDS FiniteSetsExt, Integers

CONSTANTS
    Deadlines,  \* domainExpiryNotifyDays
    Period,     \* days a renewal lasts
    Checks      \* bound: calls in flight, each from the beat of a monitor

ASSUME DeadlinesAssumption ==
    /\ Period \in Nat
    /\ Deadlines \subseteq 1 .. Period - 1

NoRow   == -1       \* the domain has not been looked up yet
Invalid == -2       \* a failed lookup has been stored as a date
NotSent == 0        \* lastExpiryNotificationSent is null

VARIABLES
    daysLeft,   \* of the domain, at its registry
    expiry,     \* the row: its expiry date,
    lastSent,   \* its lastExpiryNotificationSent,
    checked,    \* and whether its lastCheck is less than a day ago
    step,       \* where a call is
    loaded,     \* the expiry and lastSent of the bean the call works with
    toTell,     \* the deadlines it has still to try
    renewed,    \* history: renewed since the last lookup that was answered
    missed,     \* history: a renewal was looked up and not recognised
    told,       \* history: deadlines told since the last renewal looked up
    untidy,     \* history: since then calls overlapped or a store was lost
    served      \* history: a call has come to its end today, with no need
                \* of more than the first deadline it tried

expiryRow  == <<expiry, lastSent, checked>>
checkCalls == <<step, loaded, toTell>>
toldSoFar  == <<missed, told, untidy, served>>
expiryVars == <<daysLeft, expiryRow, checkCalls, renewed, toldSoFar>>

Dates == 0 .. Period

ExpiryTypeOK ==
    /\ daysLeft \in Dates
    /\ expiry \in Dates \cup {NoRow, Invalid}
    /\ lastSent \in Deadlines \cup {NotSent}
    /\ step \in [Checks -> {"idle", "lookup", "find", "send", "store"}]
    /\ \A c \in Checks :
          /\ loaded[c].expiry \in Dates \cup {NoRow, Invalid}
          /\ loaded[c].lastSent \in Deadlines \cup {NotSent}
    /\ toTell \in [Checks -> SUBSET Deadlines]
    /\ told \subseteq Deadlines
    /\ {checked, renewed, missed, untidy, served} \subseteq BOOLEAN

NoBean == [expiry |-> NoRow, lastSent |-> NotSent]

ExpiryInit ==
    /\ daysLeft = Period
    /\ expiry = NoRow /\ lastSent = NotSent /\ checked = FALSE
    /\ step = [c \in Checks |-> "idle"]
    /\ loaded = [c \in Checks |-> NoBean]
    /\ toTell = [c \in Checks |-> {}]
    /\ renewed = FALSE /\ missed = FALSE
    /\ told = {} /\ untidy = FALSE /\ served = FALSE

-----------------------------------------------------------------------------
Nearer(d) == IF d > 0 THEN d - 1 ELSE d

(* A day goes by.  Bound: days after the expiry are not counted, and a     *)
(* renewal does not run out before the next lookup that is answered.       *)
Day ==
    /\ renewed => daysLeft > 1
    /\ \A c \in Checks : step[c] = "idle"
    /\ daysLeft' = Nearer(daysLeft)
    /\ expiry' = Nearer(expiry)
    /\ checked' = FALSE /\ served' = FALSE
    /\ UNCHANGED <<lastSent, checkCalls, renewed, missed, told, untidy>>

Renew ==
    /\ daysLeft < Period
    /\ daysLeft' = Period
    /\ renewed' = TRUE
    /\ UNCHANGED <<expiryRow, checkCalls, toldSoFar>>

Leave(c) ==
    /\ step' = [step EXCEPT ![c] = "idle"]
    /\ loaded' = [loaded EXCEPT ![c] = NoBean]
    /\ toTell' = [toTell EXCEPT ![c] = {}]

(* checkExpiry(): a row that was checked today is as good as a new lookup. *)
CheckExpiry(c) ==
    /\ step[c] = "idle"
    /\ step' = [step EXCEPT ![c] = IF checked THEN "find" ELSE "lookup"]
    /\ loaded' = [loaded EXCEPT ![c] = [expiry |-> expiry, lastSent |-> lastSent]]
    /\ untidy' = (untidy \/ \E d \in Checks : step[d] # "idle")
    /\ UNCHANGED <<daysLeft, expiryRow, toTell, renewed, missed, told, served>>

(* isAfter(): a date is after one that was never stored, for that counts   *)
(* as now, and not after an invalid one.                                   *)
IsRenewal(before) == before # Invalid /\ daysLeft > before

(* The INSERT of a domain another call has inserted meanwhile is refused.  *)
InsertRefused(c) == loaded[c].expiry = NoRow /\ expiry # NoRow

(* History: a renewal is passed over after a failed lookup, and when a     *)
(* deadline of the old date is stored while the lookup is going on.        *)
Unrecognised(c) ==
    \/ loaded[c].expiry = Invalid
    \/ loaded[c].lastSent # lastSent
    \/ \E d \in Checks : step[d] \in {"send", "store"}

(* R.store() writes the date and, on a renewal, forgets what was sent.     *)
LookupAnswered(c) ==
    /\ step[c] = "lookup" /\ ~InsertRefused(c)
    /\ expiry' = daysLeft
    /\ checked' = TRUE
    /\ lastSent' = IF IsRenewal(loaded[c].expiry) /\ loaded[c].lastSent # NotSent
                   THEN NotSent ELSE lastSent
    /\ step' = [step EXCEPT ![c] = "find"]
    /\ renewed' = FALSE
    /\ missed' = IF renewed THEN Unrecognised(c) ELSE missed
    /\ told' = IF renewed THEN {} ELSE told
    /\ untidy' = IF renewed THEN \E d \in Checks \ {c} : step[d] # "idle" ELSE untidy
    /\ UNCHANGED <<daysLeft, loaded, toTell, served>>

(* "Not able to get expiry date from RDAP": stored for a day all the same. *)
LookupFailed(c) ==
    /\ step[c] = "lookup" /\ ~InsertRefused(c)
    /\ expiry' = Invalid
    /\ checked' = TRUE
    /\ Leave(c)
    /\ UNCHANGED <<daysLeft, lastSent, renewed, toldSoFar>>

(* The UNIQUE index, or any statement that is refused: the beat goes on.   *)
CheckThrows(c) ==
    /\ step[c] \in {"lookup", "find"}
    /\ Leave(c)
    /\ UNCHANGED <<daysLeft, expiryRow, renewed, toldSoFar>>

-----------------------------------------------------------------------------
(* sendNotifications() loads the row again.  Deadlines are tried from the  *)
(* nearest on; the ones at or above the last one sent are done with.       *)
DueOf(date, sent) ==
    IF date < 0 THEN {}
    ELSE {d \in Deadlines : date <= d /\ (sent = NotSent \/ d < sent)}

SendNotifications(c) ==
    LET due == DueOf(expiry, lastSent)
    IN /\ step[c] = "find"
       /\ IF due = {}
          THEN /\ Leave(c)
               /\ served' = (expiry >= 0)
          ELSE /\ step' = [step EXCEPT ![c] = "send"]
               /\ loaded' = [loaded EXCEPT ![c] = [expiry |-> expiry, lastSent |-> lastSent]]
               /\ toTell' = [toTell EXCEPT ![c] = due]
               /\ UNCHANGED served
       /\ UNCHANGED <<daysLeft, expiryRow, renewed, missed, told, untidy>>

(* One provider has taken it.                                              *)
Tell(c, d) ==
    /\ step[c] = "send" /\ toTell[c] # {} /\ d = Min(toTell[c])
    /\ step' = [step EXCEPT ![c] = "store"]
    /\ toTell' = [toTell EXCEPT ![c] = {d}]
    /\ told' = told \cup {d}
    /\ UNCHANGED <<daysLeft, expiryRow, loaded, renewed, missed, untidy, served>>

(* Not one has: the next deadline is tried.                                *)
NobodyTold(c) ==
    /\ step[c] = "send"
    /\ IF Cardinality(toTell[c]) = 1
       THEN Leave(c)
       ELSE /\ toTell' = [toTell EXCEPT ![c] = @ \ {Min(@)}]
            /\ UNCHANGED <<step, loaded>>
    /\ UNCHANGED <<daysLeft, expiryRow, renewed, toldSoFar>>

(* Bug: only the first deadline ever sent is kept.                         *)
ToldStored_once(c) ==
    /\ step[c] = "store"
    /\ lastSent' = IF lastSent = NotSent THEN Min(toTell[c]) ELSE lastSent
    /\ Leave(c)
    /\ served' = (served \/ toTell[c] = {Min(DueOf(loaded[c].expiry, loaded[c].lastSent))})
    /\ UNCHANGED <<daysLeft, expiry, checked, renewed, missed, told, untidy>>

ToldStored(c) ==
    /\ step[c] = "store"
    /\ lastSent' = Min(toTell[c])
    /\ Leave(c)
    /\ served' = (served \/ toTell[c] = {Min(DueOf(loaded[c].expiry, loaded[c].lastSent))})
    /\ UNCHANGED <<daysLeft, expiry, checked, renewed, missed, told, untidy>>

ToldNotStored(c) ==
    /\ step[c] = "store"
    /\ Leave(c)
    /\ untidy' = TRUE
    /\ UNCHANGED <<daysLeft, expiryRow, renewed, missed, told, served>>

ExpiryCrash ==
    /\ step' = [c \in Checks |-> "idle"]
    /\ loaded' = [c \in Checks |-> NoBean]
    /\ toTell' = [c \in Checks |-> {}]
    /\ untidy' = (untidy \/ \E c \in Checks : step[c] = "store")
    /\ UNCHANGED <<daysLeft, expiryRow, renewed, missed, told, served>>

ExpiryNext ==
    \/ Day \/ Renew \/ ExpiryCrash
    \/ \E c \in Checks :
          \/ CheckExpiry(c) \/ LookupAnswered(c) \/ LookupFailed(c) \/ CheckThrows(c)
          \/ SendNotifications(c) \/ NobodyTold(c) \/ ToldStored(c) \/ ToldNotStored(c)
          \/ \E d \in Deadlines : Tell(c, d)

ExpirySpec == ExpiryInit /\ [][ExpiryNext]_expiryVars

-----------------------------------------------------------------------------
(* Until the domain is renewed, no deadline is told a second time and none *)
(* after a nearer one, failed lookups and failed providers included; calls *)
(* that overlap and a store that is lost may tell one again.               *)
OncePerDeadline ==
    \A c \in Checks, d \in Deadlines :
        Tell(c, d) /\ ~untidy => \A e \in told : d < e

(* After a call that came to its end today, the nearest deadline that has  *)
(* been reached has been told in this registration, unless its renewal was *)
(* looked up after a failed lookup or while a notice was being sent.       *)
DueIsTold ==
    LET reached == {d \in Deadlines : expiry <= d}
    IN served /\ expiry >= 0 /\ reached # {} /\ ~missed => Min(reached) \in told

(* So each notice of a registration comes once and in time.                *)
NoticesInTime == [][OncePerDeadline /\ DueIsTold']_expiryVars
=============================================================================
