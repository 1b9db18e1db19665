----------------------------- MODULE Federation -----------------------------
(***************************************************************************)
(* A monitor of an Agent and its mirror at the Master.  A beat of the      *)
(* agent forwards its status and waits for the answer, ten seconds at      *)
(* most; the link may lose the request, and the Master may go on with one  *)
(* that has been given up.  A runner that is stopped ends the beat it is   *)
(* in, forward and all, while another may have taken over; both servers    *)
(* may be restarted.  The mirror is a push monitor, so a watchdog of the   *)
(* Master's may record it as DOWN, and clients of the Master's may edit it *)
(* or put it under maintenance.  The notices all this leads to are in      *)
(* PushIngest.                                                             *)
(***************************************************************************)
EXTENDS BeatRules

CONSTANTS
    Senders,        \* bound: runners of the agent's that have not ended
    Forwards,       \* bound: forwards that have not come to their end
    NoSender,
    Orientations,   \* what the mirror's upsideDown may be set to
    Windows,        \* whether the mirror may be under maintenance
    Watchdogs       \* whether the mirror may have a runner at the Master

ASSUME FederationAssumption ==
    /\ NoSender \notin Senders
    /\ Orientations \subseteq BOOLEAN
    /\ Windows \subseteq BOOLEAN
    /\ Watchdogs \subseteq BOOLEAN

VARIABLES
    agent,      \* the newest row of the agent's, as it is forwarded
    onDuty,     \* the listed runner of the agent's
    errand,     \* where each runner is, and the status it is to forward
    forward,    \* where each forward is, what it carries, who awaits it
    mirrored,   \* the Master has a monitor for this one
    mirror,     \* the status the Master has recorded last
    upside,     \* the mirror is upside down
    inWindow,   \* the mirror is under maintenance
    guarded,    \* the mirror has a runner at the Master
    doubt,      \* the status its watchdog is about to record
    newer,      \* history: the forwards sent, after each one that somebody
                \* waits for, by the runner that was listed then
    outrun      \* history: one of those has been recorded before it

agentVars      == <<agent, onDuty, errand>>
requests       == <<forward, newer, outrun>>
masterVars     == <<mirrored, mirror, upside, inWindow, guarded, doubt>>
federationVars == <<agentVars, requests, masterVars>>

Runner(stage, status) == [stage |-> stage, status |-> status]

NoRequest == [stage |-> "none", status |-> NONE, sender |-> NoSender]

FederationTypeOK ==
    /\ agent \in {UP, DOWN, NONE}
    /\ onDuty \in Senders \cup {NoSender}
    /\ errand \in [Senders -> [stage : {"off", "timer", "beat", "post", "wait"},
                               status : {UP, DOWN, NONE}]]
    /\ forward \in [Forwards -> [stage : {"none", "link", "create", "record"},
                                 status : {UP, DOWN, MAINTENANCE, NONE},
                                 sender : Senders \cup {NoSender}]]
    /\ {mirror, doubt} \subseteq {UP, DOWN, MAINTENANCE, NONE}
    /\ {mirrored, upside, inWindow, guarded} \subseteq BOOLEAN
    /\ newer \in [Forwards -> SUBSET Forwards]
    /\ outrun \in [Forwards -> BOOLEAN]

FederationInit ==
    /\ agent = NONE /\ onDuty = NoSender
    /\ errand = [r \in Senders |-> Runner("off", NONE)]
    /\ forward = [f \in Forwards |-> NoRequest]
    /\ mirrored = FALSE /\ mirror = NONE
    /\ upside = FALSE /\ inWindow = FALSE /\ guarded = FALSE /\ doubt = NONE
    /\ newer = [f \in Forwards |-> {}]
    /\ outrun = [f \in Forwards |-> FALSE]

Pending(f) == forward[f].stage # "none"
Awaited(f) == forward[f].sender # NoSender

-----------------------------------------------------------------------------
(* The agent: a runner that has ended its beat waits for the next unless   *)
(* it was stopped meanwhile.                                               *)
Rests(r) == errand' = [errand EXCEPT ![r] = Runner(IF r = onDuty THEN "timer" ELSE "off", NONE)]

(* startMonitor(): the runner that was listed is stopped, if any.          *)
AgentStarts(r) ==
    /\ errand[r].stage = "off"
    /\ onDuty' = r
    /\ errand' = [q \in Senders |->
                     IF q = r THEN Runner("timer", NONE)
                     ELSE IF errand[q].stage = "timer" THEN Runner("off", NONE)
                     ELSE errand[q]]
    /\ UNCHANGED <<agent, requests, masterVars>>

AgentPauses ==
    /\ onDuty # NoSender
    /\ onDuty' = NoSender
    /\ errand' = [q \in Senders |->
                     IF errand[q].stage = "timer" THEN Runner("off", NONE) ELSE errand[q]]
    /\ UNCHANGED <<agent, requests, masterVars>>

BeatBegins(r) ==
    /\ errand[r].stage = "timer"
    /\ errand' = [errand EXCEPT ![r].stage = "beat"]
    /\ UNCHANGED <<agent, onDuty, requests, masterVars>>

MapStatusForMaster(s) == IF s \in {UP, DOWN} THEN s ELSE NONE

(* The heartbeat is stored; up and down are to be forwarded, every time.   *)
BeatStores(r, s) ==
    /\ errand[r].stage = "beat"
    /\ agent' = MapStatusForMaster(s)
    /\ IF agent' = NONE
       THEN Rests(r)
       ELSE errand' = [errand EXCEPT ![r] = Runner("post", agent')]
    /\ UNCHANGED <<onDuty, requests, masterVars>>

(* Its statement is refused, or a look-up of the settings before the       *)
(* request is, or they name no Master.                                     *)
BeatBreaksOff(r) ==
    /\ errand[r].stage \in {"beat", "post"}
    /\ Rests(r)
    /\ UNCHANGED <<agent, onDuty, requests, masterVars>>

(* Which of the forwards that have ended stands for it makes no difference.*)
Send(r, f) ==
    /\ ~Pending(f) /\ f = CHOOSE g \in Forwards : ~Pending(g)
    /\ forward' = [forward EXCEPT ![f] = [stage |-> "link", status |-> errand[r].status,
                                          sender |-> r]]
    /\ newer' = [g \in Forwards |-> IF Awaited(g) /\ r = onDuty THEN newer[g] \cup {f}
                                    ELSE newer[g]]
    /\ UNCHANGED outrun

(* Bug: the beat does not wait for the answer.                             *)
PostToMaster_unawaited(r, f) ==
    /\ errand[r].stage = "post"
    /\ Send(r, f)
    /\ Rests(r)
    /\ UNCHANGED <<agent, onDuty, masterVars>>

(* forwardHeartbeatToMaster()                                              *)
PostToMaster(r, f) ==
    /\ errand[r].stage = "post"
    /\ Send(r, f)
    /\ errand' = [errand EXCEPT ![r] = Runner("wait", NONE)]
    /\ UNCHANGED <<agent, onDuty, masterVars>>

(* "Bounded so a slow/unreachable Master can never stall the local         *)
(* heartbeat pipeline": the request itself goes on.                        *)
TimesOut(f) ==
    /\ Awaited(f)
    /\ Rests(forward[f].sender)
    /\ forward' = [forward EXCEPT ![f].sender = NoSender]
    /\ newer' = [newer EXCEPT ![f] = {}] /\ outrun' = [outrun EXCEPT ![f] = FALSE]
    /\ UNCHANGED <<agent, onDuty, masterVars>>

(* The process ends, and what it has sent goes on without it.              *)
AgentCrashes ==
    /\ onDuty' = NoSender
    /\ errand' = [r \in Senders |-> Runner("off", NONE)]
    /\ forward' = [f \in Forwards |-> [forward[f] EXCEPT !.sender = NoSender]]
    /\ newer' = [f \in Forwards |-> {}] /\ outrun' = [f \in Forwards |-> FALSE]
    /\ UNCHANGED <<agent, masterVars>>

-----------------------------------------------------------------------------
(* Forwards are over, answered or not.                                     *)
Over(F) ==
    /\ forward' = [f \in Forwards |-> IF f \in F THEN NoRequest ELSE forward[f]]
    /\ errand' = [r \in Senders |->
                     IF \E f \in F : forward[f].sender = r
                     THEN Runner(IF r = onDuty THEN "timer" ELSE "off", NONE)
                     ELSE errand[r]]
    /\ newer' = [g \in Forwards |-> IF g \in F THEN {} ELSE newer[g] \ F]
    /\ UNCHANGED <<agent, onDuty>>

(* None of them has been recorded.                                         *)
Unrecorded(F) == outrun' = [g \in Forwards |-> g \notin F /\ outrun[g]]

LinkLoses(f) ==
    /\ forward[f].stage = "link"
    /\ Over({f}) /\ Unrecorded({f})
    /\ UNCHANGED masterVars

-----------------------------------------------------------------------------
(* The Master.  What a status is recorded as is decided where the mirror   *)
(* has just been read: under maintenance, or turned over.                  *)
Judged(s) == IF inWindow THEN MAINTENANCE ELSE Oriented(upside, s)

(* Bug: a monitor that the Master does not know is not created.            *)
Arrives_knownOnly(f) ==
    /\ forward[f].stage = "link"
    /\ IF mirrored
       THEN /\ forward' = [forward EXCEPT ![f].stage = "record",
                                          ![f].status = Judged(forward[f].status)]
            /\ UNCHANGED <<agentVars, newer, outrun>>
       ELSE Over({f}) /\ Unrecorded({f})
    /\ UNCHANGED masterVars

(* findOrCreateMirroredMonitor(): find, ...                                *)
Arrives(f) ==
    /\ forward[f].stage = "link"
    /\ forward' = IF mirrored
                  THEN [forward EXCEPT ![f].stage = "record",
                                       ![f].status = Judged(forward[f].status)]
                  ELSE [forward EXCEPT ![f].stage = "create"]
    /\ UNCHANGED <<agentVars, newer, outrun, masterVars>>

(* ... or create, and not start; the second of two first heartbeats meets  *)
(* the UNIQUE index and is answered with an error.  Of a new monitor there *)
(* is nothing to turn over and no maintenance.                             *)
Creates(f) ==
    /\ forward[f].stage = "create"
    /\ mirrored' = TRUE
    /\ IF mirrored
       THEN Over({f}) /\ Unrecorded({f})
       ELSE /\ forward' = [forward EXCEPT ![f].stage = "record"]
            /\ UNCHANGED <<agentVars, newer, outrun>>
    /\ UNCHANGED <<mirror, upside, inWindow, guarded, doubt>>

(* The heartbeat of the mirror is stored.                                  *)
Records(f) ==
    /\ forward[f].stage = "record"
    /\ mirror' = forward[f].status
    /\ Over({f})
    /\ outrun' = [g \in Forwards |-> g # f /\ (outrun[g] \/ f \in newer[g])]
    /\ UNCHANGED <<mirrored, upside, inWindow, guarded, doubt>>

(* A statement is refused: the request ends as an error.                   *)
MasterFails(f) ==
    /\ forward[f].stage \in {"create", "record"}
    /\ Over({f}) /\ Unrecorded({f})
    /\ UNCHANGED masterVars

(* Clients of the Master's edit, pause or resume the mirror, which starts  *)
(* or stops its runner, and maintenances begin and end.                    *)
MirrorEdited ==
    /\ mirrored
    /\ upside' \in Orientations /\ guarded' \in Watchdogs
    /\ UNCHANGED <<agentVars, requests, mirrored, mirror, inWindow, doubt>>

MaintenanceChanges ==
    /\ mirrored
    /\ inWindow' \in Windows
    /\ UNCHANGED <<agentVars, requests, mirrored, mirror, upside, guarded, doubt>>

(* The watchdog finds no beat in its time window: an agent's interval may  *)
(* well be longer than the mirror's, which is 60 seconds.  The ages of     *)
(* rows are left out, so it may find so at any time.                       *)
WatchdogBeats ==
    /\ guarded /\ doubt = NONE
    /\ doubt' = Judged(DOWN)
    /\ UNCHANGED <<agentVars, requests, mirrored, mirror, upside, inWindow, guarded>>

(* Its heartbeat is stored, or refused, whether it was stopped or not.     *)
WatchdogEnds ==
    /\ doubt # NONE
    /\ mirror' \in {doubt, mirror}
    /\ doubt' = NONE
    /\ UNCHANGED <<agentVars, requests, mirrored, upside, inWindow, guarded>>

(* Requests end with the Master's process; startMonitors() starts a mirror *)
(* that is not paused.                                                     *)
MasterRestarts ==
    LET lost == {f \in Forwards : forward[f].stage \in {"create", "record"}} IN
    /\ Over(lost) /\ Unrecorded(lost)
    /\ guarded' \in {g \in Watchdogs : g => mirrored}
    /\ doubt' = NONE
    /\ UNCHANGED <<mirrored, mirror, upside, inWindow>>

-----------------------------------------------------------------------------
MasterStep(f) == Arrives(f) \/ Creates(f) \/ Records(f)

FederationNext ==
    \/ \E r \in Senders : \/ AgentStarts(r) \/ BeatBegins(r) \/ BeatBreaksOff(r)
                          \/ \E s \in Statuses : BeatStores(r, s)
                          \/ \E f \in Forwards : PostToMaster(r, f)
    \/ AgentPauses \/ AgentCrashes
    \/ \E f \in Forwards : TimesOut(f) \/ LinkLoses(f) \/ MasterStep(f) \/ MasterFails(f)
    \/ MirrorEdited \/ MaintenanceChanges
    \/ WatchdogBeats \/ WatchdogEnds \/ MasterRestarts

FederationSpec == FederationInit /\ [][FederationNext]_federationVars

(* The agent's beats go on, and of those it makes again and again one is   *)
(* stored and sent; a request is lost or served in the end, and of         *)
(* requests sent again and again one gets through each step.               *)
SomeStep == \E f \in Forwards : MasterStep(f) \/ LinkLoses(f)

FederationFairness ==
    /\ WF_federationVars(\E r \in Senders : BeatBegins(r))
    /\ SF_federationVars(\E r \in Senders, s \in Statuses : BeatStores(r, s))
    /\ SF_federationVars(\E r \in Senders, f \in Forwards : PostToMaster(r, f))
    /\ WF_federationVars(\E f \in Forwards : TimesOut(f))
    /\ WF_federationVars(SomeStep)
    /\ SF_federationVars(\E f \in Forwards : Arrives(f))
    /\ SF_federationVars(\E f \in Forwards : Creates(f))
    /\ SF_federationVars(\E f \in Forwards : Records(f))
    /\ WF_federationVars(WatchdogEnds)

-----------------------------------------------------------------------------
(* Of the statuses that listed runners send, one is recorded after a later *)
(* one only if its runner has given it up, or been replaced, paused or     *)
(* killed: the forward the listed runner waits for is never outrun, save   *)
(* by what a stopped runner sends in its last beat.                        *)
MirrorInOrder ==
    \A f \in Forwards :
        Awaited(f) /\ forward[f].sender = onDuty => ~outrun[f]

(* While the agent's monitor stays as it is, neither paused nor restarted, *)
(* and the mirror is neither turned over nor under maintenance: however    *)
(* many forwards are lost, given up or refused, the mirror comes to what   *)
(* the agent's status is recorded as.  There it stays, unless a watchdog   *)
(* of the Master's takes an agent that is UP for a silent one between two  *)
(* of its heartbeats.                                                      *)
Steady ==
    /\ <>[](agent # NONE /\ onDuty # NoSender /\ ~inWindow)
    /\ <>[][UNCHANGED <<agent, upside>>]_federationVars

MirrorSettles ==
    Steady => /\ []<>(mirror = Oriented(upside, agent))
              /\ <>[](agent = UP => ~guarded) => <>[](mirror = Oriented(upside, agent))
=============================================================================
