------------------------------ MODULE MCLasting ------------------------------
(* What comes about in the end, in one run: a behaviour is one of the part *)
(* it has chosen, and the other parts stay as they were at the beginning.  *)
EXTENDS MonitorBeat, SettingsCache, MonitorTree, Federation

VARIABLE part

all == <<part, vars, cacheVars, treeVars, federationVars>>

Beginning ==
    /\ part \in {"beat", "cache", "tree", "federation"}
    /\ Init /\ CacheInit /\ TreeInit /\ FederationInit
    /\ part # "cache" => setting = [k \in Keys |-> CHOOSE v \in Values : TRUE]

OfBeat  == part = "beat" /\ UNCHANGED <<part, cacheVars, treeVars, federationVars>>
OfCache == part = "cache" /\ UNCHANGED <<part, vars, treeVars, federationVars>>
OfTree  == part = "tree" /\ UNCHANGED <<part, vars, cacheVars, federationVars>>
OfLink  == part = "federation" /\ UNCHANGED <<part, vars, cacheVars, treeVars>>

Continuing ==
    \/ OfBeat /\ Next
    \/ OfCache /\ CacheNext
    \/ OfTree /\ TreeNext
    \/ OfLink /\ FederationNext

(* One part moves, so an action that is fair is that of whichever it is:   *)
(* together these are Fairness, CacheFairness, TreeFairness and            *)
(* FederationFairness, in fewer conditions.                                *)
AllFairness ==
    /\ WF_all(\/ OfBeat /\ ((\E m \in Configs : Start(m)) \/ Timer \/ Forward)
              \/ OfCache /\ CleanerTick
              \/ OfTree /\ TreeStep("editor")
              \/ OfLink /\ \E r \in Senders : BeatBegins(r))
    /\ WF_all(\/ OfCache /\ \E r \in Readers : GetStep(r)
              \/ OfTree /\ TreeStep("deleter")
              \/ OfLink /\ \E f \in Forwards : TimesOut(f))
    /\ WF_all(\/ OfCache /\ \E w \in Writers : SetStep(w)
              \/ OfLink /\ SomeStep)
    /\ WF_all(OfLink /\ WatchdogEnds)
    /\ SF_all(\/ OfBeat /\ ReadPrevious
              \/ OfLink /\ \E f \in Forwards : Creates(f))
    /\ SF_all(\/ OfBeat /\ (EnterMaintenance \/ BeginCheck)
              \/ OfLink /\ \E f \in Forwards : Records(f))
    /\ SF_all(\/ OfBeat /\ \E o \in Outcomes : Check(o)
              \/ OfLink /\ \E r \in Senders, s \in Statuses : BeatStores(r, s))
    /\ SF_all(\/ OfBeat /\ Notify
              \/ OfLink /\ \E r \in Senders, f \in Forwards : PostToMaster(r, f))
    /\ SF_all(\/ OfBeat /\ UpdateUptime
              \/ OfLink /\ \E f \in Forwards : Arrives(f))
    /\ SF_all(OfBeat /\ Store)

Lasting == Beginning /\ [][Continuing]_all /\ AllFairness

-----------------------------------------------------------------------------
Config(type, maxretries, resend, upsideDown, codeOnly) ==
    [type |-> type, maxretries |-> maxretries, resendInterval |-> resend,
     upsideDown |-> upsideDown, codeOnly |-> codeOnly]

UpsideConfigs == { Config("http", 1, 2, TRUE, FALSE) }
AllFaults     == {"crash", "database"}

(* Bounds of the tree, as in MCServices; and while the mirror is under     *)
(* maintenance, or its watchdog at work, one forward is on its way at most.*)
TreeClients == {"editor", "deleter"}

Followed ==
    /\ ~crossed /\ ~torn
    /\ ~Editing("deleter") /\ stage["editor"] \notin {"delete.kids", "delete.work"}
    /\ Len(work["deleter"]) <= 4
    /\ inWindow \/ doubt # NONE => \A f, g \in Forwards : Pending(f) /\ Pending(g) => f = g

-----------------------------------------------------------------------------
(* What lasts is recorded and announced in the end, whatever crashes and   *)
(* whichever statements are refused: an outage as DOWN, a recovery as UP,  *)
(* and where reminders are on the subscribers have heard of the outage.    *)
LastingIsKnown ==
    <>[](part = "beat") => OutageIsRecorded /\ RecoveryIsRecorded /\ OutageIsAnnounced
=============================================================================
