--------------------------- MODULE DeliveryProofs ---------------------------
(***************************************************************************)
(* Proofs about what is on its way to somebody: the statuses an agent      *)
(* sends its master, the alerts a monitor raises, the notices that a       *)
(* domain is about to expire, and the heartbeats a tab of a browser shows. *)
(***************************************************************************)
EXTENDS Federation, AlertDelivery, DomainExpiry, TabBeats, WellFoundedInduction,
        FiniteSetTheorems, SequenceTheorems, TLAPS

-----------------------------------------------------------------------------
(* Each runner awaits the answer to one forward at most, and while the one *)
(* that the listed runner waits for is on its way nothing is sent after it *)
(* by a listed runner; a forward that has ended has left no trace.         *)
AwaitedIsNewest ==
    \A f \in Forwards :
        /\ Awaited(f) => Pending(f) /\ errand[forward[f].sender].stage = "wait"
        /\ Awaited(f) /\ forward[f].sender = onDuty => newer[f] = {} /\ ~outrun[f]
        /\ ~Pending(f) => newer[f] = {} /\ ~outrun[f]
        /\ \A g \in Forwards :
              Awaited(f) /\ forward[g].sender = forward[f].sender => g = f

MirrorInv == FederationTypeOK /\ AwaitedIsNewest

Errand  == [stage : {"off", "timer", "beat", "post", "wait"}, status : {UP, DOWN, NONE}]
Request == [stage : {"none", "link", "create", "record"},
            status : {UP, DOWN, MAINTENANCE, NONE}, sender : Senders \cup {NoSender}]

LEMMA RestsKeepsTypes ==
    ASSUME FederationTypeOK, NEW r \in Senders, Rests(r)
    PROVE  errand' \in [Senders -> Errand]
<1>1. Runner("timer", NONE) \in Errand /\ Runner("off", NONE) \in Errand
  BY DEF Runner, Errand
<1>2. errand \in [Senders -> Errand]
  BY DEF FederationTypeOK, Errand
<1> QED
  BY <1>1, <1>2 DEF Rests

LEMMA OverKeepsTypes ==
    ASSUME FederationTypeOK, NEW F \in SUBSET Forwards, Over(F)
    PROVE  /\ agent' \in {UP, DOWN, NONE} /\ onDuty' \in Senders \cup {NoSender}
           /\ errand' \in [Senders -> Errand] /\ forward' \in [Forwards -> Request]
           /\ newer' \in [Forwards -> SUBSET Forwards]
<1> USE DEF FederationTypeOK
<1>1. Runner("timer", NONE) \in Errand /\ Runner("off", NONE) \in Errand /\ NoRequest \in Request
  BY DEF Runner, Errand, NoRequest, Request
<1>2. errand \in [Senders -> Errand] /\ forward \in [Forwards -> Request]
  BY DEF Errand, Request
<1>3. errand' \in [Senders -> Errand]
  BY <1>1, <1>2 DEF Over
<1>4. forward' \in [Forwards -> Request]
  BY <1>1, <1>2 DEF Over
<1> QED
  BY <1>3, <1>4 DEF Over

LEMMA ServedKeepsTypes ==
    ASSUME FederationTypeOK, NEW f \in Forwards, NEW s \in {"create", "record"},
           NEW t \in {UP, DOWN, MAINTENANCE, NONE},
           forward' = [forward EXCEPT ![f].stage = s, ![f].status = t]
    PROVE  forward' \in [Forwards -> Request]
<1>1. forward \in [Forwards -> Request]
  BY DEF FederationTypeOK, Request
<1>2. [forward[f] EXCEPT !.stage = s, !.status = t] \in Request
  BY <1>1 DEF Request
<1>3. forward' = [forward EXCEPT ![f] = [forward[f] EXCEPT !.stage = s, !.status = t]]
  BY <1>1 DEF Request
<1> QED
  BY <1>1, <1>2, <1>3

LEMMA JudgedType ==
    ASSUME NEW s \in {UP, DOWN, MAINTENANCE, NONE}
    PROVE  Judged(s) \in {UP, DOWN, MAINTENANCE, NONE}
BY DEF Judged, Oriented, FlipStatus

LEMMA MirrorTypesKept ==
    ASSUME MirrorInv, [FederationNext]_federationVars
    PROVE  FederationTypeOK'
<1> USE FederationAssumption
<1>1. FederationTypeOK
  BY DEF MirrorInv
<1>2. errand \in [Senders -> Errand] /\ forward \in [Forwards -> Request]
  BY <1>1 DEF FederationTypeOK, Errand, Request
<1> USE DEF agentVars, requests, masterVars
<1>3. Runner("timer", NONE) \in Errand /\ Runner("off", NONE) \in Errand
      /\ Runner("wait", NONE) \in Errand /\ NoRequest \in Request
  BY DEF Runner, Errand, NoRequest, Request
<1>4. ASSUME NEW r \in Senders, AgentStarts(r)
      PROVE  onDuty' \in Senders \cup {NoSender} /\ errand' \in [Senders -> Errand]
             /\ UNCHANGED <<agent, requests, masterVars>>
  BY <1>2, <1>3, <1>4 DEF AgentStarts
<1>5. ASSUME AgentPauses
      PROVE  onDuty' \in Senders \cup {NoSender} /\ errand' \in [Senders -> Errand]
             /\ UNCHANGED <<agent, requests, masterVars>>
  BY <1>2, <1>3, <1>5 DEF AgentPauses
<1>6. ASSUME NEW r \in Senders, BeatBegins(r)
      PROVE  errand' \in [Senders -> Errand] /\ UNCHANGED <<agent, onDuty, requests, masterVars>>
  <2>1. [errand[r] EXCEPT !.stage = "beat"] \in Errand
    BY <1>2 DEF Errand
  <2>2. errand' = [errand EXCEPT ![r] = [errand[r] EXCEPT !.stage = "beat"]]
    BY <1>2, <1>6 DEF BeatBegins
  <2> QED
    BY <1>2, <1>6, <2>1, <2>2 DEF BeatBegins
<1>7. ASSUME NEW r \in Senders, NEW s \in Statuses, BeatStores(r, s)
      PROVE  /\ agent' \in {UP, DOWN, NONE} /\ errand' \in [Senders -> Errand]
             /\ UNCHANGED <<onDuty, requests, masterVars>>
  <2>1. agent' \in {UP, DOWN, NONE}
    BY <1>7 DEF BeatStores, MapStatusForMaster
  <2>2. CASE agent' = NONE
    BY <1>1, <1>7, <2>1, <2>2, RestsKeepsTypes DEF BeatStores
  <2>3. CASE agent' # NONE
    <3>1. Runner("post", agent') \in Errand
      BY <2>1 DEF Runner, Errand
    <3> QED
      BY <1>2, <1>7, <2>1, <2>3, <3>1 DEF BeatStores
  <2> QED
    BY <2>2, <2>3
<1>8. ASSUME NEW r \in Senders, BeatBreaksOff(r)
      PROVE  errand' \in [Senders -> Errand] /\ UNCHANGED <<agent, onDuty, requests, masterVars>>
  BY <1>1, <1>8, RestsKeepsTypes DEF BeatBreaksOff
<1>9. ASSUME NEW r \in Senders, NEW f \in Forwards, PostToMaster(r, f)
      PROVE  /\ errand' \in [Senders -> Errand] /\ forward' \in [Forwards -> Request]
             /\ newer' \in [Forwards -> SUBSET Forwards] /\ outrun' = outrun
             /\ UNCHANGED <<agent, onDuty, masterVars>>
  <2>1. [stage |-> "link", status |-> errand[r].status, sender |-> r] \in Request
    BY <1>2 DEF Errand, Request
  <2>2. forward' \in [Forwards -> Request]
    BY <1>2, <1>9, <2>1 DEF PostToMaster, Send
  <2>3. newer' \in [Forwards -> SUBSET Forwards]
    BY <1>1, <1>9 DEF PostToMaster, Send, FederationTypeOK
  <2> QED
    BY <1>2, <1>3, <1>9, <2>2, <2>3 DEF PostToMaster, Send
<1>10. ASSUME NEW f \in Forwards, TimesOut(f)
       PROVE  /\ errand' \in [Senders -> Errand] /\ forward' \in [Forwards -> Request]
              /\ newer' \in [Forwards -> SUBSET Forwards] /\ outrun' \in [Forwards -> BOOLEAN]
              /\ UNCHANGED <<agent, onDuty, masterVars>>
  <2>1. forward[f].sender \in Senders
    BY <1>2, <1>10 DEF TimesOut, Awaited, Request
  <2>2. errand' \in [Senders -> Errand]
    BY <1>1, <1>10, <2>1, RestsKeepsTypes DEF TimesOut
  <2>3. [forward[f] EXCEPT !.sender = NoSender] \in Request
    BY <1>2 DEF Request
  <2>4. forward' = [forward EXCEPT ![f] = [forward[f] EXCEPT !.sender = NoSender]]
    BY <1>2, <1>10 DEF TimesOut
  <2> QED
    BY <1>1, <1>2, <1>10, <2>2, <2>3, <2>4 DEF TimesOut, FederationTypeOK
<1>11. ASSUME AgentCrashes
       PROVE  /\ onDuty' \in Senders \cup {NoSender} /\ errand' \in [Senders -> Errand]
              /\ forward' \in [Forwards -> Request]
              /\ newer' \in [Forwards -> SUBSET Forwards] /\ outrun' \in [Forwards -> BOOLEAN]
              /\ UNCHANGED <<agent, masterVars>>
  <2>1. \A f \in Forwards : [forward[f] EXCEPT !.sender = NoSender] \in Request
    BY <1>2 DEF Request
  <2> QED
    BY <1>3, <1>11, <2>1 DEF AgentCrashes
<1>12. ASSUME NEW F \in SUBSET Forwards, Unrecorded(F)
       PROVE  outrun' \in [Forwards -> BOOLEAN]
  BY <1>12 DEF Unrecorded
<1>13. ASSUME NEW f \in Forwards, LinkLoses(f)
       PROVE  Over({f}) /\ outrun' \in [Forwards -> BOOLEAN] /\ UNCHANGED masterVars
  BY <1>12, <1>13 DEF LinkLoses
<1>14. ASSUME NEW f \in Forwards, Arrives(f)
       PROVE  /\ forward' \in [Forwards -> Request]
              /\ UNCHANGED <<agentVars, newer, outrun, masterVars>>
  <2>1. forward[f].status \in {UP, DOWN, MAINTENANCE, NONE}
        /\ Judged(forward[f].status) \in {UP, DOWN, MAINTENANCE, NONE}
    BY <1>2, JudgedType DEF Request
  <2>2. CASE mirrored
    BY <1>1, <1>14, <2>1, <2>2, ServedKeepsTypes DEF Arrives
  <2>3. CASE ~mirrored
    <3>1. [forward[f] EXCEPT !.stage = "create"] \in Request
      BY <1>2 DEF Request
    <3>2. forward' = [forward EXCEPT ![f] = [forward[f] EXCEPT !.stage = "create"]]
      BY <1>2, <1>14, <2>3 DEF Arrives
    <3> QED
      BY <1>2, <1>14, <3>1, <3>2 DEF Arrives
  <2> QED
    BY <2>2, <2>3
<1>15. ASSUME NEW f \in Forwards, Creates(f)
       PROVE  /\ \/ Over({f}) /\ outrun' \in [Forwards -> BOOLEAN]
                 \/ forward' \in [Forwards -> Request] /\ UNCHANGED <<agentVars, newer, outrun>>
              /\ mirrored' \in BOOLEAN
              /\ UNCHANGED <<mirror, upside, inWindow, guarded, doubt>>
  <2>1. CASE mirrored
    BY <1>12, <1>15, <2>1 DEF Creates
  <2>2. CASE ~mirrored
    <3>1. [forward[f] EXCEPT !.stage = "record"] \in Request
      BY <1>2 DEF Request
    <3>2. forward' = [forward EXCEPT ![f] = [forward[f] EXCEPT !.stage = "record"]]
      BY <1>2, <1>15, <2>2 DEF Creates
    <3> QED
      BY <1>2, <1>15, <2>2, <3>1, <3>2 DEF Creates
  <2> QED
    BY <2>1, <2>2
<1>16. ASSUME NEW f \in Forwards, Records(f)
       PROVE  /\ Over({f}) /\ outrun' \in [Forwards -> BOOLEAN]
              /\ mirror' \in {UP, DOWN, MAINTENANCE, NONE}
              /\ UNCHANGED <<mirrored, upside, inWindow, guarded, doubt>>
  BY <1>1, <1>2, <1>16 DEF Records, Request, FederationTypeOK
<1>17. ASSUME NEW f \in Forwards, MasterFails(f)
       PROVE  Over({f}) /\ outrun' \in [Forwards -> BOOLEAN] /\ UNCHANGED masterVars
  BY <1>12, <1>17 DEF MasterFails
<1>18. ASSUME MirrorEdited
       PROVE  /\ {upside', guarded'} \subseteq BOOLEAN
              /\ UNCHANGED <<agentVars, requests, mirrored, mirror, inWindow, doubt>>
  BY <1>18 DEF MirrorEdited
<1>19. ASSUME MaintenanceChanges
       PROVE  /\ inWindow' \in BOOLEAN
              /\ UNCHANGED <<agentVars, requests, mirrored, mirror, upside, guarded, doubt>>
  BY <1>19 DEF MaintenanceChanges
<1>20. ASSUME WatchdogBeats
       PROVE  /\ doubt' \in {UP, DOWN, MAINTENANCE, NONE}
              /\ UNCHANGED <<agentVars, requests, mirrored, mirror, upside, inWindow, guarded>>
  BY <1>20, JudgedType DEF WatchdogBeats
<1>21. ASSUME WatchdogEnds
       PROVE  /\ {mirror', doubt'} \subseteq {UP, DOWN, MAINTENANCE, NONE}
              /\ UNCHANGED <<agentVars, requests, mirrored, upside, inWindow, guarded>>
  BY <1>1, <1>21 DEF WatchdogEnds, FederationTypeOK
<1>22. ASSUME MasterRestarts
       PROVE  /\ \E F \in SUBSET Forwards : Over(F)
              /\ outrun' \in [Forwards -> BOOLEAN]
              /\ guarded' \in BOOLEAN /\ doubt' = NONE
              /\ UNCHANGED <<mirrored, mirror, upside, inWindow>>
  <2> DEFINE lost == {f \in Forwards : forward[f].stage \in {"create", "record"}}
  <2>1. lost \in SUBSET Forwards
    OBVIOUS
  <2>2. Over(lost) /\ Unrecorded(lost)
    BY <1>22 DEF MasterRestarts
  <2> HIDE DEF lost
  <2>3. outrun' \in [Forwards -> BOOLEAN]
    BY <1>12, <2>1, <2>2
  <2> QED
    BY <1>22, <2>1, <2>2, <2>3 DEF MasterRestarts
<1>23. ASSUME NEW F \in SUBSET Forwards, Over(F)
       PROVE  /\ agent' \in {UP, DOWN, NONE} /\ onDuty' \in Senders \cup {NoSender}
              /\ errand' \in [Senders -> Errand] /\ forward' \in [Forwards -> Request]
              /\ newer' \in [Forwards -> SUBSET Forwards]
  BY <1>1, <1>23, OverKeepsTypes
<1>24. ASSUME NEW f \in Forwards, Over({f})
       PROVE  /\ agent' \in {UP, DOWN, NONE} /\ onDuty' \in Senders \cup {NoSender}
              /\ errand' \in [Senders -> Errand] /\ forward' \in [Forwards -> Request]
              /\ newer' \in [Forwards -> SUBSET Forwards]
  <2>1. {f} \in SUBSET Forwards
    OBVIOUS
  <2> QED
    BY <1>23, <1>24, <2>1
<1> USE <1>1, <1>2 DEF FederationTypeOK
<1>25. ASSUME NEW r \in Senders,
              \/ AgentStarts(r) \/ BeatBegins(r) \/ BeatBreaksOff(r)
              \/ \E s \in Statuses : BeatStores(r, s)
              \/ \E f \in Forwards : PostToMaster(r, f)
       PROVE  FederationTypeOK'
  <2>1. CASE AgentStarts(r)
    BY <1>4, <2>1 DEF Errand
  <2>2. CASE BeatBegins(r)
    BY <1>6, <2>2 DEF Errand
  <2>3. CASE BeatBreaksOff(r)
    BY <1>8, <2>3 DEF Errand
  <2>4. ASSUME NEW s \in Statuses, BeatStores(r, s) PROVE FederationTypeOK'
    BY <1>7, <2>4 DEF Errand
  <2>5. ASSUME NEW f \in Forwards, PostToMaster(r, f) PROVE FederationTypeOK'
    BY <1>9, <2>5 DEF Errand, Request
  <2> QED
    BY <1>25, <2>1, <2>2, <2>3, <2>4, <2>5
<1>26. ASSUME NEW f \in Forwards,
              TimesOut(f) \/ LinkLoses(f) \/ MasterStep(f) \/ MasterFails(f)
       PROVE  FederationTypeOK'
  <2>1. CASE TimesOut(f)
    BY <1>10, <2>1 DEF Errand, Request
  <2>2. CASE LinkLoses(f)
    BY <1>13, <1>24, <2>2 DEF Errand, Request
  <2>3. CASE Arrives(f)
    BY <1>14, <2>3 DEF Request
  <2>4. CASE Creates(f)
    BY <1>15, <1>24, <2>4 DEF Errand, Request
  <2>5. CASE Records(f)
    BY <1>16, <1>24, <2>5 DEF Errand, Request
  <2>6. CASE MasterFails(f)
    BY <1>17, <1>24, <2>6 DEF Errand, Request
  <2> QED
    BY <1>26, <2>1, <2>2, <2>3, <2>4, <2>5, <2>6 DEF MasterStep
<1>27. CASE AgentPauses
  BY <1>5, <1>27 DEF Errand
<1>28. CASE AgentCrashes
  BY <1>11, <1>28 DEF Errand, Request
<1>29. CASE MirrorEdited
  BY <1>18, <1>29
<1>30. CASE MaintenanceChanges
  BY <1>19, <1>30
<1>31. CASE WatchdogBeats \/ WatchdogEnds
  BY <1>20, <1>21, <1>31
<1>32. CASE MasterRestarts
  BY <1>22, <1>23, <1>32 DEF Errand, Request
<1>33. CASE UNCHANGED federationVars
  BY <1>33 DEF federationVars
<1> QED
  BY <1>25, <1>26, <1>27, <1>28, <1>29, <1>30, <1>31, <1>32, <1>33 DEF FederationNext

(* Forwards that end leave the others as they were.                        *)
LEMMA EndsInOrder ==
    ASSUME MirrorInv, NEW F \in SUBSET Forwards, Over(F),
           \A g \in Forwards :
              outrun'[g] => g \notin F /\ (outrun[g] \/ newer[g] # {})
    PROVE  AwaitedIsNewest'
<1> USE FederationAssumption DEF MirrorInv
<1>1. \A f \in F : forward'[f] = NoRequest /\ newer'[f] = {} /\ ~outrun'[f]
  BY DEF Over
<1>2. \A f \in Forwards \ F :
         /\ forward'[f] = forward[f] /\ newer'[f] = newer[f] \ F
         /\ outrun'[f] => outrun[f] \/ newer[f] # {}
  BY DEF Over
<1>3. onDuty' = onDuty
  BY DEF Over
<1>4. \A r \in Senders : (\A f \in F : forward[f].sender # r) => errand'[r] = errand[r]
  BY DEF Over
<1>5. NoRequest.stage = "none" /\ NoRequest.sender = NoSender
  BY DEF NoRequest
<1>6. \A f \in Forwards : forward[f].sender \in Senders \cup {NoSender}
  BY DEF FederationTypeOK
<1> SUFFICES ASSUME NEW f \in Forwards
             PROVE  /\ Awaited(f)' => Pending(f)' /\ errand'[forward'[f].sender].stage = "wait"
                    /\ Awaited(f)' /\ forward'[f].sender = onDuty'
                          => newer'[f] = {} /\ ~outrun'[f]
                    /\ ~Pending(f)' => newer'[f] = {} /\ ~outrun'[f]
                    /\ \A g \in Forwards :
                          Awaited(f)' /\ forward'[g].sender = forward'[f].sender => g = f
  BY DEF AwaitedIsNewest, Awaited, Pending
<1>7. CASE f \in F
  BY <1>1, <1>5, <1>7 DEF Awaited, Pending
<1>8. CASE f \notin F
  <2>1. forward'[f] = forward[f] /\ newer'[f] = newer[f] \ F
        /\ (outrun'[f] => outrun[f] \/ newer[f] # {})
    BY <1>2, <1>8
  <2>2. ASSUME Awaited(f) PROVE errand'[forward[f].sender] = errand[forward[f].sender]
    <3>1. forward[f].sender \in Senders /\ \A g \in F : forward[g].sender # forward[f].sender
      BY <1>6, <1>8, <2>2 DEF AwaitedIsNewest, Awaited
    <3> QED
      BY <1>4, <3>1
  <2>3. \A g \in Forwards : Awaited(f) /\ forward'[g].sender = forward'[f].sender => g = f
    BY <1>1, <1>2, <1>5, <2>1 DEF AwaitedIsNewest, Awaited
  <2> QED
    BY <1>3, <2>1, <2>2, <2>3 DEF AwaitedIsNewest, Awaited, Pending
<1> QED
  BY <1>7, <1>8

LEMMA MirrorInvHolds == FederationSpec => []MirrorInv
<1> USE FederationAssumption
<1>1. FederationInit => MirrorInv
  <2> SUFFICES ASSUME FederationInit PROVE MirrorInv
    OBVIOUS
  <2>1. FederationTypeOK
    BY DEF FederationInit, FederationTypeOK, NoRequest, Runner
  <2> QED
    BY <2>1 DEF FederationInit, MirrorInv, AwaitedIsNewest, Awaited, Pending, NoRequest
<1>2. MirrorInv /\ [FederationNext]_federationVars => MirrorInv'
  <2> SUFFICES ASSUME MirrorInv, [FederationNext]_federationVars PROVE AwaitedIsNewest'
    BY MirrorTypesKept DEF MirrorInv
  <2>1. FederationTypeOK /\ AwaitedIsNewest
    BY DEF MirrorInv
  <2>2. /\ \A f \in Forwards : forward[f].sender \in Senders \cup {NoSender}
        /\ errand \in [Senders -> Errand] /\ forward \in [Forwards -> Request]
        /\ newer \in [Forwards -> SUBSET Forwards] /\ outrun \in [Forwards -> BOOLEAN]
    BY <2>1 DEF FederationTypeOK, Errand, Request
  (* A runner that waits for an answer waits on, another may be listed     *)
  (* that waits for none.                                                  *)
  <2>3. ASSUME UNCHANGED requests,
               \A q \in Senders : errand[q].stage = "wait" => errand'[q] = errand[q],
               \/ onDuty' = onDuty
               \/ onDuty' = NoSender
               \/ onDuty' \in Senders /\ errand[onDuty'].stage # "wait"
        PROVE  AwaitedIsNewest'
    BY <2>1, <2>2, <2>3 DEF AwaitedIsNewest, Awaited, Pending, requests
  <2>4. ASSUME NEW r \in Senders, AgentStarts(r) PROVE AwaitedIsNewest'
    BY <2>2, <2>3, <2>4 DEF AgentStarts
  <2>5. CASE AgentPauses
    BY <2>2, <2>3, <2>5 DEF AgentPauses
  <2>6. ASSUME NEW r \in Senders, BeatBegins(r) PROVE AwaitedIsNewest'
    BY <2>2, <2>3, <2>6 DEF BeatBegins
  <2>7. ASSUME NEW r \in Senders, NEW s \in Statuses, BeatStores(r, s) PROVE AwaitedIsNewest'
    BY <2>2, <2>3, <2>7 DEF BeatStores, Rests
  <2>8. ASSUME NEW r \in Senders, BeatBreaksOff(r) PROVE AwaitedIsNewest'
    BY <2>2, <2>3, <2>8 DEF BeatBreaksOff, Rests
  <2>9. ASSUME NEW r \in Senders, NEW f \in Forwards, PostToMaster(r, f)
        PROVE  AwaitedIsNewest'
    <3>1. forward'[f].stage = "link" /\ forward'[f].sender = r
      BY <2>2, <2>9 DEF PostToMaster, Send
    <3>2. \A g \in Forwards : g # f => forward'[g] = forward[g]
      BY <2>2, <2>9 DEF PostToMaster, Send
    <3>3. errand'[r].stage = "wait" /\ \A q \in Senders : q # r => errand'[q] = errand[q]
      BY <2>2, <2>9 DEF PostToMaster, Runner
    <3>4. ~Pending(f) /\ newer[f] = {} /\ ~outrun[f] /\ ~Awaited(f)
      BY <2>1, <2>9 DEF PostToMaster, Send, AwaitedIsNewest
    <3>5. \A g \in Forwards : newer'[g] = IF Awaited(g) /\ r = onDuty THEN newer[g] \cup {f}
                                          ELSE newer[g]
      BY <2>9 DEF PostToMaster, Send
    <3>6. outrun' = outrun /\ onDuty' = onDuty /\ errand[r].stage = "post"
      BY <2>9 DEF PostToMaster, Send
    <3>7. \A g \in Forwards : Awaited(g) => forward[g].sender # r
      BY <2>1, <3>6 DEF AwaitedIsNewest
    <3>8. \A g \in Forwards : forward[g].sender # r
      BY <3>7 DEF Awaited
    <3>9. ASSUME NEW g \in Forwards, g # f
          PROVE  /\ Awaited(g)' => Pending(g)' /\ errand'[forward'[g].sender].stage = "wait"
                 /\ Awaited(g)' /\ forward'[g].sender = onDuty'
                       => newer'[g] = {} /\ ~outrun'[g]
                 /\ ~Pending(g)' => newer'[g] = {} /\ ~outrun'[g]
                 /\ \A h \in Forwards :
                       Awaited(g)' /\ forward'[h].sender = forward'[g].sender => h = g
      <4>1. forward'[g] = forward[g] /\ forward[g].sender # r
        BY <3>2, <3>8, <3>9
      <4>2. Awaited(g) => errand'[forward[g].sender] = errand[forward[g].sender]
        BY <2>2, <3>3, <4>1 DEF Awaited
      <4>3. Awaited(g)' => Pending(g)' /\ errand'[forward'[g].sender].stage = "wait"
        BY <2>1, <4>1, <4>2 DEF AwaitedIsNewest, Awaited, Pending
      <4>4. Awaited(g)' /\ forward'[g].sender = onDuty' => newer'[g] = {} /\ ~outrun'[g]
        BY <2>1, <3>5, <3>6, <4>1 DEF AwaitedIsNewest, Awaited
      <4>5. ~Pending(g)' => newer'[g] = {} /\ ~outrun'[g]
        BY <2>1, <3>5, <3>6, <4>1 DEF AwaitedIsNewest, Awaited, Pending
      <4>6. \A h \in Forwards : Awaited(g)' /\ forward'[h].sender = forward'[g].sender => h = g
        BY <2>1, <3>1, <3>2, <4>1 DEF AwaitedIsNewest, Awaited
      <4> QED
        BY <4>3, <4>4, <4>5, <4>6
    <3>10. /\ Pending(f)' /\ errand'[forward'[f].sender].stage = "wait"
           /\ newer'[f] = {} /\ ~outrun'[f]
           /\ \A h \in Forwards : forward'[h].sender = forward'[f].sender => h = f
      BY <3>1, <3>2, <3>3, <3>4, <3>5, <3>6, <3>8 DEF Pending
    <3> QED
      BY <3>9, <3>10 DEF AwaitedIsNewest
  <2>10. ASSUME NEW f \in Forwards, TimesOut(f) PROVE AwaitedIsNewest'
    <3>1. forward'[f].stage = forward[f].stage /\ forward'[f].sender = NoSender
          /\ newer'[f] = {} /\ ~outrun'[f]
      BY <2>2, <2>10 DEF TimesOut, Request
    <3>2. \A g \in Forwards : g # f => /\ forward'[g] = forward[g]
                                       /\ newer'[g] = newer[g] /\ outrun'[g] = outrun[g]
      BY <2>2, <2>10 DEF TimesOut
    <3>3. \A q \in Senders : q # forward[f].sender => errand'[q] = errand[q]
      BY <2>2, <2>10 DEF TimesOut, Rests
    <3>4. onDuty' = onDuty /\ Awaited(f)
      BY <2>10 DEF TimesOut
    <3> QED
      BY <2>1, <2>2, <3>1, <3>2, <3>3, <3>4 DEF AwaitedIsNewest, Awaited, Pending
  <2>11. CASE AgentCrashes
    <3>1. \A f \in Forwards : forward'[f].sender = NoSender /\ newer'[f] = {} /\ ~outrun'[f]
      BY <2>2, <2>11 DEF AgentCrashes, Request
    <3> QED
      BY <3>1 DEF AwaitedIsNewest, Awaited
  <2>12. ASSUME NEW F \in SUBSET Forwards, Over(F), Unrecorded(F) PROVE AwaitedIsNewest'
    <3>1. \A g \in Forwards : outrun'[g] => g \notin F /\ (outrun[g] \/ newer[g] # {})
      BY <2>12 DEF Unrecorded
    <3> QED
      BY <2>12, <3>1, EndsInOrder
  <2>13. ASSUME NEW f \in Forwards, Over({f}), Unrecorded({f}) PROVE AwaitedIsNewest'
    <3>1. {f} \in SUBSET Forwards
      OBVIOUS
    <3> QED
      BY <2>12, <2>13, <3>1
  <2>14. ASSUME NEW f \in Forwards, NEW s \in {"create", "record"},
                UNCHANGED <<agentVars, newer, outrun>>,
                forward'[f].stage = s, forward'[f].sender = forward[f].sender,
                \A g \in Forwards : g # f => forward'[g] = forward[g], Pending(f)
         PROVE  AwaitedIsNewest'
    <3>1. errand' = errand /\ onDuty' = onDuty /\ newer' = newer /\ outrun' = outrun
      BY <2>14 DEF agentVars
    <3>2. \A g \in Forwards : forward'[g].sender = forward[g].sender
                              /\ (Pending(g)' <=> Pending(g))
      BY <2>14 DEF Pending
    <3> QED
      BY <2>1, <3>1, <3>2 DEF AwaitedIsNewest, Awaited
  <2>15. ASSUME NEW f \in Forwards, LinkLoses(f) \/ MasterFails(f) PROVE AwaitedIsNewest'
    BY <2>13, <2>15 DEF LinkLoses, MasterFails
  <2>16. ASSUME NEW f \in Forwards, Arrives(f) PROVE AwaitedIsNewest'
    <3>1. Pending(f)
      BY <2>16 DEF Arrives, Pending
    <3>2. UNCHANGED <<agentVars, newer, outrun>>
      BY <2>16 DEF Arrives
    <3>3. \A g \in Forwards : g # f => forward'[g] = forward[g]
      BY <2>2, <2>16 DEF Arrives
    <3>4. forward'[f].sender = forward[f].sender /\ forward'[f].stage \in {"create", "record"}
      BY <2>2, <2>16 DEF Arrives, Request
    <3> QED
      BY <2>14, <3>1, <3>2, <3>3, <3>4
  <2>17. ASSUME NEW f \in Forwards, Creates(f) PROVE AwaitedIsNewest'
    <3>1. CASE mirrored
      BY <2>13, <2>17, <3>1 DEF Creates
    <3>2. CASE ~mirrored
      <4>1. Pending(f) /\ UNCHANGED <<agentVars, newer, outrun>>
        BY <2>17, <3>2 DEF Creates, Pending
      <4>2. /\ forward'[f].sender = forward[f].sender /\ forward'[f].stage = "record"
            /\ \A g \in Forwards : g # f => forward'[g] = forward[g]
        BY <2>2, <2>17, <3>2 DEF Creates, Request
      <4> QED
        BY <2>14, <4>1, <4>2
    <3> QED
      BY <3>1, <3>2
  <2>18. ASSUME NEW f \in Forwards, Records(f) PROVE AwaitedIsNewest'
    <3>1. \A g \in Forwards : outrun'[g] => g \notin {f} /\ (outrun[g] \/ newer[g] # {})
      BY <2>18 DEF Records
    <3>2. Over({f}) /\ {f} \in SUBSET Forwards
      BY <2>18 DEF Records
    <3> QED
      BY <3>1, <3>2, EndsInOrder
  <2>19. CASE MasterRestarts
    <3> DEFINE lost == {f \in Forwards : forward[f].stage \in {"create", "record"}}
    <3>1. lost \in SUBSET Forwards /\ Over(lost) /\ Unrecorded(lost)
      BY <2>19 DEF MasterRestarts
    <3> HIDE DEF lost
    <3> QED
      BY <2>12, <3>1
  <2>20. ASSUME UNCHANGED <<agentVars, requests>> PROVE AwaitedIsNewest'
    BY <2>3, <2>20 DEF agentVars
  <2>21. CASE MirrorEdited \/ MaintenanceChanges \/ WatchdogBeats \/ WatchdogEnds
    BY <2>20, <2>21 DEF MirrorEdited, MaintenanceChanges, WatchdogBeats, WatchdogEnds
  <2>22. CASE UNCHANGED federationVars
    BY <2>20, <2>22 DEF federationVars
  <2> QED
    BY <2>4, <2>5, <2>6, <2>7, <2>8, <2>9, <2>10, <2>11, <2>15, <2>16, <2>17, <2>18,
       <2>19, <2>21, <2>22 DEF FederationNext, MasterStep
<1> QED
  BY <1>1, <1>2, PTL DEF FederationSpec

(* Of the statuses that listed runners send, one is recorded after a later *)
(* one only if its runner has given it up, or been replaced, paused or     *)
(* killed since (MirrorInOrder; Monitor.start()'s beat(),                  *)
(* agent-forwarder.js and federation-router.js, heartbeats): however many  *)
(* stopped runners end their last beat beside the listed one, and however  *)
(* the link and the Master behave.                                         *)
THEOREM StatusesArriveInOrder == FederationSpec => []MirrorInOrder
<1>1. MirrorInv => MirrorInOrder
  BY DEF MirrorInv, AwaitedIsNewest, MirrorInOrder
<1> QED
  BY MirrorInvHolds, <1>1, PTL

LEMMA FederationTypes == FederationSpec => []FederationTypeOK
<1>1. MirrorInv => FederationTypeOK BY DEF MirrorInv
<1> QED BY MirrorInvHolds, <1>1, PTL

-----------------------------------------------------------------------------
(* Alerts.  What has led here all the time is in what is read, what is    *)
(* read was there meanwhile, and one call at a time links nothing twice.   *)
Reading == alert.stage \in {"routes", "tags", "targets"}
GoingOn == Reading \/ alert.stage = "send"
Owed(n) == n \in kept.links \/ \E r \in kept.routes : r.to = n
Cause(n) ==
    \/ n \in seen.links
    \/ \E r \in seen.routes : r.to = n /\ LeadsHere(r, alert.severity, seen.tags)

(* Nobody has been asked before the targets are known.                     *)
AskedLast == Reading \/ alert.stage = "none" => \A n \in Notifications : asked[n] = 0

(* What has led here since the alert began is in what the alert has read.  *)
KeptIsRead ==
    /\ GoingOn => /\ kept.routes \subseteq routes
                  /\ \A r \in kept.routes : LeadsHere(r, alert.severity, tags)
    /\ Reading => kept.links \subseteq Static
    /\ alert.stage \in {"tags", "targets"} => kept.routes \subseteq alert.routes
    /\ alert.stage = "targets" =>
          \A r \in kept.routes : LeadsHere(r, alert.severity, alert.tags)
    /\ alert.stage = "send" =>
          \A n \in Notifications : Owed(n) => alert.list[n] > 0 \/ asked[n] > 0
    /\ alert.stage = "over" => \A n \in Notifications : Owed(n) => asked[n] > 0

(* And what it has read was there meanwhile.                               *)
ReadIsSeen ==
    /\ GoingOn => routes \subseteq seen.routes /\ tags \subseteq seen.tags
    /\ Reading => Static \subseteq seen.links /\ alert.routes \subseteq seen.routes
                  /\ alert.tags \subseteq seen.tags
    /\ \A n \in Notifications : alert.list[n] > 0 \/ asked[n] > 0 => Cause(n)

(* One call at a time links a notification once.                           *)
LinkedOnce ==
    /\ \A n \in Notifications : n \notin known => links[n] = 0
    /\ ~relinked =>
          /\ \A g, h \in Handlers :
                edit[g].stage # "idle" /\ edit[h].stage # "idle" => g = h
          /\ \A h \in Handlers : edit[h].stage \in {"insert", "attach"} =>
                \A n \in edit[h].todo : links[n] = 0
          /\ \A n \in Notifications :
                links[n] <= 1 /\ alert.static[n] <= 1 /\ alert.list[n] + asked[n] <= 1

ListWhenSent == alert.stage # "send" => \A n \in Notifications : alert.list[n] = 0

AlertInv == AlertTypeOK /\ AskedLast /\ KeptIsRead /\ ReadIsSeen /\ LinkedOnce /\ ListWhenSent

(* A route that excludes nothing by its selectors is one that matches.     *)
LEMMA LeadsIsMatches ==
    ASSUME NEW r \in Routes, NEW s \in Severities, NEW carried \in SUBSET Tags
    PROVE  LeadsHere(r, s, carried) <=> RouteMatches(r, s, carried)
<1>1. r.monitor \in {"this", "other", All} /\ r.minSeverity \in 0 .. 2 /\ s \in 0 .. 2
  BY RoutesAssumption
<1> QED
  BY <1>1 DEF LeadsHere, RouteMatches, MeetsThreshold, All

(* With more tags, no fewer routes lead here.                              *)
LEMMA LeadsWithMore ==
    ASSUME NEW r, NEW s, NEW few, NEW many, few \subseteq many, LeadsHere(r, s, few)
    PROVE  LeadsHere(r, s, many)
BY DEF LeadsHere

LEMMA AlertInvInit == AlertInit => AlertInv
<1> SUFFICES ASSUME AlertInit PROVE AlertInv
  OBVIOUS
<1> USE DEF AlertInit, NoAlert, NoEdit, Nothing, Unseen
<1>1. AlertTypeOK
  BY RoutesAssumption DEF AlertTypeOK, Counts
<1>2. AskedLast /\ ListWhenSent
  BY DEF AskedLast, ListWhenSent
<1>3. KeptIsRead
  BY DEF KeptIsRead, GoingOn, Reading, Owed
<1>4. ReadIsSeen
  BY DEF ReadIsSeen, GoingOn, Reading
<1>5. LinkedOnce
  BY DEF LinkedOnce
<1> QED
  BY <1>1, <1>2, <1>3, <1>4, <1>5 DEF AlertInv

(* The tables have changed: what the alert owes has become less, what it   *)
(* has seen has become more.                                               *)
LEMMA WitnessKeepsAlert ==
    ASSUME AlertInv, Witness, UNCHANGED <<alert, asked>>,
           known' \subseteq Notifications, links' \in Counts,
           routes' \subseteq Routes, tags' \subseteq Tags
    PROVE  /\ AskedLast' /\ KeptIsRead' /\ ReadIsSeen' /\ ListWhenSent'
           /\ kept' \in [links : SUBSET Notifications, routes : SUBSET Routes]
           /\ seen' \in [links : SUBSET Notifications, routes : SUBSET Routes,
                         tags : SUBSET Tags]
<1> DEFINE linked == {n \in known' : links'[n] > 0}
<1> USE DEF AlertInv, AlertTypeOK
<1>1. AskedLast' /\ ListWhenSent'
  BY DEF AskedLast, ListWhenSent, Reading
<1>2. CASE alert.stage \in {"none", "over"}
  <2>1. kept' = Nothing /\ seen' = seen
    BY <1>2 DEF Witness
  <2>2. KeptIsRead'
    BY <1>2, <2>1 DEF KeptIsRead, GoingOn, Reading, Owed, Nothing
  <2>3. \A n \in Notifications : Cause(n)' <=> Cause(n)
    BY <2>1 DEF Cause
  <2>4. ReadIsSeen'
    BY <1>2, <2>1, <2>3 DEF ReadIsSeen, GoingOn, Reading
  <2>5. Nothing \in [links : SUBSET Notifications, routes : SUBSET Routes]
    BY DEF Nothing
  <2> QED
    BY <1>1, <2>1, <2>2, <2>4, <2>5
<1>3. CASE alert.stage \notin {"none", "over"}
  <2>1. /\ kept'.links = kept.links \cap linked
        /\ kept'.routes = {r \in kept.routes \cap routes' :
                               LeadsHere(r, alert.severity, tags')}
        /\ kept' \in [links : SUBSET Notifications, routes : SUBSET Routes]
    BY <1>3 DEF Witness
  <2>2. /\ seen'.links = seen.links \cup linked
        /\ seen'.routes = seen.routes \cup routes' /\ seen'.tags = seen.tags \cup tags'
        /\ seen' \in [links : SUBSET Notifications, routes : SUBSET Routes,
                      tags : SUBSET Tags]
    BY <1>3 DEF Witness
  <2>3. kept'.links \subseteq kept.links /\ kept'.routes \subseteq kept.routes
        /\ \A n \in Notifications : Owed(n)' => Owed(n)
    BY <2>1 DEF Owed
  <2>4. KeptIsRead'
    BY <1>3, <2>1, <2>3 DEF KeptIsRead, GoingOn, Reading, Static
  <2>5. \A n \in Notifications : Cause(n) => Cause(n)'
    BY <2>2, LeadsWithMore DEF Cause
  <2>6. ReadIsSeen'
    BY <1>3, <2>2, <2>5 DEF ReadIsSeen, GoingOn, Reading, Static
  <2> QED
    BY <1>1, <2>1, <2>2, <2>4, <2>6
<1> QED
  BY <1>2, <1>3

-----------------------------------------------------------------------------
(* The alert goes on; the tables and the calls stay as they are.           *)
LEMMA AlertBeginsKeepsInv ==
    ASSUME AlertInv, NEW s \in Severities, AlertBegins(s) PROVE AlertInv'
<1> DEFINE static == [n \in Notifications |-> IF n \in known THEN links[n] ELSE 0]
<1> USE DEF AlertInv
<1>1. /\ alert'.stage = "routes" /\ alert'.severity = s /\ alert'.static = static
      /\ alert'.routes = {} /\ alert'.tags = {}
      /\ alert'.list = [n \in Notifications |-> 0]
  BY DEF AlertBegins, NoAlert
<1>2. static \in Counts
  BY DEF AlertTypeOK, Counts
<1>3. alert' \in [stage : {"none", "routes", "tags", "targets", "send", "over"},
                  severity : Severities, static : Counts, routes : SUBSET Routes,
                  tags : SUBSET Tags, list : Counts]
  BY <1>2 DEF AlertBegins, NoAlert, Counts
<1>4. AlertTypeOK'
  BY <1>3 DEF AlertBegins, tables, AlertTypeOK, Counts
<1>5. AskedLast' /\ ListWhenSent'
  BY <1>1 DEF AlertBegins, AskedLast, ListWhenSent, Reading
<1>6. Static' = {n \in Notifications : Linked(n)}
  BY <1>1 DEF Static, Linked, AlertTypeOK, Counts
<1>7. KeptIsRead'
  BY <1>1, <1>6 DEF AlertBegins, KeptIsRead, GoingOn, Reading, tables
<1>8. ReadIsSeen'
  <2>1. \A n \in Notifications : ~(alert'.list[n] > 0 \/ asked'[n] > 0)
    BY <1>1 DEF AlertBegins
  <2> QED
    BY <1>1, <1>6, <2>1 DEF AlertBegins, ReadIsSeen, GoingOn, Reading, tables
<1>9. LinkedOnce'
  <2>1. \A n \in Notifications : alert'.static[n] <= links[n] /\ alert'.list[n] + asked'[n] = 0
    BY <1>1 DEF AlertBegins, AlertTypeOK, Counts
  <2>2. \A n \in Notifications : alert'.static[n] \in Nat
    BY <1>1, <1>2 DEF Counts
  <2> QED
    BY <2>1, <2>2 DEF AlertBegins, LinkedOnce, tables, AlertTypeOK, Counts
<1> QED
  BY <1>4, <1>5, <1>7, <1>8, <1>9

(* What a step of the alert leaves of it to be sent.                       *)
LEMMA SendingShape ==
    ASSUME AlertTypeOK, NEW list \in Counts
    PROVE  /\ Sending(list) \in [stage : {"none", "routes", "tags", "targets", "send", "over"},
                                severity : Severities, static : Counts, routes : SUBSET Routes,
                                tags : SUBSET Tags, list : Counts]
           /\ Sending(list).stage = "send" /\ Sending(list).severity = alert.severity
           /\ Sending(list).list = list /\ \A n \in Notifications : Sending(list).static[n] = 0
BY DEF AlertTypeOK, Sending, NoAlert, Counts

LEMMA NoAlertShape ==
    /\ NoAlert \in [stage : {"none", "routes", "tags", "targets", "send", "over"},
                    severity : Severities, static : Counts, routes : SUBSET Routes,
                    tags : SUBSET Tags, list : Counts]
    /\ NoAlert.stage = "none"
    /\ \A n \in Notifications : NoAlert.list[n] = 0 /\ NoAlert.static[n] = 0
BY RoutesAssumption DEF NoAlert, Counts

(* The targets are known: nobody has been asked yet.                       *)
LEMMA SendingKeepsInv ==
    ASSUME AlertInv, Reading, NEW list \in Counts, alert' = Sending(list),
           UNCHANGED <<tables, asked, edit, kept, seen, relinked>>,
           \A n \in Notifications : Owed(n) => list[n] > 0,
           \A n \in Notifications : list[n] > 0 => Cause(n),
           ~relinked => \A n \in Notifications : list[n] <= 1
    PROVE  AlertInv'
<1> USE DEF AlertInv, tables
<1>1. alert'.stage = "send" /\ alert'.severity = alert.severity /\ alert'.list = list
      /\ \A n \in Notifications : alert'.static[n] = 0
  BY SendingShape
<1>2. AlertTypeOK'
  BY SendingShape DEF AlertTypeOK
<1>3. AskedLast' /\ ListWhenSent'
  BY <1>1 DEF AskedLast, ListWhenSent, Reading
<1>4. \A n \in Notifications : Owed(n)' <=> Owed(n)
  BY DEF Owed
<1>5. KeptIsRead'
  BY <1>1, <1>4 DEF KeptIsRead, GoingOn, Reading
<1>6. \A n \in Notifications : (Cause(n)' <=> Cause(n)) /\ asked'[n] = 0
  BY <1>1 DEF Cause, AskedLast
<1>7. ReadIsSeen'
  BY <1>1, <1>6 DEF ReadIsSeen, GoingOn, Reading
<1>8. \A n \in Notifications : list[n] \in Nat /\ list[n] + asked[n] = list[n]
  BY DEF AskedLast, Counts
<1>9. LinkedOnce'
  BY <1>1, <1>8 DEF LinkedOnce
<1> QED
  BY <1>2, <1>3, <1>5, <1>7, <1>9

(* The alert is given up, before anybody has been asked.                   *)
LEMMA GivenUpKeepsInv ==
    ASSUME AlertInv, Reading, alert' = NoAlert, UNCHANGED <<tables, asked, edit, relinked>>,
           kept' \in [links : SUBSET Notifications, routes : SUBSET Routes],
           seen' \in [links : SUBSET Notifications, routes : SUBSET Routes, tags : SUBSET Tags]
    PROVE  AlertInv'
<1> USE NoAlertShape DEF AlertInv, tables
<1>1. AlertTypeOK'
  BY DEF AlertTypeOK
<1>2. \A n \in Notifications : asked'[n] = 0
  BY DEF AskedLast
<1>3. AskedLast' /\ ListWhenSent'
  BY <1>2 DEF AskedLast, ListWhenSent
<1>4. KeptIsRead' /\ ReadIsSeen'
  BY <1>2 DEF KeptIsRead, ReadIsSeen, GoingOn, Reading
<1>5. LinkedOnce'
  BY <1>2 DEF LinkedOnce
<1> QED
  BY <1>1, <1>3, <1>4, <1>5

LEMMA AlertStepKeepsInv == ASSUME AlertInv, AlertStep PROVE AlertInv'
<1> USE DEF AlertInv, tables
<1>1. CASE RoutesRead
  <2>1. CASE routes = {}
    <3>1. alert.static \in Counts /\ alert.stage = "routes" /\ alert' = Sending(alert.static)
      BY <1>1, <2>1 DEF RoutesRead, AlertTypeOK
    <3>2. \A n \in Notifications : Owed(n) => alert.static[n] > 0
      BY <2>1, <3>1 DEF KeptIsRead, GoingOn, Reading, Owed, Static
    <3>3. \A n \in Notifications : alert.static[n] > 0 => Cause(n)
      BY <3>1 DEF ReadIsSeen, Reading, Static, Cause
    <3> QED
      BY <1>1, <3>1, <3>2, <3>3, SendingKeepsInv DEF RoutesRead, Reading, LinkedOnce
  <2>2. CASE routes # {}
    <3>1. /\ alert'.stage = "tags" /\ alert'.routes = routes /\ alert'.tags = alert.tags
          /\ alert'.static = alert.static /\ alert'.list = alert.list
          /\ alert'.severity = alert.severity /\ alert.stage = "routes"
      BY <1>1, <2>2 DEF RoutesRead, AlertTypeOK
    <3>2. AlertTypeOK'
      BY <1>1, <2>2 DEF RoutesRead, AlertTypeOK
    <3>3. UNCHANGED <<tables, asked, edit, kept, seen, relinked>>
      BY <1>1 DEF RoutesRead
    <3>4. AskedLast' /\ ListWhenSent' /\ Static' = Static
      BY <3>1, <3>3 DEF AskedLast, ListWhenSent, Reading, Static
    <3>5. KeptIsRead'
      BY <3>1, <3>3, <3>4 DEF KeptIsRead, GoingOn, Reading
    <3>6. \A n \in Notifications : Cause(n)' <=> Cause(n)
      BY <3>1, <3>3 DEF Cause
    <3>7. ReadIsSeen'
      BY <3>1, <3>3, <3>4, <3>6 DEF ReadIsSeen, GoingOn, Reading
    <3>8. LinkedOnce'
      BY <3>1, <3>3 DEF LinkedOnce
    <3> QED
      BY <3>2, <3>4, <3>5, <3>7, <3>8
  <2> QED
    BY <2>1, <2>2
<1>2. CASE TagsRead
  <2>1. /\ alert'.stage = "targets" /\ alert'.routes = alert.routes /\ alert'.tags = tags
        /\ alert'.static = alert.static /\ alert'.list = alert.list
        /\ alert'.severity = alert.severity /\ alert.stage = "tags"
    BY <1>2 DEF TagsRead, AlertTypeOK
  <2>2. AlertTypeOK'
    BY <1>2 DEF TagsRead, AlertTypeOK
  <2>3. UNCHANGED <<tables, asked, edit, kept, seen, relinked>>
    BY <1>2 DEF TagsRead
  <2>4. AskedLast' /\ ListWhenSent' /\ Static' = Static
    BY <2>1, <2>3 DEF AskedLast, ListWhenSent, Reading, Static
  <2>5. KeptIsRead'
    BY <2>1, <2>3, <2>4 DEF KeptIsRead, GoingOn, Reading
  <2>6. \A n \in Notifications : Cause(n)' <=> Cause(n)
    BY <2>1, <2>3 DEF Cause
  <2>7. ReadIsSeen'
    BY <2>1, <2>3, <2>4, <2>6 DEF ReadIsSeen, GoingOn, Reading
  <2>8. LinkedOnce'
    BY <2>1, <2>3 DEF LinkedOnce
  <2> QED
    BY <2>2, <2>4, <2>5, <2>7, <2>8
<1>3. CASE TargetsRead
  <2>1. alert.stage = "targets" /\ UNCHANGED <<tables, asked, edit, kept, seen, relinked>>
    BY <1>3 DEF TargetsRead
  <2>2. CASE ~(Matched \subseteq known \cup Static)
    BY <1>3, <2>1, <2>2, GivenUpKeepsInv DEF TargetsRead, Reading, AlertTypeOK
  <2>3. CASE Matched \subseteq known \cup Static
    <3> DEFINE list == [n \in Notifications |-> IF n \in Static \cup Matched THEN 1 ELSE 0]
    <3>1. alert' = Sending(list)
      BY <1>3, <2>3 DEF TargetsRead
    <3>2. list \in Counts /\ \A n \in Notifications : list[n] <= 1
                           /\ (list[n] > 0 <=> n \in Static \cup Matched)
      BY DEF Counts
    <3>3. \A r \in alert.routes : LeadsHere(r, alert.severity, alert.tags)
                                  <=> RouteMatches(r, alert.severity, alert.tags)
      BY LeadsIsMatches DEF AlertTypeOK
    <3>4. \A n \in Notifications : Owed(n) => n \in Static \cup Matched
      BY <2>1, <3>3 DEF KeptIsRead, Reading, Owed, Matched
    <3>5. \A n \in Notifications : n \in Static \cup Matched => Cause(n)
      <4> SUFFICES ASSUME NEW r \in alert.routes, RouteMatches(r, alert.severity, alert.tags),
                          r.to \in Notifications
                   PROVE  Cause(r.to)
        BY <2>1 DEF ReadIsSeen, Reading, Matched, Cause
      <4>1. r \in seen.routes /\ alert.tags \subseteq seen.tags
        BY <2>1 DEF ReadIsSeen, Reading
      <4>2. LeadsHere(r, alert.severity, seen.tags)
        BY <3>3, <4>1, LeadsWithMore
      <4> QED
        BY <4>1, <4>2 DEF Cause
    <3> HIDE DEF list
    <3> QED
      BY <2>1, <3>1, <3>2, <3>4, <3>5, SendingKeepsInv DEF Reading
  <2> QED
    BY <2>2, <2>3
<1>4. CASE Sent
  <2>1. /\ alert'.stage = "over" /\ alert'.severity = alert.severity
        /\ \A n \in Notifications : alert'.list[n] = 0 /\ alert'.static[n] = 0
        /\ alert.stage = "send" /\ \A n \in Notifications : alert.list[n] = 0
    BY <1>4 DEF Sent, NoAlert
  <2>2. AlertTypeOK'
    BY <1>4, NoAlertShape DEF Sent, AlertTypeOK, NoAlert
  <2>3. UNCHANGED <<tables, asked, edit, kept, seen, relinked>>
    BY <1>4 DEF Sent
  <2>4. AskedLast' /\ ListWhenSent'
    BY <2>1 DEF AskedLast, ListWhenSent, Reading
  <2>5. KeptIsRead'
    BY <2>1, <2>3 DEF KeptIsRead, GoingOn, Reading, Owed
  <2>6. \A n \in Notifications : Cause(n)' <=> Cause(n)
    BY <2>1, <2>3 DEF Cause
  <2>7. ReadIsSeen'
    BY <2>1, <2>3, <2>6 DEF ReadIsSeen, GoingOn, Reading
  <2>8. LinkedOnce'
    BY <2>1, <2>3 DEF LinkedOnce
  <2> QED
    BY <2>2, <2>4, <2>5, <2>7, <2>8
<1>5. CASE AlertThrows
  BY <1>5, GivenUpKeepsInv DEF AlertThrows, Reading, Nothing, Unseen
<1>6. ASSUME NEW n \in Notifications, SendTo(n) PROVE AlertInv'
  <2>1. alert.stage = "send" /\ alert.list[n] > 0 /\ alert.list \in Counts /\ asked \in Counts
    BY <1>6 DEF SendTo, AlertTypeOK
  <2>2. /\ alert'.stage = "send" /\ alert'.severity = alert.severity
        /\ alert'.static = alert.static
        /\ alert'.list = [alert.list EXCEPT ![n] = @ - 1]
        /\ asked' = [asked EXCEPT ![n] = @ + 1]
    BY <1>6 DEF SendTo, AlertTypeOK
  <2>3. /\ \A m \in Notifications : m # n => alert'.list[m] = alert.list[m]
                                           /\ asked'[m] = asked[m]
        /\ asked'[n] > 0 /\ alert'.list[n] + asked'[n] = alert.list[n] + asked[n]
        /\ alert'.list \in Counts /\ asked' \in Counts
    BY <2>1, <2>2 DEF Counts
  <2>4. UNCHANGED <<tables, edit, kept, seen, relinked>>
    BY <1>6 DEF SendTo
  <2>5. AlertTypeOK'
    <3>1. alert' = [alert EXCEPT !.list = alert'.list]
      BY <1>6, <2>2 DEF SendTo, AlertTypeOK
    <3> QED
      BY <2>3, <2>4, <3>1 DEF AlertTypeOK
  <2>6. AskedLast' /\ ListWhenSent'
    BY <2>2 DEF AskedLast, ListWhenSent, Reading
  <2>7. KeptIsRead'
    BY <2>1, <2>2, <2>3, <2>4 DEF KeptIsRead, GoingOn, Reading, Owed
  <2>8. \A m \in Notifications : Cause(m)' <=> Cause(m)
    BY <2>2, <2>4 DEF Cause
  <2>9. ReadIsSeen'
    BY <2>1, <2>2, <2>3, <2>4, <2>8 DEF ReadIsSeen, GoingOn, Reading
  <2>10. LinkedOnce'
    BY <2>2, <2>3, <2>4 DEF LinkedOnce
  <2> QED
    BY <2>5, <2>6, <2>7, <2>9, <2>10
<1> QED
  BY <1>1, <1>2, <1>3, <1>4, <1>5, <1>6 DEF AlertStep

-----------------------------------------------------------------------------
(* The calls of clients.                                                   *)
EditShape == edit' \in [Handlers -> [stage : {"idle", "insert", "check", "attach"},
                                    todo : SUBSET Notifications]]

(* A step that changes the tables keeps what is said of the alert.         *)
LEMMA TableStepKeepsInv ==
    ASSUME AlertInv, Witness, UNCHANGED <<alert, asked>>,
           known' \subseteq Notifications, links' \in Counts,
           routes' \subseteq Routes, tags' \subseteq Tags,
           EditShape, relinked' \in BOOLEAN, LinkedOnce'
    PROVE  AlertInv'
<1>1. AlertTypeOK'
  BY WitnessKeepsAlert DEF AlertInv, AlertTypeOK, EditShape
<1> QED
  BY <1>1, WitnessKeepsAlert DEF AlertInv

(* A step that changes a call only.                                        *)
LEMMA CallStepKeepsInv ==
    ASSUME AlertInv, UNCHANGED <<tables, alert, asked, kept, seen>>,
           EditShape, relinked' \in BOOLEAN, LinkedOnce'
    PROVE  AlertInv'
<1> USE DEF AlertInv, tables
<1>1. AlertTypeOK'
  BY DEF AlertTypeOK, EditShape
<1>2. AskedLast' /\ ListWhenSent'
  BY DEF AskedLast, ListWhenSent, Reading
<1>3. KeptIsRead'
  BY DEF KeptIsRead, GoingOn, Reading, Owed, Static
<1>4. ReadIsSeen'
  BY DEF ReadIsSeen, GoingOn, Reading, Cause, Static
<1> QED
  BY <1>1, <1>2, <1>3, <1>4

LEMMA EditKeepsInv ==
    ASSUME AlertInv, NEW h \in Handlers,
           \/ EditStep(h)
           \/ \E ns \in SUBSET Notifications : LinksDeleted(h, ns)
           \/ \E n \in Notifications : AttachCall(h, n)
    PROVE  AlertInv'
<1> USE DEF AlertInv, AlertTypeOK, Counts, tables
<1>1. ASSUME NEW n \in Notifications, LinkInserted(h, n) PROVE AlertInv'
  <2>1. EditShape
    BY <1>1 DEF LinkInserted, Idled, NoEdit, EditShape
  <2>2. /\ \A g \in Handlers : g # h => edit'[g] = edit[g]
        /\ edit'[h].todo \subseteq edit[h].todo \ {n}
        /\ edit'[h].stage # "idle" => edit'[h].stage = edit[h].stage
        /\ edit[h].stage \in {"insert", "attach"} /\ n \in edit[h].todo /\ n \in known
    BY <1>1 DEF LinkInserted, Idled, NoEdit
  <2>3. /\ \A m \in Notifications : m # n => links'[m] = links[m]
        /\ links'[n] = links[n] + 1 /\ links' \in Counts
    BY <1>1 DEF LinkInserted
  <2>4. LinkedOnce'
    <3>1. \A m \in Notifications : m \notin known' => links'[m] = 0
      BY <1>1, <2>2, <2>3 DEF LinkInserted, LinkedOnce
    <3>2. ASSUME ~relinked
          PROVE  /\ \A f, g \in Handlers :
                       edit'[g].stage # "idle" /\ edit'[f].stage # "idle" => g = f
                 /\ \A g \in Handlers : edit'[g].stage \in {"insert", "attach"} =>
                       \A m \in edit'[g].todo : links'[m] = 0
                 /\ \A m \in Notifications : links'[m] <= 1
      <4>1. \A g \in Handlers : g # h => edit[g].stage = "idle" /\ edit'[g].stage = "idle"
        BY <2>2, <3>2 DEF LinkedOnce
      <4>2. \A m \in edit[h].todo : m \in Notifications /\ links[m] = 0
        BY <2>2, <3>2 DEF LinkedOnce
      <4>3. \A m \in edit'[h].todo : links'[m] = 0
        BY <2>2, <2>3, <4>2
      <4>4. \A m \in Notifications : links'[m] <= 1
        <5>1. links'[n] = 1
          BY <2>2, <2>3, <4>2
        <5>2. \A m \in Notifications : links[m] <= 1
          BY <3>2 DEF LinkedOnce
        <5> QED
          BY <2>3, <5>1, <5>2
      <4> QED
        BY <4>1, <4>3, <4>4
    <3> QED
      <4>1. alert' = alert /\ asked' = asked /\ relinked' = relinked
        BY <1>1 DEF LinkInserted
      <4> QED
        BY <3>1, <3>2, <4>1 DEF LinkedOnce
  <2> QED
    BY <1>1, <2>1, <2>3, <2>4, TableStepKeepsInv DEF LinkInserted
<1>2. CASE LinksWritten(h) \/ EditFails(h)
  <2>1. EditShape /\ edit' = [edit EXCEPT ![h] = NoEdit]
    <3>1. edit' = [edit EXCEPT ![h] = NoEdit]
      BY <1>2 DEF LinksWritten, EditFails, Idled
    <3>2. NoEdit \in [stage : {"idle", "insert", "check", "attach"}, todo : SUBSET Notifications]
      BY DEF NoEdit
    <3> QED
      BY <3>1, <3>2 DEF EditShape
  <2>2. UNCHANGED <<tables, alert, asked, kept, seen, relinked>>
    BY <1>2 DEF LinksWritten, EditFails
  <2>3. /\ \A g \in Handlers : g # h => edit'[g] = edit[g]
        /\ edit'[h].stage = "idle"
    BY <2>1 DEF NoEdit
  <2>4. LinkedOnce'
    BY <2>2, <2>3 DEF LinkedOnce
  <2> QED
    BY <2>1, <2>2, <2>4, CallStepKeepsInv
<1>3. CASE AttachChecked(h)
  <2>1. EditShape
    BY <1>3 DEF AttachChecked, Idled, NoEdit, EditShape
  <2>2. UNCHANGED <<tables, alert, asked, kept, seen, relinked>> /\ edit[h].stage = "check"
    BY <1>3 DEF AttachChecked
  <2>3. /\ \A g \in Handlers : g # h => edit'[g] = edit[g]
        /\ edit'[h].stage = "attach" =>
              edit'[h].todo = edit[h].todo /\ \A n \in edit[h].todo : ~Linked(n)
        /\ edit'[h].stage \in {"idle", "attach"}
    BY <1>3 DEF AttachChecked, Idled, NoEdit
  <2>4. \A n \in Notifications : ~Linked(n) => links[n] = 0
    BY DEF Linked, LinkedOnce
  <2>5. LinkedOnce'
    BY <2>2, <2>3, <2>4 DEF LinkedOnce
  <2> QED
    BY <2>1, <2>2, <2>5, CallStepKeepsInv
<1>4. ASSUME NEW ns \in SUBSET Notifications, LinksDeleted(h, ns) PROVE AlertInv'
  <2>1. EditShape /\ relinked' \in BOOLEAN
    BY <1>4 DEF LinksDeleted, Begun, EditShape
  <2>2. links' \in Counts /\ \A n \in Notifications : links'[n] = 0
    BY <1>4 DEF LinksDeleted
  <2>3. /\ \A g \in Handlers : g # h => edit'[g] = edit[g]
        /\ edit'[h].todo = ns
        /\ ~relinked' => ~relinked /\ \A g \in Handlers : edit[g].stage = "idle"
    BY <1>4 DEF LinksDeleted, Begun
  <2>4. LinkedOnce'
    <3>1. ns \subseteq Notifications /\ UNCHANGED <<alert, asked>>
      BY <1>4 DEF LinksDeleted
    <3>2. ASSUME ~relinked'
          PROVE  /\ \A f, g \in Handlers :
                       edit'[f].stage # "idle" /\ edit'[g].stage # "idle" => f = g
                 /\ \A g \in Handlers : edit'[g].stage \in {"insert", "attach"} =>
                       \A n \in edit'[g].todo : links'[n] = 0
                 /\ \A n \in Notifications : links'[n] <= 1
      BY <2>2, <2>3, <3>1, <3>2
    <3> QED
      BY <2>2, <2>3, <3>1, <3>2 DEF LinkedOnce
  <2> QED
    BY <1>4, <2>1, <2>2, <2>4, TableStepKeepsInv DEF LinksDeleted
<1>5. ASSUME NEW n \in Notifications, AttachCall(h, n) PROVE AlertInv'
  <2>1. EditShape /\ relinked' \in BOOLEAN
    BY <1>5 DEF AttachCall, Begun, EditShape
  <2>2. /\ \A g \in Handlers : g # h => edit'[g] = edit[g]
        /\ edit'[h].stage = "check"
        /\ ~relinked' => ~relinked /\ \A g \in Handlers : edit[g].stage = "idle"
    BY <1>5 DEF AttachCall, Begun
  <2>3. LinkedOnce'
    BY <1>5, <2>2 DEF AttachCall, LinkedOnce
  <2> QED
    BY <1>5, <2>1, <2>3, CallStepKeepsInv DEF AttachCall
<1> QED
  BY <1>1, <1>2, <1>3, <1>4, <1>5 DEF EditStep

LEMMA StatementKeepsInv ==
    ASSUME AlertInv,
           \/ \E n \in Notifications : NotificationDeleted(n)
           \/ \E r \in Routes : RouteCreated(r) \/ RouteDeleted(r)
           \/ \E t \in Tags : TagsEdited(tags \cup {t}) \/ TagsEdited(tags \ {t})
    PROVE  AlertInv'
<1> USE DEF AlertInv, AlertTypeOK, Counts
<1>1. ASSUME NEW n \in Notifications, NotificationDeleted(n) PROVE AlertInv'
  <2>1. links' \in Counts /\ links'[n] = 0 /\ known' = known \ {n}
        /\ \A m \in Notifications : m # n => links'[m] = links[m]
    BY <1>1 DEF NotificationDeleted
  <2>2. LinkedOnce'
    <3>1. \A m \in Notifications : links'[m] = 0 \/ links'[m] = links[m]
      BY <2>1
    <3>2. \A m \in Notifications : m \notin known' => links'[m] = 0
      BY <2>1 DEF LinkedOnce
    <3> QED
      BY <1>1, <3>1, <3>2 DEF NotificationDeleted, LinkedOnce
  <2> QED
    BY <1>1, <2>1, <2>2, TableStepKeepsInv DEF NotificationDeleted, EditShape
<1>2. ASSUME NEW r \in Routes, RouteCreated(r) \/ RouteDeleted(r) PROVE AlertInv'
  <2>1. LinkedOnce' /\ EditShape
    BY <1>2 DEF RouteCreated, RouteDeleted, LinkedOnce, EditShape
  <2> QED
    BY <1>2, <2>1, TableStepKeepsInv DEF RouteCreated, RouteDeleted
<1>3. ASSUME NEW ts \in SUBSET Tags, TagsEdited(ts) PROVE AlertInv'
  <2>1. LinkedOnce' /\ EditShape
    BY <1>3 DEF TagsEdited, LinkedOnce, EditShape
  <2> QED
    BY <1>3, <2>1, TableStepKeepsInv DEF TagsEdited
<1> QED
  BY <1>1, <1>2, <1>3

LEMMA AlertInvNext == AlertInv /\ [AlertNext]_alertVars => AlertInv'
<1> SUFFICES ASSUME AlertInv, [AlertNext]_alertVars PROVE AlertInv'
  OBVIOUS
<1>1. CASE UNCHANGED alertVars
  <2>1. LinkedOnce' /\ EditShape /\ relinked' \in BOOLEAN
    BY <1>1 DEF alertVars, tables, AlertInv, AlertTypeOK, LinkedOnce, EditShape
  <2> QED
    BY <1>1, <2>1, CallStepKeepsInv DEF alertVars
<1> QED
  BY <1>1, AlertBeginsKeepsInv, AlertStepKeepsInv, EditKeepsInv, StatementKeepsInv DEF AlertNext

(* An alert reaches, once, exactly those it is for, however routes, tags   *)
(* and links change while it is read and sent (AlertIsExact;               *)
(* notification-routing.js and monitor.js, sendNotification()).            *)
THEOREM AlertsAreExact == AlertSpec => []AlertIsExact
<1>1. AlertInv => AlertIsExact
  <2> SUFFICES ASSUME AlertInv PROVE AlertIsExact
    OBVIOUS
  <2> USE DEF AlertInv
  <2>1. NobodyForgotten
    <3>1. \A r \in kept.routes : r.to \in Notifications
      BY RoutesAssumption DEF AlertTypeOK
    <3> QED
      BY <3>1 DEF AlertTypeOK, KeptIsRead, Owed, NobodyForgotten
  <2>2. AskedOnce
    BY DEF AlertTypeOK, Counts, LinkedOnce, AskedOnce
  <2>3. NobodyElse
    BY DEF ReadIsSeen, Cause, NobodyElse
  <2> QED
    BY <2>1, <2>2, <2>3 DEF AlertIsExact
<1> QED
  BY AlertInvInit, AlertInvNext, <1>1, PTL DEF AlertSpec

LEMMA AlertTypes == AlertSpec => []AlertTypeOK
<1>1. AlertInv => AlertTypeOK BY DEF AlertInv
<1> QED BY AlertInvInit, AlertInvNext, <1>1, PTL DEF AlertSpec

-----------------------------------------------------------------------------
Active(c) == step[c] # "idle"
Telling(c) == step[c] \in {"send", "store"}
Crossed(date) == {d \in Deadlines : date <= d}
NearestTold(date) == Crossed(date) # {} => Min(Crossed(date)) \in told

(* The row and what calls have loaded of it: a date is that of the         *)
(* registry until the domain is renewed, and an earlier one then.          *)
DatesAreOfDomain ==
    /\ expiry # Invalid => IF renewed THEN expiry < daysLeft ELSE expiry \in {NoRow, daysLeft}
    /\ expiry = NoRow => lastSent = NotSent
    /\ \A c \in Checks : step[c] = "lookup" =>
          /\ loaded[c].expiry <= daysLeft
          /\ renewed => loaded[c].expiry < daysLeft

(* What a call tells is due at the date it works with, which is the one of *)
(* the row unless a lookup has failed meanwhile or a renewal was missed.   *)
TellingWhatIsDue ==
    \A c \in Checks : Telling(c) =>
        /\ toTell[c] # {} /\ toTell[c] \subseteq DueOf(loaded[c].expiry, loaded[c].lastSent)
        /\ step[c] = "store" => \E d \in Deadlines : toTell[c] = {d}
        /\ expiry # NoRow
        /\ ~missed =>
              /\ expiry \in {Invalid, loaded[c].expiry}
              /\ ~renewed => loaded[c].expiry = daysLeft
              /\ step[c] = "store" => toTell[c] \subseteq told

(* A domain that was renewed on an earlier day has not been dealt with.    *)
RenewalAwaited ==
    renewed /\ daysLeft < Period =>
        /\ ~served
        /\ \A c \in Checks : ~Telling(c)
        /\ checked \/ (\E c \in Checks : step[c] = "find") => expiry = Invalid

LastIsTold ==
    ~missed /\ lastSent # NotSent =>
        /\ lastSent \in told /\ expiry <= lastSent
        /\ ~renewed => daysLeft <= lastSent

ServedIsTold ==
    served /\ ~missed =>
        /\ expiry # Invalid => NearestTold(expiry)
        /\ ~renewed => NearestTold(daysLeft)

(* As long as calls follow one another: the last deadline sent is the      *)
(* nearest of those told.                                                  *)
TidyCalls ==
    ~untidy =>
        /\ \A c, d \in Checks : Active(c) /\ Active(d) => c = d
        /\ \A c \in Checks :
              /\ step[c] = "lookup" => loaded[c] = [expiry |-> expiry, lastSent |-> lastSent]
              /\ step[c] = "send" => loaded[c].lastSent = lastSent
              /\ step[c] = "store" => \A d \in toTell[c] : \A e \in told : d <= e
        /\ (\A c \in Checks : step[c] # "store") =>
              /\ lastSent = NotSent => told = {}
              /\ lastSent # NotSent => \A e \in told : lastSent <= e

ExpiryShape ==
    /\ ExpiryTypeOK
    /\ loaded \in [Checks -> [expiry : Dates \cup {NoRow, Invalid},
                             lastSent : Deadlines \cup {NotSent}]]

ExpiryInv ==
    ExpiryShape /\ DatesAreOfDomain /\ TellingWhatIsDue /\ RenewalAwaited /\ LastIsTold
      /\ ServedIsTold /\ TidyCalls

(* A set of natural numbers has a least one, ...                          *)
LEMMA Least ==
    ASSUME NEW T, T \subseteq Nat, T # {}
    PROVE  \E x \in T : \A y \in T : x <= y
<1>1. \A x, y \in Nat : <<y, x>> \in OpToRel(<, Nat) <=> y < x
  BY DEF OpToRel
<1>2. PICK R : IsWellFoundedOn(R, Nat) /\ \A x, y \in Nat : <<y, x>> \in R <=> y < x
  BY NatLessThanWellFounded, <1>1, Zenon
<1>3. PICK x \in T : \A y \in T : ~(<<y, x>> \in R)
  BY <1>2, WFMin, Zenon
<1>4. ASSUME NEW y \in T PROVE x <= y
  <2>1. x \in Nat /\ y \in Nat
    OBVIOUS
  <2>2. ~(y < x)
    BY <1>2, <1>3, <2>1, Zenon
  <2> QED
    BY <2>1, <2>2
<1> QED
  BY <1>4

(* ... which is the one Min chooses.                                       *)
LEMMA MinIsLeast ==
    ASSUME NEW T, T \subseteq Nat, T # {}
    PROVE  Min(T) \in T /\ \A y \in T : Min(T) <= y
BY Least DEF Min

LEMMA MinOfDue ==
    ASSUME NEW T, T \subseteq Deadlines, T # {}
    PROVE  Min(T) \in T /\ Min(T) \in Nat /\ \A y \in T : Min(T) <= y
<1>1. Deadlines \subseteq Nat
  BY DeadlinesAssumption
<1> QED
  BY <1>1, MinIsLeast

LEMMA MinOfOne == ASSUME NEW d \in Deadlines PROVE Min({d}) = d
<1>1. Min({d}) \in {d}
  BY MinOfDue
<1> QED
  BY <1>1

(* The nearest deadline that is due is the nearest one reached.            *)
LEMMA NearestIsDue ==
    ASSUME NEW date \in Dates, NEW sent \in Deadlines \cup {NotSent}, DueOf(date, sent) # {}
    PROVE  Crossed(date) # {} /\ Min(Crossed(date)) = Min(DueOf(date, sent))
<1> DEFINE due == DueOf(date, sent)
<1> USE DeadlinesAssumption
<1>1. due \subseteq Crossed(date) /\ Crossed(date) \subseteq Deadlines
  BY DEF DueOf, Crossed
<1>2. \A d \in Crossed(date) \ due : d >= sent /\ sent # NotSent
  BY DEF DueOf, Crossed, Dates, NotSent
<1>3. Min(due) \in due /\ \A d \in due : Min(due) <= d
  BY <1>1, MinOfDue
<1>4. Min(Crossed(date)) \in Crossed(date) /\ \A d \in Crossed(date) : Min(Crossed(date)) <= d
  BY <1>1, MinOfDue
<1>5. Min(due) < sent \/ sent = NotSent
  BY <1>3 DEF DueOf
<1>6. Min(due) \in Nat /\ Min(Crossed(date)) \in Nat /\ sent \in Nat
  BY <1>1, MinOfDue DEF NotSent
<1>7. Min(Crossed(date)) \in due
  BY <1>1, <1>2, <1>3, <1>4, <1>5, <1>6
<1> QED
  BY <1>1, <1>3, <1>4, <1>6, <1>7

(* What a call that nothing overlapped tells is nearer than all that was   *)
(* told.                                                                   *)
LEMMA TellsInOrder == ExpiryInv => OncePerDeadline
<1> SUFFICES ASSUME ExpiryInv, NEW c \in Checks, NEW d \in Deadlines, Tell(c, d), ~untidy
             PROVE  \A e \in told : d < e
  BY DEF OncePerDeadline
<1> USE DEF ExpiryInv, ExpiryShape, ExpiryTypeOK
<1>1. step[c] = "send" /\ d \in toTell[c]
  <2>1. toTell[c] \subseteq Deadlines
    OBVIOUS
  <2> QED
    BY <2>1, MinOfDue DEF Tell
<1>2. d < loaded[c].lastSent \/ loaded[c].lastSent = NotSent
  BY <1>1 DEF TellingWhatIsDue, Telling, DueOf
<1>3. loaded[c].lastSent = lastSent /\ \A e \in Checks : step[e] # "store"
  BY <1>1 DEF TidyCalls, Active
<1>4. CASE lastSent = NotSent
  BY <1>3, <1>4 DEF TidyCalls
<1>5. CASE lastSent # NotSent
  <2>1. lastSent \in Nat /\ d \in Nat /\ \A e \in told : e \in Nat
    BY <1>5, DeadlinesAssumption
  <2>2. d < lastSent
    BY <1>2, <1>3, <1>5
  <2>3. \A e \in told : lastSent <= e
    BY <1>3, <1>5 DEF TidyCalls
  <2> QED
    BY <2>1, <2>2, <2>3
<1> QED
  BY <1>4, <1>5


LEMMA DayKeepsInv == ASSUME ExpiryInv, Day PROVE ExpiryInv'
<1> USE DeadlinesAssumption
      DEF ExpiryInv, ExpiryShape, ExpiryTypeOK, Dates, NoRow, Invalid, NotSent, NoBean
<1>1. ExpiryShape'
  <2>1. \A d \in Dates : Nearer(d) \in Dates
    BY DEF Nearer
  <2>2. \A d \in {NoRow, Invalid} : Nearer(d) = d
    BY DEF Nearer
  <2>3. daysLeft' \in Dates /\ expiry' \in Dates \cup {NoRow, Invalid}
    BY <2>1, <2>2 DEF Day
  <2> QED
    BY <2>3 DEF Day, checkCalls
<1>2. DatesAreOfDomain'
  BY DEF Day, Nearer, checkCalls, DatesAreOfDomain
<1>3. TellingWhatIsDue'
  BY DEF Day, Nearer, checkCalls, TellingWhatIsDue, Telling
<1>4. RenewalAwaited'
  BY DEF Day, Nearer, checkCalls, RenewalAwaited, Telling
<1>5. LastIsTold'
  BY DEF Day, Nearer, checkCalls, LastIsTold
<1>6. ServedIsTold'
  BY DEF Day, Nearer, checkCalls, ServedIsTold, NearestTold
<1>7. TidyCalls'
  BY DEF Day, Nearer, checkCalls, TidyCalls, Active
<1> QED
  BY <1>1, <1>2, <1>3, <1>4, <1>5, <1>6, <1>7

LEMMA RenewKeepsInv == ASSUME ExpiryInv, Renew PROVE ExpiryInv'
<1> USE DeadlinesAssumption
      DEF ExpiryInv, ExpiryShape, ExpiryTypeOK, Dates, NoRow, Invalid, NotSent, NoBean
<1>1. ExpiryShape'
  BY DEF Renew, expiryRow, checkCalls, toldSoFar
<1>2. DatesAreOfDomain'
  BY DEF Renew, expiryRow, checkCalls, toldSoFar, DatesAreOfDomain
<1>3. TellingWhatIsDue'
  BY DEF Renew, expiryRow, checkCalls, toldSoFar, TellingWhatIsDue, Telling
<1>4. RenewalAwaited'
  BY DEF Renew, expiryRow, checkCalls, toldSoFar, RenewalAwaited, Telling
<1>5. LastIsTold'
  BY DEF Renew, expiryRow, checkCalls, toldSoFar, LastIsTold
<1>6. ServedIsTold'
  BY DEF Renew, expiryRow, checkCalls, toldSoFar, ServedIsTold, NearestTold
<1>7. TidyCalls'
  BY DEF Renew, expiryRow, checkCalls, toldSoFar, TidyCalls, Active
<1> QED
  BY <1>1, <1>2, <1>3, <1>4, <1>5, <1>6, <1>7

LEMMA ExpiryCrashKeepsInv == ASSUME ExpiryInv, ExpiryCrash PROVE ExpiryInv'
<1> USE DeadlinesAssumption
      DEF ExpiryInv, ExpiryShape, ExpiryTypeOK, Dates, NoRow, Invalid, NotSent, NoBean
<1>1. ExpiryShape'
  BY DEF ExpiryCrash, expiryRow
<1>2. DatesAreOfDomain'
  BY DEF ExpiryCrash, expiryRow, DatesAreOfDomain
<1>3. TellingWhatIsDue'
  BY DEF ExpiryCrash, expiryRow, TellingWhatIsDue, Telling
<1>4. RenewalAwaited'
  BY DEF ExpiryCrash, expiryRow, RenewalAwaited, Telling
<1>5. LastIsTold'
  BY DEF ExpiryCrash, expiryRow, LastIsTold
<1>6. ServedIsTold'
  BY DEF ExpiryCrash, expiryRow, ServedIsTold, NearestTold
<1>7. TidyCalls'
  BY DEF ExpiryCrash, expiryRow, TidyCalls, Active
<1> QED
  BY <1>1, <1>2, <1>3, <1>4, <1>5, <1>6, <1>7

LEMMA CheckExpiryKeepsInv ==
    ASSUME ExpiryInv, NEW c \in Checks, CheckExpiry(c)
    PROVE  ExpiryInv'
<1> USE DeadlinesAssumption
      DEF ExpiryInv, ExpiryShape, ExpiryTypeOK, Dates, NoRow, Invalid, NotSent, NoBean
<1>1. ExpiryShape'
  BY DEF CheckExpiry, expiryRow
<1>2. DatesAreOfDomain'
  BY DEF CheckExpiry, expiryRow, DatesAreOfDomain
<1>3. TellingWhatIsDue'
  BY DEF CheckExpiry, expiryRow, TellingWhatIsDue, Telling
<1>4. RenewalAwaited'
  BY DEF CheckExpiry, expiryRow, RenewalAwaited, Telling
<1>5. LastIsTold'
  BY DEF CheckExpiry, expiryRow, LastIsTold
<1>6. ServedIsTold'
  BY DEF CheckExpiry, expiryRow, ServedIsTold, NearestTold
<1>7. TidyCalls'
  BY DEF CheckExpiry, expiryRow, TidyCalls, Active
<1> QED
  BY <1>1, <1>2, <1>3, <1>4, <1>5, <1>6, <1>7

LEMMA LookupAnsweredKeepsInv ==
    ASSUME ExpiryInv, NEW c \in Checks, LookupAnswered(c)
    PROVE  ExpiryInv'
<1> USE DeadlinesAssumption
      DEF ExpiryInv, ExpiryShape, ExpiryTypeOK, Dates, NoRow, Invalid, NotSent, NoBean
<1>a. /\ expiry' = daysLeft /\ daysLeft' = daysLeft /\ loaded' = loaded /\ toTell' = toTell
      /\ checked' = TRUE /\ renewed' = FALSE /\ served' = served
      /\ step[c] = "lookup" /\ step'[c] = "find" /\ \A d \in Checks : d # c => step'[d] = step[d]
      /\ lastSent' \in {lastSent, NotSent}
  BY DEF LookupAnswered
<1>b. CASE renewed
  <2>1. /\ missed' = Unrecognised(c) /\ told' = {}
        /\ untidy' = \E d \in Checks \ {c} : step[d] # "idle"
    BY <1>b DEF LookupAnswered
  <2>2. missed' \in BOOLEAN /\ untidy' \in BOOLEAN
    BY <2>1 DEF Unrecognised
  <2>3. loaded[c].expiry < daysLeft
    BY <1>a, <1>b DEF DatesAreOfDomain
  <2>4. ~missed' => lastSent' = NotSent /\ \A d \in Checks : ~Telling(d)
    BY <1>a, <2>1, <2>3 DEF LookupAnswered, Unrecognised, IsRenewal, Telling
  <2>5. served => Crossed(daysLeft) = {}
    <3>1. served => daysLeft = Period
      <4>1. served => ~(daysLeft < Period)
        BY <1>b DEF RenewalAwaited
      <4> QED
        BY <4>1
    <3>2. \A d \in Deadlines : ~(Period <= d)
      OBVIOUS
    <3> QED
      BY <3>1, <3>2 DEF Crossed
  <2>6. ExpiryShape'
    <3>1. {checked, renewed, missed, untidy, served}' \subseteq BOOLEAN
      BY <1>a, <2>2
    <3>2. step' \in [Checks -> {"idle", "lookup", "find", "send", "store"}]
      BY DEF LookupAnswered
    <3> QED
      BY <1>a, <2>1, <3>1, <3>2
  <2>7. DatesAreOfDomain'
    BY <1>a DEF DatesAreOfDomain
  <2>8. TellingWhatIsDue'
    BY <1>a, <2>4 DEF TellingWhatIsDue, Telling
  <2>9. RenewalAwaited'
    BY <1>a DEF RenewalAwaited
  <2>10. LastIsTold'
    BY <2>4 DEF LastIsTold
  <2>11. ServedIsTold'
    BY <1>a, <2>5 DEF ServedIsTold, NearestTold
  <2>12. TidyCalls'
    BY <1>a, <2>1 DEF TidyCalls, Active
  <2> QED
    BY <2>6, <2>7, <2>8, <2>9, <2>10, <2>11, <2>12
<1>c. CASE ~renewed
  <2>1. missed' = missed /\ told' = told /\ untidy' = untidy
    BY <1>c DEF LookupAnswered
  <2>2. ~untidy => lastSent' = lastSent
    BY <1>a, <1>c DEF LookupAnswered, IsRenewal, TidyCalls, DatesAreOfDomain
  <2>3. expiry # Invalid => expiry \in {NoRow, daysLeft}
    BY <1>c DEF DatesAreOfDomain
  <2>6. ExpiryShape'
    <3>1. {checked, renewed, missed, untidy, served}' \subseteq BOOLEAN
      BY <1>a, <2>1
    <3>2. step' \in [Checks -> {"idle", "lookup", "find", "send", "store"}]
      BY DEF LookupAnswered
    <3> QED
      BY <1>a, <2>1, <3>1, <3>2
  <2>7. DatesAreOfDomain'
    BY <1>a, <1>c DEF DatesAreOfDomain
  <2>8. TellingWhatIsDue'
    BY <1>a, <1>c, <2>1 DEF TellingWhatIsDue, Telling
  <2>9. RenewalAwaited'
    BY <1>a DEF RenewalAwaited
  <2>10. LastIsTold'
    BY <1>a, <1>c, <2>1 DEF LastIsTold
  <2>11. ServedIsTold'
    BY <1>a, <1>c, <2>1 DEF ServedIsTold, NearestTold
  <2>12. TidyCalls'
    BY <1>a, <2>1, <2>2 DEF TidyCalls, Active
  <2> QED
    BY <2>6, <2>7, <2>8, <2>9, <2>10, <2>11, <2>12
<1> QED
  BY <1>b, <1>c

LEMMA LookupFailedKeepsInv ==
    ASSUME ExpiryInv, NEW c \in Checks, LookupFailed(c)
    PROVE  ExpiryInv'
<1> USE DeadlinesAssumption
      DEF ExpiryInv, ExpiryShape, ExpiryTypeOK, Dates, NoRow, Invalid, NotSent, NoBean
<1>1. ExpiryShape'
  BY DEF LookupFailed, Leave, toldSoFar
<1>2. DatesAreOfDomain'
  BY DEF LookupFailed, Leave, toldSoFar, DatesAreOfDomain
<1>3. TellingWhatIsDue'
  BY DEF LookupFailed, Leave, toldSoFar, TellingWhatIsDue, Telling
<1>4. RenewalAwaited'
  BY DEF LookupFailed, Leave, toldSoFar, RenewalAwaited, Telling
<1>5. LastIsTold'
  BY DEF LookupFailed, Leave, toldSoFar, LastIsTold
<1>6. ServedIsTold'
  BY DEF LookupFailed, Leave, toldSoFar, ServedIsTold, NearestTold
<1>7. TidyCalls'
  BY DEF LookupFailed, Leave, toldSoFar, TidyCalls, Active
<1> QED
  BY <1>1, <1>2, <1>3, <1>4, <1>5, <1>6, <1>7

LEMMA CheckThrowsKeepsInv ==
    ASSUME ExpiryInv, NEW c \in Checks, CheckThrows(c)
    PROVE  ExpiryInv'
<1> USE DeadlinesAssumption
      DEF ExpiryInv, ExpiryShape, ExpiryTypeOK, Dates, NoRow, Invalid, NotSent, NoBean
<1>1. ExpiryShape'
  BY DEF CheckThrows, Leave, expiryRow, toldSoFar
<1>2. DatesAreOfDomain'
  BY DEF CheckThrows, Leave, expiryRow, toldSoFar, DatesAreOfDomain
<1>3. TellingWhatIsDue'
  BY DEF CheckThrows, Leave, expiryRow, toldSoFar, TellingWhatIsDue, Telling
<1>4. RenewalAwaited'
  BY DEF CheckThrows, Leave, expiryRow, toldSoFar, RenewalAwaited, Telling
<1>5. LastIsTold'
  BY DEF CheckThrows, Leave, expiryRow, toldSoFar, LastIsTold
<1>6. ServedIsTold'
  BY DEF CheckThrows, Leave, expiryRow, toldSoFar, ServedIsTold, NearestTold
<1>7. TidyCalls'
  BY DEF CheckThrows, Leave, expiryRow, toldSoFar, TidyCalls, Active
<1> QED
  BY <1>1, <1>2, <1>3, <1>4, <1>5, <1>6, <1>7

LEMMA SendNotificationsKeepsInv ==
    ASSUME ExpiryInv, NEW c \in Checks, SendNotifications(c)
    PROVE  ExpiryInv'
<1> USE DeadlinesAssumption
      DEF ExpiryInv, ExpiryShape, ExpiryTypeOK, Dates, NoRow, Invalid, NotSent, NoBean
<1> DEFINE due == DueOf(expiry, lastSent)
<1>a. /\ step[c] = "find" /\ daysLeft' = daysLeft /\ expiryRow' = expiryRow /\ renewed' = renewed
      /\ missed' = missed /\ told' = told /\ untidy' = untidy
  BY DEF SendNotifications
<1>b. due \subseteq Deadlines
  BY DEF DueOf
<1>c. CASE due = {}
  <2>1. Leave(c) /\ served' = (expiry >= 0)
    BY <1>c DEF SendNotifications
  <2>2. served' \in BOOLEAN /\ (served' => expiry # Invalid /\ expiry >= 0)
    <3>1. served' <=> expiry >= 0
      BY <2>1, Zenon
    <3>2. served' \in BOOLEAN
      BY <2>1
    <3> QED
      BY <3>1, <3>2
  <2>3. ~missed /\ served' => NearestTold(expiry)
    <3> SUFFICES ASSUME ~missed, served', Crossed(expiry) # {}
                 PROVE  Min(Crossed(expiry)) = lastSent /\ lastSent \in told
      BY DEF NearestTold
    <3>1. \A d \in Crossed(expiry) : lastSent # NotSent /\ lastSent <= d
      BY <1>c, <2>2 DEF DueOf, Crossed
    <3>2. lastSent \in Crossed(expiry) /\ lastSent \in told
      BY <3>1 DEF LastIsTold, Crossed
    <3>3. /\ Min(Crossed(expiry)) \in Crossed(expiry)
          /\ \A d \in Crossed(expiry) : Min(Crossed(expiry)) <= d
      <4>1. Crossed(expiry) \subseteq Deadlines
        BY DEF Crossed
      <4> QED
        BY <4>1, MinOfDue
    <3>4. \A d \in Crossed(expiry) : d \in Nat
      BY DEF Crossed
    <3>5. Min(Crossed(expiry)) \in Nat /\ lastSent \in Nat
      BY <3>2, <3>3, <3>4
    <3>6. Min(Crossed(expiry)) <= lastSent /\ lastSent <= Min(Crossed(expiry))
      BY <3>1, <3>2, <3>3
    <3> QED
      BY <3>2, <3>5, <3>6
  <2>6. ExpiryShape'
    BY <1>a, <2>1, <2>2 DEF Leave, expiryRow
  <2>7. DatesAreOfDomain'
    BY <1>a, <2>1 DEF Leave, expiryRow, DatesAreOfDomain
  <2>8. TellingWhatIsDue'
    BY <1>a, <2>1 DEF Leave, expiryRow, TellingWhatIsDue, Telling
  <2>9. RenewalAwaited'
    BY <1>a, <2>1, <2>2 DEF Leave, expiryRow, RenewalAwaited, Telling
  <2>10. LastIsTold'
    BY <1>a DEF expiryRow, LastIsTold
  <2>11. ServedIsTold'
    <3>1. served' /\ ~renewed => expiry = daysLeft
      BY <2>2 DEF DatesAreOfDomain
    <3> QED
      BY <1>a, <2>3, <3>1 DEF expiryRow, ServedIsTold, NearestTold
  <2>12. TidyCalls'
    BY <1>a, <2>1 DEF Leave, expiryRow, TidyCalls, Active
  <2> QED
    BY <2>6, <2>7, <2>8, <2>9, <2>10, <2>11, <2>12
<1>d. CASE due # {}
  <2>1. /\ step'[c] = "send" /\ toTell'[c] = due /\ loaded'[c].expiry = expiry
        /\ loaded'[c].lastSent = lastSent /\ served' = served
        /\ \A d \in Checks : d # c =>
              step'[d] = step[d] /\ loaded'[d] = loaded[d] /\ toTell'[d] = toTell[d]
    BY <1>d DEF SendNotifications
  <2>2. expiry >= 0
    BY <1>d DEF DueOf
  <2>6. ExpiryShape'
    <3>1. [expiry |-> expiry, lastSent |-> lastSent]
              \in [expiry : Dates \cup {NoRow, Invalid}, lastSent : Deadlines \cup {NotSent}]
      OBVIOUS
    <3>2. loaded' = [loaded EXCEPT ![c] = [expiry |-> expiry, lastSent |-> lastSent]]
          /\ step' = [step EXCEPT ![c] = "send"] /\ toTell' = [toTell EXCEPT ![c] = due]
      BY <1>d DEF SendNotifications
    <3>3. loaded' \in [Checks -> [expiry : Dates \cup {NoRow, Invalid},
                                  lastSent : Deadlines \cup {NotSent}]]
      BY <3>1, <3>2
    <3>4. step' \in [Checks -> {"idle", "lookup", "find", "send", "store"}]
          /\ toTell' \in [Checks -> SUBSET Deadlines]
      BY <1>b, <3>2
    <3> QED
      BY <1>a, <2>1, <3>3, <3>4 DEF expiryRow
  <2>7. DatesAreOfDomain'
    BY <1>a, <2>1 DEF expiryRow, DatesAreOfDomain
  <2>8. TellingWhatIsDue'
    <3>1. DueOf(loaded'[c].expiry, loaded'[c].lastSent) = due /\ toTell'[c] # {}
      BY <1>d, <2>1
    <3>2. ~renewed => expiry = daysLeft
      BY <2>2 DEF DatesAreOfDomain
    <3> QED
      BY <1>a, <2>1, <2>2, <3>1, <3>2 DEF expiryRow, TellingWhatIsDue, Telling
  <2>9. RenewalAwaited'
    BY <1>a, <2>1, <2>2 DEF expiryRow, RenewalAwaited, Telling
  <2>10. LastIsTold'
    BY <1>a DEF expiryRow, LastIsTold
  <2>11. ServedIsTold'
    BY <1>a, <2>1 DEF expiryRow, ServedIsTold, NearestTold
  <2>12. TidyCalls'
    BY <1>a, <2>1 DEF expiryRow, TidyCalls, Active
  <2> QED
    BY <2>6, <2>7, <2>8, <2>9, <2>10, <2>11, <2>12
<1> QED
  BY <1>c, <1>d

LEMMA NobodyToldKeepsInv ==
    ASSUME ExpiryInv, NEW c \in Checks, NobodyTold(c)
    PROVE  ExpiryInv'
<1> USE DeadlinesAssumption
      DEF ExpiryInv, ExpiryShape, ExpiryTypeOK, Dates, NoRow, Invalid, NotSent, NoBean
<1>a. /\ step[c] = "send" /\ toTell[c] \subseteq Deadlines /\ toTell[c] # {}
      /\ daysLeft' = daysLeft /\ expiryRow' = expiryRow /\ renewed' = renewed
      /\ toldSoFar' = toldSoFar
  BY DEF NobodyTold, TellingWhatIsDue, Telling
<1>b. CASE Leave(c)
  <2>6. ExpiryShape'
    BY <1>a, <1>b DEF expiryRow, toldSoFar, Leave
  <2>7. DatesAreOfDomain'
    BY <1>a, <1>b DEF DatesAreOfDomain, expiryRow, Leave
  <2>8. TellingWhatIsDue'
    BY <1>a, <1>b DEF TellingWhatIsDue, Telling, expiryRow, toldSoFar, Leave
  <2>9. RenewalAwaited'
    BY <1>a, <1>b DEF RenewalAwaited, Telling, expiryRow, toldSoFar, Leave
  <2>10. LastIsTold'
    BY <1>a, <1>b DEF LastIsTold, expiryRow, toldSoFar, Leave
  <2>11. ServedIsTold'
    BY <1>a, <1>b DEF ServedIsTold, NearestTold, expiryRow, toldSoFar, Leave
  <2>12. TidyCalls'
    BY <1>a, <1>b DEF TidyCalls, Active, expiryRow, toldSoFar, Leave
  <2> QED
    BY <2>6, <2>7, <2>8, <2>9, <2>10, <2>11, <2>12
<1>c. CASE ~Leave(c)
  <2>1. /\ toTell' = [toTell EXCEPT ![c] = @ \ {Min(@)}] /\ UNCHANGED <<step, loaded>>
        /\ Cardinality(toTell[c]) # 1
    BY <1>c DEF NobodyTold
  <2>2. /\ toTell'[c] = toTell[c] \ {Min(toTell[c])}
        /\ \A d \in Checks : d # c => toTell'[d] = toTell[d]
    BY <2>1
  <2>3. toTell'[c] # {} /\ toTell'[c] \subseteq toTell[c]
    <3>1. ASSUME toTell'[c] = {} PROVE FALSE
      <4>1. toTell[c] = {Min(toTell[c])}
        BY <1>a, <2>2, <3>1, MinOfDue
      <4> QED
        BY <2>1, <4>1, FS_Singleton
    <3> QED
      BY <2>2, <3>1
  <2>6. ExpiryShape'
    BY <1>a, <2>1, <2>2, <2>3 DEF expiryRow, toldSoFar
  <2>7. DatesAreOfDomain'
    BY <1>a, <2>1, <2>2, <2>3 DEF DatesAreOfDomain, expiryRow
  <2>8. TellingWhatIsDue'
    BY <1>a, <2>1, <2>2, <2>3 DEF TellingWhatIsDue, Telling, expiryRow, toldSoFar
  <2>9. RenewalAwaited'
    BY <1>a, <2>1, <2>2, <2>3 DEF RenewalAwaited, Telling, expiryRow, toldSoFar
  <2>10. LastIsTold'
    BY <1>a, <2>1, <2>2, <2>3 DEF LastIsTold, expiryRow, toldSoFar
  <2>11. ServedIsTold'
    BY <1>a, <2>1, <2>2, <2>3 DEF ServedIsTold, NearestTold, expiryRow, toldSoFar
  <2>12. TidyCalls'
    BY <1>a, <2>1, <2>2, <2>3 DEF TidyCalls, Active, expiryRow, toldSoFar
  <2> QED
    BY <2>6, <2>7, <2>8, <2>9, <2>10, <2>11, <2>12
<1> QED
  BY <1>b, <1>c

LEMMA ToldStoredKeepsInv ==
    ASSUME ExpiryInv, NEW c \in Checks, ToldStored(c)
    PROVE  ExpiryInv'
<1> USE DeadlinesAssumption
      DEF ExpiryInv, ExpiryShape, ExpiryTypeOK, Dates, NoRow, Invalid, NotSent, NoBean
<1>a. PICK d \in Deadlines : toTell[c] = {d} /\ d \in DueOf(loaded[c].expiry, loaded[c].lastSent)
  BY DEF ToldStored, TellingWhatIsDue, Telling
<1>b. Min(toTell[c]) = d
  BY <1>a, MinOfOne
<1>c. /\ step[c] = "store" /\ lastSent' = d /\ Leave(c)
      /\ served' = (served \/ toTell[c] = {Min(DueOf(loaded[c].expiry, loaded[c].lastSent))})
      /\ UNCHANGED <<daysLeft, expiry, checked, renewed, missed, told, untidy>>
  BY <1>b DEF ToldStored
<1>d. served' \in BOOLEAN
  BY <1>c
<1>e. loaded[c].expiry \in Dates /\ loaded[c].expiry <= d
  BY <1>a DEF DueOf
<1>f. expiry # NoRow /\ (~missed => /\ expiry \in {Invalid, loaded[c].expiry} /\ d \in told
                                    /\ ~renewed => loaded[c].expiry = daysLeft)
  BY <1>a, <1>c DEF TellingWhatIsDue, Telling
<1>g. served' /\ ~served => NearestTold(loaded[c].expiry) \/ missed
  <2>1. Min(Crossed(loaded[c].expiry)) = Min(DueOf(loaded[c].expiry, loaded[c].lastSent))
    BY <1>a, <1>e, NearestIsDue
  <2>2. served' /\ ~served => d = Min(DueOf(loaded[c].expiry, loaded[c].lastSent))
    BY <1>a, <1>c
  <2> QED
    BY <1>f, <2>1, <2>2 DEF NearestTold
<1>1. ExpiryShape'
  BY <1>c, <1>d DEF Leave
<1>2. DatesAreOfDomain'
  BY <1>c, <1>f DEF Leave, DatesAreOfDomain
<1>3. TellingWhatIsDue'
  BY <1>c DEF Leave, TellingWhatIsDue, Telling
<1>4. RenewalAwaited'
  BY <1>c DEF Leave, RenewalAwaited, Telling
<1>5. LastIsTold'
  BY <1>c, <1>e, <1>f DEF LastIsTold
<1>6. ServedIsTold'
  <2>1. NearestTold(expiry)' = NearestTold(expiry) /\ NearestTold(daysLeft)' = NearestTold(daysLeft)
    BY <1>c DEF NearestTold
  <2> QED
    BY <1>c, <1>f, <1>g, <2>1 DEF ServedIsTold
<1>7. TidyCalls'
  BY <1>a, <1>c DEF Leave, TidyCalls, Active
<1> QED
  BY <1>1, <1>2, <1>3, <1>4, <1>5, <1>6, <1>7

LEMMA ToldNotStoredKeepsInv ==
    ASSUME ExpiryInv, NEW c \in Checks, ToldNotStored(c)
    PROVE  ExpiryInv'
<1> USE DeadlinesAssumption
      DEF ExpiryInv, ExpiryShape, ExpiryTypeOK, Dates, NoRow, Invalid, NotSent, NoBean
<1>1. ExpiryShape'
  BY DEF ToldNotStored, Leave, expiryRow
<1>2. DatesAreOfDomain'
  BY DEF ToldNotStored, Leave, expiryRow, DatesAreOfDomain
<1>3. TellingWhatIsDue'
  BY DEF ToldNotStored, Leave, expiryRow, TellingWhatIsDue, Telling
<1>4. RenewalAwaited'
  BY DEF ToldNotStored, Leave, expiryRow, RenewalAwaited, Telling
<1>5. LastIsTold'
  BY DEF ToldNotStored, Leave, expiryRow, LastIsTold
<1>6. ServedIsTold'
  BY DEF ToldNotStored, Leave, expiryRow, ServedIsTold, NearestTold
<1>7. TidyCalls'
  BY DEF ToldNotStored, Leave, expiryRow, TidyCalls, Active
<1> QED
  BY <1>1, <1>2, <1>3, <1>4, <1>5, <1>6, <1>7

LEMMA TellKeepsInv ==
    ASSUME ExpiryInv, NEW c \in Checks, NEW d \in Deadlines, Tell(c, d)
    PROVE  ExpiryInv'
<1> USE DeadlinesAssumption
      DEF ExpiryInv, ExpiryShape, ExpiryTypeOK, Dates, NoRow, Invalid, NotSent, NoBean
<1>a. /\ step[c] = "send" /\ d \in toTell[c] /\ step'[c] = "store" /\ toTell'[c] = {d}
      /\ \A e \in Checks : e # c => step'[e] = step[e] /\ toTell'[e] = toTell[e]
      /\ told' = told \cup {d}
      /\ UNCHANGED <<daysLeft, expiryRow, loaded, renewed, missed, untidy, served>>
  <2>1. toTell[c] \subseteq Deadlines
    OBVIOUS
  <2> QED
    BY <2>1, MinOfDue DEF Tell
<1>b. toTell[c] \subseteq DueOf(loaded[c].expiry, loaded[c].lastSent)
  BY <1>a DEF TellingWhatIsDue, Telling
<1>c. ~untidy => \A e \in told : d < e
  BY TellsInOrder DEF OncePerDeadline
<1>1. ExpiryShape'
  BY <1>a DEF Tell, expiryRow
<1>2. DatesAreOfDomain'
  BY <1>a DEF expiryRow, DatesAreOfDomain
<1>3. TellingWhatIsDue'
  <2>1. told \subseteq told' /\ expiry' = expiry /\ loaded' = loaded /\ renewed' = renewed
        /\ missed' = missed /\ daysLeft' = daysLeft
    BY <1>a DEF expiryRow
  <2>2. toTell'[c] # {} /\ toTell'[c] \subseteq DueOf(loaded[c].expiry, loaded[c].lastSent)
        /\ toTell'[c] = {d} /\ toTell'[c] \subseteq told'
    BY <1>a, <1>b
  <2>3. \A e \in Checks : e # c => step'[e] = step[e] /\ toTell'[e] = toTell[e]
    BY <1>a
  <2>4. ASSUME NEW e \in Checks, step'[e] \in {"send", "store"}
        PROVE  step[e] \in {"send", "store"}
    BY <1>a, <2>3, <2>4
  <2>5. ASSUME NEW e \in Checks, Telling(e)'
        PROVE  /\ toTell'[e] # {}
               /\ toTell'[e] \subseteq DueOf(loaded'[e].expiry, loaded'[e].lastSent)
               /\ step'[e] = "store" => \E x \in Deadlines : toTell'[e] = {x}
               /\ expiry' # NoRow
               /\ ~missed' =>
                     /\ expiry' \in {Invalid, loaded'[e].expiry}
                     /\ ~renewed' => loaded'[e].expiry = daysLeft'
                     /\ step'[e] = "store" => toTell'[e] \subseteq told'
    <3>1. Telling(e)
      BY <2>4, <2>5 DEF Telling
    <3>2. CASE e = c
      BY <2>1, <2>2, <3>1, <3>2 DEF TellingWhatIsDue
    <3>3. CASE e # c
      BY <2>1, <2>3, <3>1, <3>3 DEF TellingWhatIsDue
    <3> QED
      BY <3>2, <3>3
  <2> QED
    BY <2>5 DEF TellingWhatIsDue
<1>4. RenewalAwaited'
  BY <1>a DEF expiryRow, RenewalAwaited, Telling
<1>5. LastIsTold'
  BY <1>a DEF expiryRow, LastIsTold
<1>6. ServedIsTold'
  BY <1>a DEF expiryRow, ServedIsTold, NearestTold
<1>7. TidyCalls'
  BY <1>a, <1>c DEF TidyCalls, Active, expiryRow
<1> QED
  BY <1>1, <1>2, <1>3, <1>4, <1>5, <1>6, <1>7

LEMMA ExpiryInvHolds == ExpirySpec => []ExpiryInv
<1>1. ExpiryInit => ExpiryInv
  <2> SUFFICES ASSUME ExpiryInit PROVE ExpiryInv
    OBVIOUS
  <2> USE DeadlinesAssumption
        DEF ExpiryInit, NoBean, NoRow, Invalid, NotSent, Dates
  <2>1. ExpiryShape
    <3>1. Period \in Nat /\ Period \in Dates
      OBVIOUS
    <3>2. NoBean \in [expiry : Dates \cup {NoRow, Invalid}, lastSent : Deadlines \cup {NotSent}]
      OBVIOUS
    <3>3. loaded \in [Checks -> [expiry : Dates \cup {NoRow, Invalid},
                                 lastSent : Deadlines \cup {NotSent}]]
      BY <3>2
    <3> QED
      BY <3>1, <3>3 DEF ExpiryShape, ExpiryTypeOK
  <2>2. DatesAreOfDomain /\ TellingWhatIsDue /\ RenewalAwaited /\ LastIsTold
    BY DEF DatesAreOfDomain, TellingWhatIsDue, Telling, RenewalAwaited, LastIsTold
  <2>3. ServedIsTold /\ TidyCalls
    BY DEF ServedIsTold, TidyCalls, Active
  <2> QED
    BY <2>1, <2>2, <2>3 DEF ExpiryInv
<1>2. ExpiryInv /\ [ExpiryNext]_expiryVars => ExpiryInv'
  <2> SUFFICES ASSUME ExpiryInv, [ExpiryNext]_expiryVars PROVE ExpiryInv'
    OBVIOUS
  <2>1. CASE UNCHANGED expiryVars
    BY <2>1 DEF expiryVars, expiryRow, checkCalls, toldSoFar, ExpiryInv, ExpiryShape, ExpiryTypeOK,
       DatesAreOfDomain, TellingWhatIsDue, Telling, RenewalAwaited, LastIsTold, ServedIsTold,
       NearestTold, TidyCalls, Active
  <2> QED
    BY <2>1, DayKeepsInv, RenewKeepsInv, ExpiryCrashKeepsInv, CheckExpiryKeepsInv,
       LookupAnsweredKeepsInv, LookupFailedKeepsInv, CheckThrowsKeepsInv,
       SendNotificationsKeepsInv, NobodyToldKeepsInv, ToldStoredKeepsInv,
       ToldNotStoredKeepsInv, TellKeepsInv DEF ExpiryNext
<1> QED
  BY <1>1, <1>2, PTL DEF ExpirySpec

(* Each notice of a registration comes once and in time: no deadline is    *)
(* told a second time or after a nearer one as long as calls follow one    *)
(* another, and after a call that came to its end the nearest deadline     *)
(* reached has been told (NoticesInTime; domain_expiry.js, checkExpiry()   *)
(* and sendNotifications()).                                               *)
THEOREM NoticesComeInTime == ExpirySpec => NoticesInTime
<1>1. ExpiryInv => OncePerDeadline
  BY TellsInOrder
<1>2. ExpiryInv => DueIsTold
  BY DEF ExpiryInv, ServedIsTold, NearestTold, Crossed, DueIsTold, Invalid
<1>3. ExpiryInv /\ ExpiryInv' => [OncePerDeadline /\ DueIsTold']_expiryVars
  BY <1>1, <1>2, PTL
<1> QED
  BY ExpiryInvHolds, <1>3, PTL DEF NoticesInTime

LEMMA ExpiryTypes == ExpirySpec => []ExpiryTypeOK
<1>1. ExpiryInv => ExpiryTypeOK BY DEF ExpiryInv, ExpiryShape
<1> QED BY ExpiryInvHolds, <1>1, PTL

-----------------------------------------------------------------------------
(* What a tab shows is at most two rising lists, one after the other: the  *)
(* one it was sent when it had joined, and what it has heard; what the     *)
(* second has of the first came early.  So at most so many beats as are    *)
(* early are shown twice, a list that loses its oldest beat loses none     *)
(* that is recent, and a recent row is shown, on its way, or unheard.      *)
Rising(s) == \A i, j \in 1 .. Len(s) : i < j => s[i] < s[j]
UpTo(s, n) == \A i \in 1 .. Len(s) : s[i] <= n

(* Two rising lists one after the other; a number of the second that is    *)
(* not above all of the first is in E.                                     *)
TwoRuns(s, n, E) ==
    /\ \A i, j \in 1 .. Len(s) : i < j /\ (j <= n \/ n < i) => s[i] < s[j]
    /\ \A i, j \in 1 .. Len(s) : i <= n /\ n < j => s[i] < s[j] \/ s[j] \in E

Message == [kind : {"beat", "list", "overwrite"}, beats : Seq(Nat)]

(* What a tab shows and what reaches it before the k-th message on its way.*)
Heard(ch, sh, k) == ToSet(sh) \cup UNION {ToSet(ch[i].beats) : i \in 1 .. k - 1}

(* A live beat is newer than all there is before it.                       *)
MessagesOK(e, ch, sh) ==
    /\ UpTo(sh, e)
    /\ \A k \in 1 .. Len(ch) : Rising(ch[k].beats) /\ UpTo(ch[k].beats, e)
    /\ \A k \in 1 .. Len(ch) : ch[k].kind = "beat" =>
          Len(ch[k].beats) = 1 /\ \A x \in Heard(ch, sh, k) : x < ch[k].beats[1]

OneList(tb, ch) ==
    \A k \in 1 .. Len(ch) : ch[k].kind = "list" =>
        tb = "in" /\ \A i \in 1 .. Len(ch) : ch[i].kind = "list" => i = k

(* Of what is heard before the list, what is not early is newer than it.   *)
ListsFit(tb, ans, ch, sh, si, ea) ==
    /\ tb = "joined" => \A x \in Heard(ch, sh, Len(ch) + 1) : x > si \/ x \in ea
    /\ tb = "read" => \A x \in Heard(ch, sh, Len(ch) + 1) :
                         x \in ea \/ \A y \in ToSet(ans) : y < x
    /\ \A k \in 1 .. Len(ch) : ch[k].kind = "list" =>
          \A x \in Heard(ch, sh, k) : x \in ea \/ \A y \in ToSet(ch[k].beats) : y < x

ListComes(tb, ch) ==
    tb \in {"joined", "read"} \/ \E k \in 1 .. Len(ch) : ch[k].kind = "list"

ShowsRuns(tb, ch, sh, ea) ==
    \E n \in Nat : TwoRuns(sh, n, ea) /\ (ListComes(tb, ch) => n = 0)

Safe(ch, k) == \A j \in k + 1 .. Len(ch) : ch[j].kind # "overwrite"

(* The beat is shown when all has been received.                           *)
WillShow(b, ch, sh) ==
    \/ b \in ToSet(sh) /\ Safe(ch, 0)
    \/ \E k \in 1 .. Len(ch) : b \in ToSet(ch[k].beats) /\ Safe(ch, k)

RowsInv ==
    /\ emitted \in Nat /\ flying \in BOOLEAN
    /\ beatRows \in Seq(Nat) /\ Rising(beatRows) /\ UpTo(beatRows, emitted)
    /\ flying => \A i \in 1 .. Len(beatRows) : beatRows[i] < emitted
    /\ clearAnswer \in Seq(Nat) /\ Rising(clearAnswer) /\ UpTo(clearAnswer, emitted)

TabTypes ==
    /\ tab \in [Tabs -> {"away", "open", "joined", "read", "in"}]
    /\ answer \in [Tabs -> Seq(Nat)] /\ channel \in [Tabs -> Seq(Message)]
    /\ shown \in [Tabs -> Seq(Nat)] /\ since \in [Tabs -> Nat]
    /\ unheard \in [Tabs -> SUBSET Nat] /\ early \in [Tabs -> SUBSET Nat]

Gone(t) ==
    /\ ~InRoom(t) => channel[t] = <<>> /\ early[t] = {}
    /\ tab[t] = "open" => shown[t] = <<>>
    /\ tab[t] # "read" => answer[t] = <<>>

OnceInv(t) ==
    /\ since[t] <= emitted
    /\ early[t] \subseteq 0 .. emitted
    /\ Rising(answer[t]) /\ UpTo(answer[t], emitted)
    /\ InRoom(t) =>
          /\ MessagesOK(emitted, channel[t], shown[t])
          /\ OneList(tab[t], channel[t])
          /\ ListsFit(tab[t], answer[t], channel[t], shown[t], since[t], early[t])
          /\ ShowsRuns(tab[t], channel[t], shown[t], early[t])

Known(t, b) ==
    b \in unheard[t] \/ b \in ToSet(answer[t]) \/ WillShow(b, channel[t], shown[t])

MissedInv(t) == InRoom(t) =>
    /\ flying /\ since[t] = emitted => emitted \in unheard[t]
    /\ \A b \in Recent(t) :
          b > since[t] \/ (tab[t] # "joined" /\ b \in ToSet(Newest(beatRows))) => Known(t, b)

TabInv == RowsInv /\ TabTypes /\ \A t \in Tabs : Gone(t) /\ OnceInv(t) /\ MissedInv(t)

-----------------------------------------------------------------------------
LEMMA TokensAre ==
    ASSUME NEW S, NEW s \in Seq(S)
    PROVE  \A x : x \in ToSet(s) <=> \E i \in 1 .. Len(s) : s[i] = x
BY DEF ToSet

LEMMA ElementsAre ==
    ASSUME NEW S, NEW s \in Seq(S)
    PROVE  \A i \in 1 .. Len(s) : s[i] \in S
OBVIOUS

LEMMA TailIs ==
    ASSUME NEW S, NEW s \in Seq(S), s # <<>>
    PROVE  /\ Tail(s) \in Seq(S) /\ Len(s) \in Nat /\ Len(s) >= 1 /\ Len(Tail(s)) = Len(s) - 1
           /\ \A i \in 1 .. Len(s) - 1 : Tail(s)[i] = s[i + 1]
           /\ s[1] \in S /\ Head(s) = s[1]
OBVIOUS

LEMMA AppendIs ==
    ASSUME NEW S, NEW s \in Seq(S), NEW x \in S
    PROVE  /\ Append(s, x) \in Seq(S) /\ Len(s) \in Nat /\ Len(Append(s, x)) = Len(s) + 1
           /\ \A i \in 1 .. Len(s) : Append(s, x)[i] = s[i]
           /\ Append(s, x)[Len(s) + 1] = x
OBVIOUS

LEMMA JoinIs ==
    ASSUME NEW S, NEW s \in Seq(S), NEW r \in Seq(S)
    PROVE  /\ s \o r \in Seq(S) /\ Len(s) \in Nat /\ Len(r) \in Nat /\ Len(s \o r) = Len(s) + Len(r)
           /\ \A i \in 1 .. Len(s) : (s \o r)[i] = s[i]
           /\ \A i \in Len(s) + 1 .. Len(s) + Len(r) : (s \o r)[i] = r[i - Len(s)]
OBVIOUS

LEMMA PieceIs ==
    ASSUME NEW S, NEW s \in Seq(S), NEW a \in Nat, a >= 1, a <= Len(s) + 1
    PROVE  /\ SubSeq(s, a, Len(s)) \in Seq(S) /\ Len(SubSeq(s, a, Len(s))) = Len(s) - a + 1
           /\ \A i \in 1 .. Len(s) - a + 1 : SubSeq(s, a, Len(s))[i] = s[i + a - 1]
<1>1. Len(s) \in Nat OBVIOUS
<1>2. \A i \in a .. Len(s) : s[i] \in S BY <1>1
<1>3. SubSeq(s, a, Len(s)) \in Seq(S) BY <1>1, <1>2
<1>4. Len(SubSeq(s, a, Len(s))) = Len(s) - a + 1 BY <1>1
<1>5. \A i \in 1 .. Len(s) - a + 1 : SubSeq(s, a, Len(s))[i] = s[i + a - 1] BY <1>1
<1> QED BY <1>3, <1>4, <1>5

LEMMA TokensOfTail ==
    ASSUME NEW s \in Seq(Nat), s # <<>>
    PROVE  /\ ToSet(Tail(s)) \subseteq ToSet(s) /\ s[1] \in ToSet(s)
           /\ \A x \in ToSet(s) : x = s[1] \/ x \in ToSet(Tail(s))
<1> DEFINE r == Tail(s)
           n == Len(s)
<1>1. /\ r \in Seq(Nat) /\ n \in Nat /\ n >= 1 /\ Len(r) = n - 1
      /\ \A i \in 1 .. n - 1 : r[i] = s[i + 1]
    BY TailIs
<1>2. /\ \A x : x \in ToSet(s) <=> \E i \in 1 .. n : s[i] = x
      /\ \A x : x \in ToSet(r) <=> \E i \in 1 .. n - 1 : r[i] = x
    BY <1>1, TokensAre
<1> HIDE DEF r, n
<1>3. ASSUME NEW x \in ToSet(r) PROVE x \in ToSet(s)
    <2>1. PICK i \in 1 .. n - 1 : r[i] = x BY <1>2
    <2>2. i + 1 \in 1 .. n /\ s[i + 1] = x BY <1>1, <2>1
    <2> QED BY <1>2, <2>2
<1>4. ASSUME NEW x \in ToSet(s), x # s[1] PROVE x \in ToSet(r)
    <2>1. PICK i \in 1 .. n : s[i] = x BY <1>2
    <2>2. i # 1 BY <1>4, <2>1
    <2>3. i - 1 \in 1 .. n - 1 /\ (i - 1) + 1 = i BY <1>1, <2>2
    <2>4. r[i - 1] = x BY <1>1, <2>1, <2>3
    <2> QED BY <1>2, <2>3, <2>4
<1>5. s[1] \in ToSet(s) BY <1>1, <1>2
<1> QED BY <1>3, <1>4, <1>5 DEF r

LEMMA TokensOfJoin ==
    ASSUME NEW s \in Seq(Nat), NEW r \in Seq(Nat)
    PROVE  ToSet(s \o r) = ToSet(s) \cup ToSet(r)
<1> DEFINE q == s \o r
           n == Len(s)
           m == Len(r)
<1>1. /\ q \in Seq(Nat) /\ n \in Nat /\ m \in Nat /\ Len(q) = n + m
      /\ \A i \in 1 .. n : q[i] = s[i]
      /\ \A i \in n + 1 .. n + m : q[i] = r[i - n]
    BY JoinIs
<1>2. /\ \A x : x \in ToSet(s) <=> \E i \in 1 .. n : s[i] = x
      /\ \A x : x \in ToSet(r) <=> \E i \in 1 .. m : r[i] = x
    BY TokensAre
<1> HIDE DEF q
<1>3. \A x : x \in ToSet(q) <=> \E i \in 1 .. Len(q) : q[i] = x
    BY <1>1, TokensAre
<1> HIDE DEF n, m
<1>4. ASSUME NEW x \in ToSet(q) PROVE x \in ToSet(s) \cup ToSet(r)
    <2>1. PICK i \in 1 .. n + m : q[i] = x BY <1>1, <1>3
    <2>2. CASE i <= n
        <3>1. i \in 1 .. n BY <1>1, <2>2
        <3>2. s[i] = x BY <1>1, <2>1, <3>1
        <3> QED BY <1>2, <3>1, <3>2
    <2>3. CASE i > n
        <3>1. i \in n + 1 .. n + m /\ i - n \in 1 .. m BY <1>1, <2>3
        <3>2. r[i - n] = x BY <1>1, <2>1, <3>1
        <3> QED BY <1>2, <3>1, <3>2
    <2> QED BY <1>1, <2>2, <2>3
<1>5. ASSUME NEW x \in ToSet(s) PROVE x \in ToSet(q)
    <2>1. PICK i \in 1 .. n : s[i] = x BY <1>2
    <2>2. i \in 1 .. n + m /\ q[i] = x BY <1>1, <2>1
    <2> QED BY <1>1, <1>3, <2>2
<1>6. ASSUME NEW x \in ToSet(r) PROVE x \in ToSet(q)
    <2>1. PICK i \in 1 .. m : r[i] = x BY <1>2
    <2>2. i + n \in n + 1 .. n + m /\ (i + n) - n = i /\ i + n \in 1 .. n + m BY <1>1
    <2>3. q[i + n] = x BY <1>1, <2>1, <2>2
    <2> QED BY <1>1, <1>3, <2>2, <2>3
<1> QED BY <1>4, <1>5, <1>6 DEF q

LEMMA TokensOfOne ==
    ASSUME NEW s \in Seq(Nat), Len(s) = 1
    PROVE  ToSet(s) = {s[1]} /\ s[1] \in Nat
<1>1. \A i \in 1 .. Len(s) : s[i] \in Nat BY ElementsAre
<1>2. s[1] \in Nat
    <2>1. 1 \in 1 .. 1 OBVIOUS
    <2> QED BY <1>1, <2>1
<1>3. 1 .. Len(s) = {1} OBVIOUS
<1>4. \A x : x \in ToSet(s) <=> \E i \in 1 .. Len(s) : s[i] = x BY TokensAre
<1>5. \A x : x \in ToSet(s) <=> s[1] = x BY <1>3, <1>4, Zenon
<1> QED BY <1>2, <1>5

LEMMA TokensAreUpTo ==
    ASSUME NEW s \in Seq(Nat), NEW n \in Nat, UpTo(s, n)
    PROVE  \A x \in ToSet(s) : x \in Nat /\ x <= n
BY TokensAre DEF UpTo

(* The newest rows.                                                        *)
LEMMA NewestIs ==
    ASSUME NEW rows \in Seq(Nat), NEW e \in Nat, Rising(rows), UpTo(rows, e)
    PROVE  /\ Newest(rows) \in Seq(Nat) /\ Rising(Newest(rows)) /\ UpTo(Newest(rows), e)
<1> DEFINE n == Len(rows)
           a == IF n > Limit THEN n - Limit + 1 ELSE 1
           s == SubSeq(rows, a, n)
<1>0. Limit \in Nat \ {0} BY LimitsAssumption
<1>1. n \in Nat /\ a \in 1 .. n + 1 BY <1>0
<1>2. s \in Seq(Nat) /\ Len(s) = n - a + 1 /\ \A i \in 1 .. n - a + 1 : s[i] = rows[i + a - 1]
    <2>1. a \in Nat /\ a >= 1 /\ a <= n + 1 BY <1>1
    <2> HIDE DEF a
    <2> QED BY <2>1, PieceIs
<1>3. Newest(rows) = s BY DEF Newest
<1> HIDE DEF s, a
<1>4. \A i \in 1 .. n - a + 1 : i + a - 1 \in 1 .. n BY <1>1
<1>5. Rising(s)
    <2> SUFFICES ASSUME NEW i \in 1 .. n - a + 1, NEW j \in 1 .. n - a + 1, i < j
                 PROVE  s[i] < s[j]
        BY <1>2 DEF Rising
    <2>1. i + a - 1 < j + a - 1 BY <1>1
    <2>2. rows[i + a - 1] < rows[j + a - 1] BY <1>4, <2>1 DEF Rising
    <2> QED BY <1>2, <2>2
<1>6. UpTo(s, e)
    <2> SUFFICES ASSUME NEW i \in 1 .. n - a + 1 PROVE s[i] <= e
        BY <1>2 DEF UpTo
    <2>1. i + a - 1 \in 1 .. Len(rows) BY <1>4
    <2>2. rows[i + a - 1] <= e BY <2>1 DEF UpTo
    <2> QED BY <1>2, <2>2
<1> QED BY <1>2, <1>3, <1>5, <1>6

LEMMA NewestTokens ==
    ASSUME NEW rows \in Seq(Nat)
    PROVE  \A x : x \in ToSet(Newest(rows)) <=>
               \E i \in 1 .. Len(rows) : i > Len(rows) - Limit /\ rows[i] = x
<1> DEFINE n == Len(rows)
           a == IF n > Limit THEN n - Limit + 1 ELSE 1
           s == SubSeq(rows, a, n)
<1>0. Limit \in Nat \ {0} BY LimitsAssumption
<1>1. n \in Nat /\ a \in 1 .. n + 1 BY <1>0
<1>2. s \in Seq(Nat) /\ Len(s) = n - a + 1 /\ \A i \in 1 .. n - a + 1 : s[i] = rows[i + a - 1]
    <2>1. a \in Nat /\ a >= 1 /\ a <= n + 1 BY <1>1
    <2> HIDE DEF a
    <2> QED BY <2>1, PieceIs
<1>3. Newest(rows) = s BY DEF Newest
<1>4. \A i \in 1 .. n : i > n - Limit <=> i >= a BY <1>0, <1>1
<1> HIDE DEF s, a, n
<1>5. \A x : x \in ToSet(s) <=> \E i \in 1 .. n - a + 1 : s[i] = x BY <1>2, TokensAre
<1>6. ASSUME NEW x \in ToSet(s) PROVE \E i \in 1 .. n : i > n - Limit /\ rows[i] = x
    <2>1. PICK i \in 1 .. n - a + 1 : s[i] = x BY <1>5
    <2>2. i + a - 1 \in 1 .. n /\ i + a - 1 >= a BY <1>1
    <2>3. rows[i + a - 1] = x BY <1>2, <2>1
    <2> QED BY <1>4, <2>2, <2>3
<1>7. ASSUME NEW x, NEW i \in 1 .. n, i > n - Limit, rows[i] = x PROVE x \in ToSet(s)
    <2>1. i >= a BY <1>4, <1>7
    <2>2. i - a + 1 \in 1 .. n - a + 1 /\ (i - a + 1) + a - 1 = i BY <1>1, <2>1
    <2>3. s[i - a + 1] = x BY <1>2, <1>7, <2>2
    <2> QED BY <1>5, <2>2, <2>3
<1> QED BY <1>3, <1>6, <1>7 DEF n

LEMMA NewestGrows ==
    ASSUME NEW rows \in Seq(Nat), NEW e \in Nat
    PROVE  ToSet(Newest(Append(rows, e))) \subseteq ToSet(Newest(rows)) \cup {e}
<1> SUFFICES ASSUME NEW x \in ToSet(Newest(Append(rows, e))), x # e
             PROVE  x \in ToSet(Newest(rows))
    OBVIOUS
<1> DEFINE n == Len(rows)
           s == Append(rows, e)
<1>0. Limit \in Nat BY LimitsAssumption
<1>1. /\ s \in Seq(Nat) /\ n \in Nat /\ Len(s) = n + 1 /\ s[n + 1] = e
      /\ \A i \in 1 .. n : s[i] = rows[i]
    BY AppendIs
<1>2. PICK i \in 1 .. Len(s) : i > Len(s) - Limit /\ s[i] = x BY <1>1, NewestTokens
<1> HIDE DEF s, n
<1>3. i # n + 1 BY <1>1, <1>2
<1>4. i \in 1 .. n /\ i > n - Limit BY <1>0, <1>1, <1>2, <1>3
<1>5. rows[i] = x BY <1>1, <1>2, <1>4
<1> QED BY <1>4, <1>5, NewestTokens DEF n

-----------------------------------------------------------------------------
(* Runs.                                                                   *)
LEMMA RisingIsOneRun ==
    ASSUME NEW s \in Seq(Nat), Rising(s), NEW E PROVE TwoRuns(s, 0, E)
BY DEF Rising, TwoRuns

LEMMA RunsOfTail ==
    ASSUME NEW s \in Seq(Nat), s # <<>>, NEW n \in Nat, NEW E, TwoRuns(s, n, E)
    PROVE  \E m \in Nat : TwoRuns(Tail(s), m, E) /\ (n = 0 => m = 0)
<1> DEFINE r == Tail(s)
           l == Len(s)
           m == IF n = 0 THEN 0 ELSE n - 1
<1>1. /\ l \in Nat /\ Len(r) = l - 1 /\ \A i \in 1 .. l - 1 : r[i] = s[i + 1]
    BY TailIs
<1>2. m \in Nat /\ (n = 0 => m = 0) OBVIOUS
<1>3. \A i \in 1 .. l - 1 : i + 1 \in 1 .. l /\ (i <= m => i + 1 <= n) /\ (m < i => n < i + 1)
    BY <1>1
<1> HIDE DEF r, m
<1>4. ASSUME NEW i \in 1 .. l - 1, NEW j \in 1 .. l - 1, i < j /\ (j <= m \/ m < i)
      PROVE  r[i] < r[j]
    <2>1. s[i + 1] < s[j + 1] BY <1>3, <1>4 DEF TwoRuns
    <2> QED BY <1>1, <2>1
<1>5. ASSUME NEW i \in 1 .. l - 1, NEW j \in 1 .. l - 1, i <= m, m < j
      PROVE  r[i] < r[j] \/ r[j] \in E
    <2>1. s[i + 1] < s[j + 1] \/ s[j + 1] \in E BY <1>3, <1>5 DEF TwoRuns
    <2> QED BY <1>1, <2>1
<1>6. TwoRuns(r, m, E) BY <1>1, <1>4, <1>5 DEF TwoRuns
<1> QED BY <1>2, <1>6 DEF r

LEMMA RunsAndANewer ==
    ASSUME NEW s \in Seq(Nat), NEW one \in Seq(Nat), Len(one) = 1,
           \A i \in 1 .. Len(s) : s[i] < one[1],
           NEW n \in Nat, NEW E, TwoRuns(s, n, E)
    PROVE  TwoRuns(s \o one, n, E)
<1> DEFINE r == s \o one
           l == Len(s)
<1>0. /\ l \in Nat /\ Len(r) = l + Len(one) /\ \A i \in 1 .. l : r[i] = s[i]
      /\ \A i \in l + 1 .. l + Len(one) : r[i] = one[i - l]
    BY JoinIs
<1>1. Len(r) = l + 1 /\ l \in Nat /\ \A i \in 1 .. l : r[i] = s[i]
    <2> HIDE DEF r, l
    <2> QED BY <1>0
<1>2. r[l + 1] = one[1]
    <2>1. l \in Nat /\ Len(one) = 1 BY <1>1
    <2> HIDE DEF r, l
    <2>2. l + 1 \in l + 1 .. l + Len(one) /\ (l + 1) - l = 1 BY <2>1
    <2> QED BY <1>0, <2>2
<1> HIDE DEF r, l
<1>3. \A i \in 1 .. l + 1 : i \in 1 .. l \/ i = l + 1 BY <1>1
<1>4. \A i \in 1 .. l : r[i] < r[l + 1] BY <1>1, <1>2 DEF l
<1>5. ASSUME NEW i \in 1 .. l + 1, NEW j \in 1 .. l + 1, i < j, j <= n \/ n < i
      PROVE  r[i] < r[j]
    <2>1. i \in 1 .. l BY <1>1, <1>5
    <2>2. CASE j \in 1 .. l
        <3>1. s[i] < s[j] BY <1>5, <2>1, <2>2 DEF TwoRuns, l
        <3> QED BY <1>1, <2>1, <2>2, <3>1
    <2>3. CASE j = l + 1 BY <1>4, <2>1, <2>3
    <2> QED BY <1>3, <2>2, <2>3
<1>6. ASSUME NEW i \in 1 .. l + 1, NEW j \in 1 .. l + 1, i <= n, n < j
      PROVE  r[i] < r[j] \/ r[j] \in E
    <2>1. i \in 1 .. l BY <1>1, <1>6
    <2>2. CASE j \in 1 .. l
        <3>1. s[i] < s[j] \/ s[j] \in E BY <1>6, <2>1, <2>2 DEF TwoRuns, l
        <3> QED BY <1>1, <2>1, <2>2, <3>1
    <2>3. CASE j = l + 1 BY <1>4, <2>1, <2>3
    <2> QED BY <1>3, <2>2, <2>3
<1>7. TwoRuns(r, n, E) BY <1>1, <1>5, <1>6 DEF TwoRuns
<1> QED BY <1>7 DEF r

LEMMA ListBeforeRun ==
    ASSUME NEW bs \in Seq(Nat), Rising(bs), NEW s \in Seq(Nat), NEW E, TwoRuns(s, 0, E),
           \A x \in ToSet(s) : x \in E \/ \A y \in ToSet(bs) : y < x
    PROVE  TwoRuns(bs \o s, Len(bs), E)
<1> DEFINE r == bs \o s
           n == Len(bs)
           l == Len(s)
<1>1. /\ n \in Nat /\ l \in Nat /\ Len(r) = n + l /\ \A i \in 1 .. n : r[i] = bs[i]
      /\ \A i \in n + 1 .. n + l : r[i] = s[i - n]
    BY JoinIs
<1>2. /\ \A i \in 1 .. n : bs[i] \in ToSet(bs)
      /\ \A i \in 1 .. l : s[i] \in ToSet(s)
    BY TokensAre
<1> HIDE DEF r, n, l
<1>3. \A i \in n + 1 .. n + l : i - n \in 1 .. l BY <1>1
<1>4. ASSUME NEW i \in 1 .. n + l, NEW j \in 1 .. n + l, i < j, j <= n \/ n < i
      PROVE  r[i] < r[j]
    <2>1. CASE j <= n
        <3>1. i \in 1 .. n /\ j \in 1 .. n BY <1>1, <1>4, <2>1
        <3>2. bs[i] < bs[j] BY <1>4, <3>1 DEF Rising, n
        <3> QED BY <1>1, <3>1, <3>2
    <2>2. CASE n < i
        <3>1. i \in n + 1 .. n + l /\ j \in n + 1 .. n + l BY <1>1, <1>4, <2>2
        <3>2. i - n < j - n /\ 0 < i - n BY <1>1, <1>4, <2>2
        <3>3. s[i - n] < s[j - n] BY <1>3, <3>1, <3>2 DEF TwoRuns, l
        <3> QED BY <1>1, <3>1, <3>3
    <2> QED BY <1>4, <2>1, <2>2
<1>5. ASSUME NEW i \in 1 .. n + l, NEW j \in 1 .. n + l, i <= n, n < j
      PROVE  r[i] < r[j] \/ r[j] \in E
    <2>1. i \in 1 .. n /\ j \in n + 1 .. n + l BY <1>1, <1>5
    <2>2. r[i] = bs[i] /\ r[j] = s[j - n] /\ j - n \in 1 .. l BY <1>1, <1>3, <2>1
    <2>3. bs[i] \in ToSet(bs) /\ s[j - n] \in ToSet(s) BY <1>2, <2>1, <2>2
    <2> QED BY <2>2, <2>3
<1>6. TwoRuns(r, n, E) BY <1>1, <1>4, <1>5 DEF TwoRuns
<1> QED BY <1>6 DEF r, n

LEMMA RunsShowOnce ==
    ASSUME NEW s \in Seq(Nat), NEW n \in Nat, NEW E, TwoRuns(s, n, E),
           NEW i \in 1 .. Len(s), NEW j \in 1 .. Len(s), s[i] = s[j], i # j
    PROVE  s[i] \in E
<1>1. \A k \in 1 .. Len(s) : s[k] \in Nat OBVIOUS
<1>2. ASSUME NEW a \in 1 .. Len(s), NEW b \in 1 .. Len(s), s[a] = s[b], a < b
      PROVE  s[a] \in E
    <2>1. s[a] \in Nat /\ ~(s[a] < s[b]) BY <1>1, <1>2
    <2>2. a <= n /\ n < b
        <3>1. ~(b <= n \/ n < a) BY <1>2, <2>1 DEF TwoRuns
        <3> QED BY <3>1
    <2>3. s[a] < s[b] \/ s[b] \in E BY <2>2 DEF TwoRuns
    <2> QED BY <1>2, <2>1, <2>3
<1>3. i < j \/ j < i OBVIOUS
<1> QED BY <1>2, <1>3

(* A list of beats up to e has not more of them than there are newer ones  *)
(* than its first, and those that may be there twice.                      *)
LEMMA RunsAreShort ==
    ASSUME NEW s \in Seq(Nat), s # <<>>, NEW e \in Nat, UpTo(s, e), NEW n \in Nat,
           NEW E, IsFiniteSet(E), TwoRuns(s, n, E)
    PROVE  Len(s) - 1 <= (e - s[1]) + Cardinality(E)
<1> DEFINE l == Len(s)
           A == {j \in 2 .. l : j <= n \/ s[j] \notin E}
           B == {j \in 2 .. l : n < j /\ s[j] \in E}
           N == s[1] + 1 .. e
<1>1. l \in Nat /\ l >= 1 /\ s[1] \in Nat /\ s[1] <= e
    BY TailIs DEF UpTo
<1>2. \A j \in 1 .. l : s[j] \in Nat /\ s[j] <= e BY DEF UpTo
<1>3. 2 .. l = A \cup B /\ A \cap B = {} OBVIOUS
<1> HIDE DEF l
<1>4. \A j \in A : j \in 1 .. l /\ j > 1 /\ s[j] \in N
    <2> TAKE j \in A
    <2>1. j \in 1 .. l /\ j > 1 /\ 1 \in 1 .. l BY <1>1
    <2>2. s[1] < s[j]
        <3>1. CASE j <= n \/ n < 1 BY <2>1, <3>1 DEF TwoRuns, l
        <3>2. CASE n < j /\ 1 <= n
            <4>1. s[j] \notin E BY <2>1, <3>2
            <4> QED BY <2>1, <3>2, <4>1 DEF TwoRuns, l
        <3> QED BY <2>1, <3>1, <3>2
    <2> QED BY <1>1, <1>2, <2>1, <2>2
<1>5. \A i, j \in A : i < j => s[i] < s[j]
    <2> TAKE i, j \in A
    <2> HAVE i < j
    <2>1. i \in 1 .. l /\ j \in 1 .. l BY <1>4
    <2>2. CASE j <= n \/ n < i BY <2>1, <2>2 DEF TwoRuns, l
    <2>3. CASE i <= n /\ n < j
        <3>1. s[j] \notin E BY <2>1, <2>3
        <3> QED BY <2>1, <2>3, <3>1 DEF TwoRuns, l
    <2> QED BY <2>1, <2>2, <2>3
<1>6. \A i, j \in B : i < j => s[i] < s[j] BY <1>1 DEF TwoRuns, l
<1>7. \A j \in B : j \in 1 .. l /\ s[j] \in E BY <1>1
<1> DEFINE f == [j \in A |-> s[j]]
           g == [j \in B |-> s[j]]
<1>8. IsFiniteSet(N) /\ Cardinality(N) = e - s[1]
    <2>1. PICK a \in Nat : a = s[1] BY <1>1
    <2>2. a + 1 \in Int /\ e \in Int OBVIOUS
    <2>3. IsFiniteSet(a + 1 .. e)
          /\ Cardinality(a + 1 .. e) = IF a + 1 > e THEN 0 ELSE e - (a + 1) + 1
        BY <2>2, FS_Interval
    <2> QED BY <1>1, <2>1, <2>3
<1>9. A \subseteq 2 .. l /\ B \subseteq 2 .. l BY <1>3
<1> HIDE DEF A, B, N
<1>10. \A i, j \in A : s[i] = s[j] => i = j
    <2> SUFFICES ASSUME NEW i \in A, NEW j \in A, s[i] = s[j], i # j PROVE FALSE OBVIOUS
    <2>1. i \in Nat /\ j \in Nat /\ s[i] \in Nat BY <1>2, <1>4
    <2>2. i < j \/ j < i BY <2>1
    <2> QED BY <1>5, <2>1, <2>2
<1>11. \A i, j \in B : s[i] = s[j] => i = j
    <2> SUFFICES ASSUME NEW i \in B, NEW j \in B, s[i] = s[j], i # j PROVE FALSE OBVIOUS
    <2>1. i \in Nat /\ j \in Nat /\ s[i] \in Nat BY <1>2, <1>7
    <2>2. i < j \/ j < i BY <2>1
    <2> QED BY <1>6, <2>1, <2>2
<1>12. f \in Injection(A, N) BY <1>4, <1>10 DEF Injection, IsInjective
<1>13. g \in Injection(B, E) BY <1>7, <1>11 DEF Injection, IsInjective
<1>14. IsFiniteSet(A) /\ Cardinality(A) <= Cardinality(N) BY <1>8, <1>12, FS_Injection
<1>15. IsFiniteSet(B) /\ Cardinality(B) <= Cardinality(E) BY <1>13, FS_Injection
<1>16. Cardinality(2 .. l) = l - 1
    <2>1. 2 \in Int /\ l \in Int BY <1>1
    <2>2. Cardinality(2 .. l) = IF 2 > l THEN 0 ELSE l - 2 + 1 BY <2>1, FS_Interval
    <2> QED BY <1>1, <2>2
<1>17. Cardinality(A \cup B) = Cardinality(A) + Cardinality(B) - Cardinality(A \cap B)
    BY <1>14, <1>15, FS_Union
<1>18. Cardinality(A \cap B) = 0 BY <1>3, FS_EmptySet
<1>19. /\ Cardinality(A) \in Nat /\ Cardinality(B) \in Nat /\ Cardinality(E) \in Nat
    BY <1>14, <1>15, FS_CardinalityType
<1> DEFINE ca == Cardinality(A)
           cb == Cardinality(B)
           ce == Cardinality(E)
           fst == s[1]
<1>20. l - 1 = ca + cb /\ ca <= e - fst /\ cb <= ce
    <2>1. Cardinality(A \cup B) = l - 1 BY <1>3, <1>16
    <2> QED BY <1>8, <1>14, <1>15, <1>17, <1>18, <1>19, <2>1
<1>21. ca \in Nat /\ cb \in Nat /\ ce \in Nat /\ fst \in Nat BY <1>1, <1>19
<1> HIDE DEF ca, cb, ce, fst
<1>22. l - 1 <= (e - fst) + ce BY <1>1, <1>20, <1>21
<1> QED BY <1>22 DEF l, ce, fst

LEMMA SentIs ==
    ASSUME NEW ch \in Seq(Message), NEW m \in Message
    PROVE  /\ Len(ch) \in Nat /\ Append(ch, m) \in Seq(Message)
           /\ Len(Append(ch, m)) = Len(ch) + 1 /\ Append(ch, m)[Len(ch) + 1] = m
           /\ \A i \in 1 .. Len(ch) : Append(ch, m)[i] = ch[i]
OBVIOUS

LEMMA MessageIs ==
    ASSUME NEW m \in Message
    PROVE  m.kind \in {"beat", "list", "overwrite"} /\ m.beats \in Seq(Nat)
BY DEF Message

LEMMA HeardIs ==
    ASSUME NEW ch, NEW sh, NEW k
    PROVE  \A x : x \in Heard(ch, sh, k) <=>
               x \in ToSet(sh) \/ \E i \in 1 .. k - 1 : x \in ToSet(ch[i].beats)
BY DEF Heard

LEMMA MergedIs ==
    ASSUME NEW m \in Message, NEW sh \in Seq(Nat)
    PROVE  /\ Merged(m, sh) \in Seq(Nat)
           /\ ToSet(Merged(m, sh)) \subseteq ToSet(sh) \cup ToSet(m.beats)
           /\ m.kind = "overwrite" => Merged(m, sh) = m.beats
           /\ m.kind = "list" => Merged(m, sh) = m.beats \o sh
           /\ m.kind = "beat" => Merged(m, sh) = IF Len(sh \o m.beats) >= Full
                                                 THEN Tail(sh \o m.beats) ELSE sh \o m.beats
<1>1. m.kind \in {"beat", "list", "overwrite"} /\ m.beats \in Seq(Nat) BY MessageIs
<1> DEFINE bs == m.beats
           longer == sh \o bs
<1>2. longer \in Seq(Nat) /\ ToSet(longer) = ToSet(sh) \cup ToSet(bs)
    BY <1>1, JoinIs, TokensOfJoin
<1>3. bs \o sh \in Seq(Nat) /\ ToSet(bs \o sh) = ToSet(sh) \cup ToSet(bs)
    BY <1>1, JoinIs, TokensOfJoin
<1>4. m.kind = "overwrite" => Merged(m, sh) = bs BY DEF Merged
<1>5. m.kind = "list" => Merged(m, sh) = bs \o sh BY DEF Merged
<1>6. m.kind = "beat" =>
          Merged(m, sh) = IF Len(longer) >= Full THEN Tail(longer) ELSE longer
    BY DEF Merged
<1>7. CASE m.kind = "beat"
    <2>1. Full \in Nat \ {0} BY LimitsAssumption
    <2>2. CASE Len(longer) >= Full
        <3>1. longer # <<>>
            <4>1. longer = <<>> => Len(longer) = 0 BY <1>2
            <4> HIDE DEF longer
            <4> QED BY <2>1, <2>2, <4>1
        <3>2. Tail(longer) \in Seq(Nat) /\ ToSet(Tail(longer)) \subseteq ToSet(longer)
            BY <1>2, <3>1, TailIs, TokensOfTail
        <3> QED BY <1>2, <1>6, <1>7, <2>2, <3>2
    <2>3. CASE ~(Len(longer) >= Full) BY <1>2, <1>6, <1>7, <2>3
    <2> QED BY <2>2, <2>3
<1>8. CASE m.kind = "list" BY <1>3, <1>5, <1>8
<1>9. CASE m.kind = "overwrite" BY <1>1, <1>4, <1>9
<1> QED BY <1>1, <1>7, <1>8, <1>9

LEMMA HeardAfterAppend ==
    ASSUME NEW ch \in Seq(Message), NEW m \in Message, NEW sh
    PROVE  /\ \A k \in 1 .. Len(ch) + 1 : Heard(Append(ch, m), sh, k) = Heard(ch, sh, k)
           /\ Heard(Append(ch, m), sh, Len(ch) + 2) =
                  Heard(ch, sh, Len(ch) + 1) \cup ToSet(m.beats)
<1> DEFINE c == Append(ch, m)
           n == Len(ch)
<1>1. n \in Nat /\ Len(c) = n + 1 /\ c[n + 1] = m /\ \A i \in 1 .. n : c[i] = ch[i]
    BY SentIs
<1> HIDE DEF c, n
<1>2. ASSUME NEW k \in 1 .. n + 1 PROVE Heard(c, sh, k) = Heard(ch, sh, k)
    <2>1. \A i \in 1 .. k - 1 : c[i].beats = ch[i].beats
        <3>1. \A i \in 1 .. k - 1 : i \in 1 .. n BY <1>1
        <3> QED BY <1>1, <3>1
    <2>2. \A x : x \in Heard(c, sh, k) <=> x \in Heard(ch, sh, k) BY <2>1, HeardIs
    <2> QED BY <2>2
<1>3. Heard(c, sh, n + 2) = Heard(ch, sh, n + 1) \cup ToSet(m.beats)
    <2>1. \A i : i \in 1 .. (n + 2) - 1 <=> i \in 1 .. n \/ i = n + 1 BY <1>1
    <2>2. \A i : i \in 1 .. (n + 1) - 1 <=> i \in 1 .. n BY <1>1
    <2>3. \A x : x \in Heard(c, sh, n + 2) <=>
              x \in Heard(ch, sh, n + 1) \/ x \in ToSet(m.beats)
        <3> TAKE x
        <3>1. x \in Heard(c, sh, n + 2) <=>
                  x \in ToSet(sh) \/ \E i \in 1 .. (n + 2) - 1 : x \in ToSet(c[i].beats)
            BY HeardIs
        <3>2. x \in Heard(ch, sh, n + 1) <=>
                  x \in ToSet(sh) \/ \E i \in 1 .. (n + 1) - 1 : x \in ToSet(ch[i].beats)
            BY HeardIs
        <3>3. (\E i \in 1 .. (n + 2) - 1 : x \in ToSet(c[i].beats)) <=>
                  (\E i \in 1 .. n : x \in ToSet(c[i].beats)) \/ x \in ToSet(c[n + 1].beats)
            BY <2>1
        <3>4. (\E i \in 1 .. n : x \in ToSet(c[i].beats)) <=>
                  (\E i \in 1 .. (n + 1) - 1 : x \in ToSet(ch[i].beats))
            BY <1>1, <2>2
        <3> QED BY <1>1, <3>1, <3>2, <3>3, <3>4
    <2> QED BY <2>3
<1> QED BY <1>2, <1>3 DEF c, n

LEMMA HeardBeforeSent ==
    ASSUME NEW ch \in Seq(Message), NEW m \in Message, NEW sh, NEW k \in 1 .. Len(ch) + 1
    PROVE  Heard(Append(ch, m), sh, k) = Heard(ch, sh, k)
<1>1. /\ \A j \in 1 .. Len(ch) + 1 : Heard(Append(ch, m), sh, j) = Heard(ch, sh, j)
      /\ Heard(Append(ch, m), sh, Len(ch) + 2) = Heard(ch, sh, Len(ch) + 1) \cup ToSet(m.beats)
    BY HeardAfterAppend
<1> QED BY <1>1

LEMMA HeardAfterReceipt ==
    ASSUME NEW ch \in Seq(Message), ch # <<>>, NEW sh \in Seq(Nat)
    PROVE  \A k \in 1 .. Len(ch) :
               Heard(Tail(ch), Merged(ch[1], sh), k) \subseteq Heard(ch, sh, k + 1)
<1> DEFINE c == Tail(ch)
           n == Len(ch)
           s == Merged(ch[1], sh)
<1>1. /\ n \in Nat /\ n >= 1 /\ Len(c) = n - 1 /\ \A i \in 1 .. n - 1 : c[i] = ch[i + 1]
      /\ ch[1] \in Message
    BY TailIs
<1>2. ToSet(s) \subseteq ToSet(sh) \cup ToSet(ch[1].beats) BY <1>1, MergedIs
<1> HIDE DEF c, n, s
<1>3. ASSUME NEW k \in 1 .. n, NEW x \in Heard(c, s, k) PROVE x \in Heard(ch, sh, k + 1)
    <2>1. x \in ToSet(s) \/ \E i \in 1 .. k - 1 : x \in ToSet(c[i].beats) BY HeardIs
    <2>2. CASE x \in ToSet(s)
        <3>1. 1 \in 1 .. (k + 1) - 1 BY <1>1
        <3>2. x \in ToSet(sh) \/ x \in ToSet(ch[1].beats) BY <1>2, <2>2
        <3> QED BY <3>1, <3>2, HeardIs
    <2>3. ASSUME NEW i \in 1 .. k - 1, x \in ToSet(c[i].beats) PROVE x \in Heard(ch, sh, k + 1)
        <3>1. i \in 1 .. n - 1 /\ i + 1 \in 1 .. (k + 1) - 1 BY <1>1
        <3>2. x \in ToSet(ch[i + 1].beats) BY <1>1, <2>3, <3>1
        <3> QED BY <3>1, <3>2, HeardIs
    <2> QED BY <2>1, <2>2, <2>3
<1> QED BY <1>3 DEF c, n, s

LEMMA HeardIsUpTo ==
    ASSUME NEW e \in Nat, NEW ch \in Seq(Message), NEW sh \in Seq(Nat), MessagesOK(e, ch, sh),
           NEW k \in 1 .. Len(ch) + 1
    PROVE  \A x \in Heard(ch, sh, k) : x \in Nat /\ x <= e
<1> SUFFICES ASSUME NEW x \in Heard(ch, sh, k) PROVE x \in Nat /\ x <= e OBVIOUS
<1>1. CASE x \in ToSet(sh) BY <1>1, TokensAreUpTo DEF MessagesOK
<1>2. CASE \E i \in 1 .. k - 1 : x \in ToSet(ch[i].beats)
    <2>1. PICK i \in 1 .. k - 1 : x \in ToSet(ch[i].beats) BY <1>2
    <2>2. i \in 1 .. Len(ch) OBVIOUS
    <2>3. ch[i] \in Message BY <2>2, ElementsAre
    <2>4. ch[i].beats \in Seq(Nat) BY <2>3, MessageIs
    <2>5. UpTo(ch[i].beats, e) BY <2>2 DEF MessagesOK
    <2> QED BY <2>1, <2>4, <2>5, TokensAreUpTo
<1> QED BY <1>1, <1>2, HeardIs

-----------------------------------------------------------------------------
(* A message is sent.                                                      *)
LEMMA SendKeepsMessages ==
    ASSUME NEW e \in Nat, NEW f \in Nat, e <= f, NEW ch \in Seq(Message), NEW sh \in Seq(Nat),
           MessagesOK(e, ch, sh), NEW m \in Message, Rising(m.beats), UpTo(m.beats, f),
           m.kind = "beat" => Len(m.beats) = 1 /\ m.beats[1] > e
    PROVE  MessagesOK(f, Append(ch, m), sh)
<1> DEFINE c == Append(ch, m)
           n == Len(ch)
<1>1. n \in Nat /\ Len(c) = n + 1 /\ c[n + 1] = m /\ \A i \in 1 .. n : c[i] = ch[i]
    BY SentIs
<1>2. \A k \in 1 .. n + 1 : Heard(c, sh, k) = Heard(ch, sh, k)
    <2> TAKE k \in 1 .. n + 1
    <2> QED BY HeardBeforeSent
<1>3. \A k \in 1 .. n + 1 : \A x \in Heard(ch, sh, k) : x \in Nat /\ x <= e BY HeardIsUpTo
<1>4. \A s \in Seq(Nat) : UpTo(s, e) => UpTo(s, f)
    <2> SUFFICES ASSUME NEW s \in Seq(Nat), UpTo(s, e) PROVE UpTo(s, f) OBVIOUS
    <2>1. \A i \in 1 .. Len(s) : s[i] \in Nat BY ElementsAre
    <2> QED BY <2>1 DEF UpTo
<1>5. \A i \in 1 .. n : ch[i].beats \in Seq(Nat) BY ElementsAre, MessageIs
<1>6. m.beats \in Seq(Nat) BY MessageIs
<1>7. Len(m.beats) = 1 => m.beats[1] \in Nat BY <1>6, TokensOfOne
<1> HIDE DEF c, n
<1>8. UpTo(sh, f) BY <1>4 DEF MessagesOK
<1>9. \A k \in 1 .. n + 1 : k \in 1 .. n \/ k = n + 1 BY <1>1
<1>10. \A k \in 1 .. n : /\ c[k] = ch[k]
                         /\ Rising(ch[k].beats) /\ UpTo(ch[k].beats, f)
                         /\ ch[k].kind = "beat" =>
                               /\ Len(ch[k].beats) = 1
                               /\ \A x \in Heard(c, sh, k) : x < ch[k].beats[1]
    <2> TAKE k \in 1 .. n
    <2>1. k \in 1 .. n + 1 BY <1>1
    <2>2. Rising(ch[k].beats) /\ UpTo(ch[k].beats, e) BY DEF MessagesOK, n
    <2>3. ch[k].kind = "beat" => /\ Len(ch[k].beats) = 1
                                 /\ \A x \in Heard(ch, sh, k) : x < ch[k].beats[1]
        BY DEF MessagesOK, n
    <2> QED BY <1>1, <1>2, <1>4, <1>5, <2>1, <2>2, <2>3
<1>11. m.kind = "beat" => \A x \in Heard(c, sh, n + 1) : x < m.beats[1]
    <2> HAVE m.kind = "beat"
    <2>1. n + 1 \in 1 .. n + 1 BY <1>1
    <2>2. \A x \in Heard(c, sh, n + 1) : x \in Nat /\ x <= e BY <1>2, <1>3, <2>1
    <2> QED BY <1>7, <2>2
<1>12. /\ \A k \in 1 .. n + 1 : Rising(c[k].beats) /\ UpTo(c[k].beats, f)
       /\ \A k \in 1 .. n + 1 : c[k].kind = "beat" =>
             Len(c[k].beats) = 1 /\ \A x \in Heard(c, sh, k) : x < c[k].beats[1]
    BY <1>1, <1>9, <1>10, <1>11
<1> QED BY <1>1, <1>8, <1>12 DEF MessagesOK, c

LEMMA SendKeepsOneList ==
    ASSUME NEW tb, NEW ch \in Seq(Message), NEW m \in Message, OneList(tb, ch), m.kind # "list"
    PROVE  OneList(tb, Append(ch, m)) /\ (ListComes(tb, Append(ch, m)) <=> ListComes(tb, ch))
<1> DEFINE c == Append(ch, m)
           n == Len(ch)
<1>1. n \in Nat /\ Len(c) = n + 1 /\ c[n + 1] = m /\ \A i \in 1 .. n : c[i] = ch[i]
    BY SentIs
<1> HIDE DEF c, n
<1>2. \A k \in 1 .. n + 1 : c[k].kind = "list" => k \in 1 .. n /\ ch[k].kind = "list" BY <1>1
<1>3. \A k \in 1 .. n : k \in 1 .. n + 1 BY <1>1
<1>4. OneList(tb, c) BY <1>1, <1>2 DEF OneList, n
<1>5. ListComes(tb, c) <=> ListComes(tb, ch) BY <1>1, <1>2, <1>3 DEF ListComes, n
<1> QED BY <1>4, <1>5 DEF c

LEMMA SendKeepsFit ==
    ASSUME NEW tb, NEW ans, NEW ch \in Seq(Message), NEW sh, NEW si, NEW ea, NEW fa,
           NEW m \in Message,
           ListsFit(tb, ans, ch, sh, si, ea), ea \subseteq fa, m.kind # "list",
           tb = "joined" => \A x \in ToSet(m.beats) : x > si \/ x \in fa,
           tb = "read" => \A x \in ToSet(m.beats) : x \in fa \/ \A y \in ToSet(ans) : y < x
    PROVE  ListsFit(tb, ans, Append(ch, m), sh, si, fa)
<1> DEFINE c == Append(ch, m)
           n == Len(ch)
<1>1. n \in Nat /\ Len(c) = n + 1 /\ c[n + 1] = m /\ \A i \in 1 .. n : c[i] = ch[i]
    BY SentIs
<1>2. /\ \A k \in 1 .. n + 1 : Heard(c, sh, k) = Heard(ch, sh, k)
      /\ Heard(c, sh, n + 2) = Heard(ch, sh, n + 1) \cup ToSet(m.beats)
    BY HeardAfterAppend, Zenon
<1>3. Len(c) + 1 = n + 2 BY <1>1
<1> HIDE DEF c, n
<1>4. tb = "joined" => \A x \in Heard(c, sh, n + 2) : x > si \/ x \in fa
    BY <1>2 DEF ListsFit, n
<1>5. tb = "read" => \A x \in Heard(c, sh, n + 2) : x \in fa \/ \A y \in ToSet(ans) : y < x
    BY <1>2 DEF ListsFit, n
<1>6. \A k \in 1 .. n + 1 : c[k].kind = "list" => k \in 1 .. n /\ c[k] = ch[k] BY <1>1
<1>7. \A k \in 1 .. n + 1 : c[k].kind = "list" =>
          \A x \in Heard(c, sh, k) : x \in fa \/ \A y \in ToSet(c[k].beats) : y < x
    BY <1>2, <1>6 DEF ListsFit, n
<1> QED BY <1>1, <1>3, <1>4, <1>5, <1>7 DEF ListsFit, c

(* The list itself is sent.                                                *)
LEMMA ListSentFits ==
    ASSUME NEW ans, NEW ch \in Seq(Message), NEW sh, NEW si, NEW ea, NEW none,
           NEW m \in Message, m.kind = "list", m.beats = ans,
           OneList("read", ch), ListsFit("read", ans, ch, sh, si, ea)
    PROVE  OneList("in", Append(ch, m)) /\ ListsFit("in", none, Append(ch, m), sh, si, ea)
<1> DEFINE c == Append(ch, m)
           n == Len(ch)
<1>1. n \in Nat /\ Len(c) = n + 1 /\ c[n + 1] = m /\ \A i \in 1 .. n : c[i] = ch[i]
    BY SentIs
<1>2. \A k \in 1 .. n + 1 : Heard(c, sh, k) = Heard(ch, sh, k)
    <2> TAKE k \in 1 .. n + 1
    <2> QED BY HeardBeforeSent
<1> HIDE DEF c, n
<1>3. \A k \in 1 .. n : ch[k].kind # "list" BY DEF OneList, n
<1>4. \A k \in 1 .. n + 1 : c[k].kind = "list" => k = n + 1 BY <1>1, <1>3
<1>5. OneList("in", c) BY <1>1, <1>4 DEF OneList
<1>6. n + 1 \in 1 .. n + 1 BY <1>1
<1>7. \A x \in Heard(c, sh, n + 1) : x \in ea \/ \A y \in ToSet(m.beats) : y < x
    BY <1>2, <1>6 DEF ListsFit, n
<1>8. ListsFit("in", none, c, sh, si, ea) BY <1>1, <1>4, <1>7 DEF ListsFit
<1> QED BY <1>5, <1>8 DEF c

LEMMA SendKeepsArrival ==
    ASSUME NEW b, NEW ch \in Seq(Message), NEW sh, NEW m \in Message
    PROVE  /\ b \in ToSet(m.beats) => WillShow(b, Append(ch, m), sh)
           /\ WillShow(b, ch, sh) /\ m.kind # "overwrite" => WillShow(b, Append(ch, m), sh)
<1> DEFINE c == Append(ch, m)
           n == Len(ch)
<1>1. n \in Nat /\ Len(c) = n + 1 /\ c[n + 1] = m /\ \A i \in 1 .. n : c[i] = ch[i]
    BY SentIs
<1> HIDE DEF c, n
<1>2. Safe(c, n + 1) BY <1>1 DEF Safe
<1>3. n + 1 \in 1 .. Len(c) BY <1>1
<1>4. b \in ToSet(m.beats) => WillShow(b, c, sh) BY <1>1, <1>2, <1>3 DEF WillShow
<1>5. ASSUME m.kind # "overwrite", NEW k \in 0 .. n, Safe(ch, k) PROVE Safe(c, k)
    <2>1. \A j \in k + 1 .. n + 1 : j \in k + 1 .. n \/ j = n + 1 BY <1>1
    <2>2. \A j \in k + 1 .. n : j \in 1 .. n BY <1>1
    <2> QED BY <1>1, <1>5, <2>1, <2>2 DEF Safe, n
<1>6. ASSUME m.kind # "overwrite", WillShow(b, ch, sh) PROVE WillShow(b, c, sh)
    <2>1. CASE b \in ToSet(sh) /\ Safe(ch, 0)
        <3>1. 0 \in 0 .. n BY <1>1
        <3> QED BY <1>5, <1>6, <2>1, <3>1 DEF WillShow
    <2>2. ASSUME NEW k \in 1 .. n, b \in ToSet(ch[k].beats), Safe(ch, k) PROVE WillShow(b, c, sh)
        <3>1. k \in 0 .. n /\ k \in 1 .. Len(c) /\ c[k] = ch[k] BY <1>1
        <3> QED BY <1>5, <1>6, <2>2, <3>1 DEF WillShow
    <2> QED BY <1>6, <2>1, <2>2 DEF WillShow, n
<1> QED BY <1>4, <1>6 DEF c

(* A message is received.                                                  *)
LEMMA FirstMessage ==
    ASSUME NEW ch \in Seq(Message), ch # <<>>
    PROVE  /\ Len(ch) \in Nat /\ Len(ch) >= 1 /\ 1 \in 1 .. Len(ch)
           /\ Len(Tail(ch)) = Len(ch) - 1 /\ Tail(ch) \in Seq(Message)
           /\ \A i \in 1 .. Len(ch) - 1 : i + 1 \in 1 .. Len(ch) /\ Tail(ch)[i] = ch[i + 1]
           /\ ch[1] \in Message /\ ch[1].beats \in Seq(Nat) /\ Head(ch) = ch[1]
           /\ ch[1].kind \in {"beat", "list", "overwrite"}
<1>1. /\ Len(ch) \in Nat /\ Len(ch) >= 1 /\ Len(Tail(ch)) = Len(ch) - 1
      /\ Tail(ch) \in Seq(Message) /\ ch[1] \in Message /\ Head(ch) = ch[1]
      /\ \A i \in 1 .. Len(ch) - 1 : Tail(ch)[i] = ch[i + 1]
    BY TailIs
<1>2. ch[1].beats \in Seq(Nat) /\ ch[1].kind \in {"beat", "list", "overwrite"}
    BY <1>1, MessageIs
<1>3. PICK n \in Nat : n = Len(ch) BY <1>1
<1>4. \A i \in 1 .. n - 1 : i + 1 \in 1 .. n OBVIOUS
<1>5. 1 \in 1 .. n BY <1>1, <1>3
<1> QED BY <1>1, <1>2, <1>3, <1>4, <1>5

LEMMA ReceiptKeepsMessages ==
    ASSUME NEW e \in Nat, NEW ch \in Seq(Message), ch # <<>>, NEW sh \in Seq(Nat),
           MessagesOK(e, ch, sh)
    PROVE  MessagesOK(e, Tail(ch), Merged(ch[1], sh)) /\ Merged(ch[1], sh) \in Seq(Nat)
<1> DEFINE c == Tail(ch)
           n == Len(ch)
           s == Merged(ch[1], sh)
<1>1. /\ n \in Nat /\ 1 \in 1 .. n /\ Len(c) = n - 1
      /\ \A i \in 1 .. n - 1 : i + 1 \in 1 .. n /\ c[i] = ch[i + 1]
      /\ ch[1] \in Message /\ ch[1].beats \in Seq(Nat)
    BY FirstMessage
<1>2. s \in Seq(Nat) /\ ToSet(s) \subseteq ToSet(sh) \cup ToSet(ch[1].beats)
    BY <1>1, MergedIs
<1>3. \A k \in 1 .. n : Heard(c, s, k) \subseteq Heard(ch, sh, k + 1) BY HeardAfterReceipt
<1> HIDE DEF c, n, s
<1>4. UpTo(s, e)
    <2>1. UpTo(sh, e) /\ UpTo(ch[1].beats, e) BY <1>1 DEF MessagesOK, n
    <2>2. \A x \in ToSet(s) : x <= e BY <1>1, <1>2, <2>1, TokensAreUpTo
    <2>3. \A i \in 1 .. Len(s) : s[i] \in ToSet(s) BY <1>2, TokensAre
    <2> QED BY <2>2, <2>3 DEF UpTo
<1>5. \A k \in 1 .. n - 1 : Rising(c[k].beats) /\ UpTo(c[k].beats, e)
    BY <1>1 DEF MessagesOK, n
<1>6. \A k \in 1 .. n - 1 : c[k].kind = "beat" =>
          Len(c[k].beats) = 1 /\ \A x \in Heard(c, s, k) : x < c[k].beats[1]
    <2> TAKE k \in 1 .. n - 1
    <2>1. k \in 1 .. n /\ k + 1 \in 1 .. n BY <1>1
    <2>2. c[k] = ch[k + 1] BY <1>1
    <2>3. ch[k + 1].kind = "beat" =>
              /\ Len(ch[k + 1].beats) = 1
              /\ \A x \in Heard(ch, sh, k + 1) : x < ch[k + 1].beats[1]
        BY <2>1 DEF MessagesOK, n
    <2> QED BY <1>3, <2>1, <2>2, <2>3
<1> QED BY <1>1, <1>2, <1>4, <1>5, <1>6 DEF MessagesOK, c, s

LEMMA ReceiptKeepsOneList ==
    ASSUME NEW tb, NEW ch \in Seq(Message), ch # <<>>, OneList(tb, ch)
    PROVE  OneList(tb, Tail(ch)) /\ (ListComes(tb, Tail(ch)) => ListComes(tb, ch))
<1> DEFINE c == Tail(ch)
           n == Len(ch)
<1>1. /\ n \in Nat /\ Len(c) = n - 1
      /\ \A i \in 1 .. n - 1 : i + 1 \in 1 .. n /\ c[i] = ch[i + 1]
    BY FirstMessage
<1> HIDE DEF c, n
<1>2. OneList(tb, c)
    <2> SUFFICES ASSUME NEW k \in 1 .. n - 1, c[k].kind = "list"
                 PROVE  tb = "in" /\ \A i \in 1 .. n - 1 : c[i].kind = "list" => i = k
        BY <1>1 DEF OneList
    <2>1. k + 1 \in 1 .. n /\ ch[k + 1].kind = "list" BY <1>1
    <2>2. tb = "in" /\ \A i \in 1 .. n : ch[i].kind = "list" => i = k + 1
        BY <2>1 DEF OneList, n
    <2>3. \A i \in 1 .. n - 1 : c[i].kind = "list" => i + 1 = k + 1 BY <1>1, <2>2
    <2>4. \A i \in 1 .. n - 1 : i + 1 = k + 1 => i = k BY <1>1
    <2> QED BY <2>2, <2>3, <2>4
<1>3. ListComes(tb, c) => ListComes(tb, ch) BY <1>1 DEF ListComes, n
<1> QED BY <1>2, <1>3 DEF c

LEMMA ReceiptKeepsFit ==
    ASSUME NEW tb, NEW ans, NEW ch \in Seq(Message), ch # <<>>, NEW sh \in Seq(Nat), NEW si,
           NEW ea, ListsFit(tb, ans, ch, sh, si, ea)
    PROVE  ListsFit(tb, ans, Tail(ch), Merged(ch[1], sh), si, ea)
<1> DEFINE c == Tail(ch)
           n == Len(ch)
           s == Merged(ch[1], sh)
<1>1. /\ n \in Nat /\ n >= 1 /\ Len(c) = n - 1
      /\ \A i \in 1 .. n - 1 : i + 1 \in 1 .. n /\ c[i] = ch[i + 1]
    BY FirstMessage
<1>2. \A k \in 1 .. n : Heard(c, s, k) \subseteq Heard(ch, sh, k + 1) BY HeardAfterReceipt
<1>3. Len(c) + 1 = n /\ n \in 1 .. n /\ \A k \in 1 .. n - 1 : k \in 1 .. n BY <1>1
<1> HIDE DEF c, n, s
<1>4. Heard(c, s, n) \subseteq Heard(ch, sh, n + 1) BY <1>2, <1>3
<1>5. \A k \in 1 .. n - 1 : c[k].kind = "list" =>
          \A x \in Heard(c, s, k) : x \in ea \/ \A y \in ToSet(c[k].beats) : y < x
    <2> TAKE k \in 1 .. n - 1
    <2>1. k + 1 \in 1 .. n /\ c[k] = ch[k + 1] BY <1>1
    <2>2. ch[k + 1].kind = "list" =>
              \A x \in Heard(ch, sh, k + 1) :
                  x \in ea \/ \A y \in ToSet(ch[k + 1].beats) : y < x
        BY <2>1 DEF ListsFit, n
    <2> QED BY <1>2, <1>3, <2>1, <2>2
<1>6. tb = "joined" => \A x \in Heard(c, s, n) : x > si \/ x \in ea
    BY <1>4 DEF ListsFit, n
<1>7. tb = "read" => \A x \in Heard(c, s, n) : x \in ea \/ \A y \in ToSet(ans) : y < x
    BY <1>4 DEF ListsFit, n
<1> QED BY <1>1, <1>3, <1>5, <1>6, <1>7 DEF ListsFit, c, s

(* What a live beat makes of the list.                                     *)
LEMMA LongerIs ==
    ASSUME NEW e \in Nat, NEW ch \in Seq(Message), ch # <<>>, NEW sh \in Seq(Nat),
           MessagesOK(e, ch, sh), ch[1].kind = "beat",
           NEW n \in Nat, NEW ea, TwoRuns(sh, n, ea)
    PROVE  /\ sh \o ch[1].beats \in Seq(Nat) /\ sh \o ch[1].beats # <<>>
           /\ UpTo(sh \o ch[1].beats, e) /\ TwoRuns(sh \o ch[1].beats, n, ea)
<1> DEFINE one == ch[1].beats
           l == sh \o one
<1>1. 1 \in 1 .. Len(ch) /\ one \in Seq(Nat) BY FirstMessage
<1>2. Len(one) = 1 /\ \A x \in Heard(ch, sh, 1) : x < one[1] BY <1>1 DEF MessagesOK
<1>3. UpTo(sh, e) /\ UpTo(one, e) BY <1>1 DEF MessagesOK
<1> HIDE DEF one
<1>4. l \in Seq(Nat) /\ Len(l) = Len(sh) + 1 /\ Len(sh) \in Nat
    <2>1. l \in Seq(Nat) /\ Len(l) = Len(sh) + Len(one) /\ Len(sh) \in Nat BY <1>1, JoinIs
    <2> HIDE DEF l
    <2> QED BY <1>2, <2>1
<1>5. l # <<>>
    <2>1. l = <<>> => Len(l) = 0 BY <1>4
    <2> HIDE DEF l
    <2> QED BY <1>4, <2>1
<1>6. UpTo(l, e)
    <2>1. \A x \in ToSet(l) : x <= e BY <1>1, <1>3, TokensOfJoin, TokensAreUpTo
    <2>2. \A i \in 1 .. Len(l) : l[i] \in ToSet(l) BY <1>4, TokensAre
    <2> HIDE DEF l
    <2> QED BY <2>1, <2>2 DEF UpTo
<1>7. \A i \in 1 .. Len(sh) : sh[i] < one[1]
    <2>1. \A i \in 1 .. Len(sh) : sh[i] \in ToSet(sh) BY TokensAre
    <2>2. \A x \in ToSet(sh) : x \in Heard(ch, sh, 1) BY HeardIs
    <2> QED BY <1>2, <2>1, <2>2
<1>8. TwoRuns(l, n, ea) BY <1>1, <1>2, <1>7, RunsAndANewer
<1> QED BY <1>4, <1>5, <1>6, <1>8 DEF one

LEMMA ReceiptKeepsRuns ==
    ASSUME NEW e \in Nat, NEW tb, NEW ans, NEW ch \in Seq(Message), ch # <<>>,
           NEW sh \in Seq(Nat), NEW si, NEW ea,
           MessagesOK(e, ch, sh), OneList(tb, ch), ListsFit(tb, ans, ch, sh, si, ea),
           ShowsRuns(tb, ch, sh, ea)
    PROVE  ShowsRuns(tb, Tail(ch), Merged(ch[1], sh), ea)
<1> DEFINE c == Tail(ch)
           m == ch[1]
           s == Merged(m, sh)
<1>1. /\ 1 \in 1 .. Len(ch) /\ m \in Message /\ m.beats \in Seq(Nat)
      /\ m.kind \in {"beat", "list", "overwrite"} /\ Len(ch) \in Nat /\ Len(c) = Len(ch) - 1
      /\ \A i \in 1 .. Len(ch) - 1 : i + 1 \in 1 .. Len(ch) /\ c[i] = ch[i + 1]
    BY FirstMessage
<1>2. ListComes(tb, c) => ListComes(tb, ch) BY ReceiptKeepsOneList
<1>3. PICK n \in Nat : TwoRuns(sh, n, ea) /\ (ListComes(tb, ch) => n = 0) BY DEF ShowsRuns
<1>4. CASE m.kind = "beat"
    <2> DEFINE l == sh \o m.beats
    <2>1. l \in Seq(Nat) /\ l # <<>> /\ TwoRuns(l, n, ea) BY <1>3, <1>4, LongerIs
    <2>2. s = IF Len(l) >= Full THEN Tail(l) ELSE l BY <1>1, <1>4, MergedIs
    <2> HIDE DEF l, s, c, m
    <2>3. PICK k \in Nat : TwoRuns(Tail(l), k, ea) /\ (n = 0 => k = 0) BY <2>1, RunsOfTail
    <2>4. TwoRuns(s, k, ea) \/ TwoRuns(s, n, ea) BY <2>1, <2>2, <2>3
    <2>5. ShowsRuns(tb, c, s, ea) BY <1>2, <1>3, <2>3, <2>4 DEF ShowsRuns
    <2> QED BY <2>5 DEF s, c, m
<1>5. CASE m.kind = "overwrite"
    <2>1. s = m.beats /\ Rising(m.beats) BY <1>1, <1>5, MergedIs DEF MessagesOK
    <2>2. TwoRuns(s, 0, ea) BY <1>1, <2>1, RisingIsOneRun
    <2> QED BY <2>2 DEF ShowsRuns
<1>6. CASE m.kind = "list"
    <2>1. s = m.beats \o sh /\ Rising(m.beats) BY <1>1, <1>6, MergedIs DEF MessagesOK
    <2>2. tb = "in" /\ \A i \in 1 .. Len(ch) : ch[i].kind = "list" => i = 1
        BY <1>1, <1>6 DEF OneList
    <2>3. ListComes(tb, ch) BY <1>1, <1>6 DEF ListComes
    <2>4. TwoRuns(sh, 0, ea) BY <1>3, <2>3
    <2>5. \A x \in ToSet(sh) : x \in ea \/ \A y \in ToSet(m.beats) : y < x
        <3>1. \A x \in ToSet(sh) : x \in Heard(ch, sh, 1) BY HeardIs
        <3>2. \A x \in Heard(ch, sh, 1) : x \in ea \/ \A y \in ToSet(m.beats) : y < x
            BY <1>1, <1>6 DEF ListsFit
        <3> QED BY <3>1, <3>2
    <2>6. TwoRuns(s, Len(m.beats), ea) BY <1>1, <2>1, <2>4, <2>5, ListBeforeRun
    <2>7. ~ListComes(tb, c)
        <3> SUFFICES ASSUME NEW k \in 1 .. Len(c), c[k].kind = "list" PROVE FALSE
            BY <2>2 DEF ListComes
        <3>1. k \in 1 .. Len(ch) - 1 BY <1>1
        <3>2. k + 1 = 1 BY <1>1, <2>2, <3>1
        <3>3. k \in Nat /\ k >= 1 BY <1>1, <3>1
        <3> QED BY <3>2, <3>3
    <2>8. Len(m.beats) \in Nat BY <1>1, TailIs, JoinIs
    <2> QED BY <2>6, <2>7, <2>8 DEF ShowsRuns
<1> QED BY <1>1, <1>4, <1>5, <1>6

(* A recent beat that would be shown is shown still: the list is not cut   *)
(* but where it holds newer ones enough.                                   *)
LEMMA ReceiptKeepsArrival ==
    ASSUME NEW e \in Nat, NEW tb, NEW ch \in Seq(Message), ch # <<>>,
           NEW sh \in Seq(Nat), NEW ea, IsFiniteSet(ea),
           MessagesOK(e, ch, sh), ShowsRuns(tb, ch, sh, ea),
           NEW b \in Nat, b > e - (Full - 1 - Cardinality(ea)), WillShow(b, ch, sh)
    PROVE  WillShow(b, Tail(ch), Merged(ch[1], sh))
<1> DEFINE c == Tail(ch)
           n == Len(ch)
           m == ch[1]
           s == Merged(m, sh)
<1>1. /\ n \in Nat /\ n >= 1 /\ 1 \in 1 .. n /\ m \in Message /\ m.beats \in Seq(Nat)
      /\ m.kind \in {"beat", "list", "overwrite"} /\ Len(c) = n - 1
      /\ \A i \in 1 .. n - 1 : i + 1 \in 1 .. n /\ c[i] = ch[i + 1]
    BY FirstMessage
<1>2. PICK r \in Nat : TwoRuns(sh, r, ea) BY DEF ShowsRuns
<1>3. Full \in Nat /\ Cardinality(ea) \in Nat BY LimitsAssumption, FS_CardinalityType
<1>4. ASSUME b \in ToSet(m.beats) \/ (b \in ToSet(sh) /\ m.kind # "overwrite")
      PROVE  b \in ToSet(s)
    <2>1. CASE m.kind = "overwrite" BY <1>1, <1>4, <2>1, MergedIs
    <2>2. CASE m.kind = "list"
        <3>1. s = m.beats \o sh BY <1>1, <2>2, MergedIs
        <3> QED BY <1>1, <1>4, <3>1, TokensOfJoin
    <2>3. CASE m.kind = "beat"
        <3> DEFINE l == sh \o m.beats
        <3>1. l \in Seq(Nat) /\ l # <<>> /\ UpTo(l, e) /\ TwoRuns(l, r, ea)
            BY <1>2, <2>3, LongerIs
        <3>2. b \in ToSet(l) BY <1>1, <1>4, TokensOfJoin
        <3>3. s = IF Len(l) >= Full THEN Tail(l) ELSE l BY <1>1, <2>3, MergedIs
        <3>4. Len(l) - 1 <= (e - l[1]) + Cardinality(ea)
            <4> HIDE DEF l
            <4> QED BY <1>2, <3>1, RunsAreShort
        <3>5. CASE Len(l) >= Full
            <4> HIDE DEF l, s
            <4>1. PICK k \in Nat : k = Len(l) BY <3>1, TailIs
            <4>2. PICK f \in Nat : f = l[1] BY <3>1, TailIs
            <4>3. PICK u \in Nat : u = Cardinality(ea) BY <1>3
            <4>4. k - 1 <= (e - f) + u /\ k >= Full /\ b > e - (Full - 1 - u)
                BY <3>4, <3>5, <4>1, <4>2, <4>3
            <4>5. b > f BY <1>3, <4>4
            <4>6. b # l[1] BY <4>2, <4>5
            <4>7. b \in ToSet(Tail(l)) BY <3>1, <3>2, <4>6, TokensOfTail
            <4> QED BY <3>3, <3>5, <4>7
        <3>6. CASE ~(Len(l) >= Full) BY <3>2, <3>3, <3>6
        <3> QED BY <3>5, <3>6
    <2> QED BY <1>1, <2>1, <2>2, <2>3
<1> HIDE DEF c, n, m, s
<1>5. ASSUME NEW k \in 1 .. n, Safe(ch, k) PROVE Safe(c, k - 1)
    <2> SUFFICES ASSUME NEW j \in (k - 1) + 1 .. n - 1 PROVE c[j].kind # "overwrite"
        BY <1>1 DEF Safe
    <2>1. j \in 1 .. n - 1 /\ j + 1 \in k + 1 .. n BY <1>1
    <2> QED BY <1>1, <1>5, <2>1 DEF Safe, n
<1>6. Safe(ch, 0) => Safe(ch, 1) /\ m.kind # "overwrite"
    <2> HAVE Safe(ch, 0)
    <2>1. 1 \in 0 + 1 .. n /\ \A j \in 1 + 1 .. n : j \in 0 + 1 .. n BY <1>1
    <2> QED BY <2>1 DEF Safe, n, m
<1>7. CASE b \in ToSet(sh) /\ Safe(ch, 0)
    <2>1. b \in ToSet(s) BY <1>4, <1>6, <1>7
    <2>2. Safe(c, 0) BY <1>1, <1>5, <1>6, <1>7
    <2>3. WillShow(b, c, s) BY <2>1, <2>2 DEF WillShow
    <2> QED BY <2>3 DEF c, s, m
<1>8. ASSUME NEW k \in 1 .. n, b \in ToSet(ch[k].beats), Safe(ch, k)
      PROVE  WillShow(b, c, s)
    <2>1. Safe(c, k - 1) BY <1>5, <1>8
    <2>2. CASE k = 1
        <3>1. b \in ToSet(s) BY <1>4, <1>8, <2>2 DEF m
        <3>2. k - 1 = 0 BY <2>2
        <3>3. Safe(c, 0) BY <2>1, <3>2
        <3> QED BY <3>1, <3>3 DEF WillShow
    <2>3. CASE k # 1
        <3>1. k - 1 \in 1 .. n - 1 /\ (k - 1) + 1 = k BY <1>1, <2>3
        <3>2. c[k - 1] = ch[k] BY <1>1, <3>1
        <3> QED BY <1>1, <1>8, <2>1, <3>1, <3>2 DEF WillShow
    <2> QED BY <2>2, <2>3
<1>9. CASE \E k \in 1 .. n : b \in ToSet(ch[k].beats) /\ Safe(ch, k)
    <2>1. WillShow(b, c, s) BY <1>8, <1>9
    <2> QED BY <2>1 DEF c, s, m
<1> QED BY <1>7, <1>9 DEF WillShow, n

LEMMA NothingIsFine ==
    ASSUME NEW e \in Nat, NEW tb, NEW ans, NEW si, NEW ea
    PROVE  /\ MessagesOK(e, <<>>, <<>>) /\ OneList(tb, <<>>)
           /\ ListsFit(tb, ans, <<>>, <<>>, si, ea) /\ ShowsRuns(tb, <<>>, <<>>, ea)
           /\ ToSet(<<>>) = {}
<1>1. <<>> \in Seq(Nat) /\ Len(<<>>) = 0 /\ 1 .. 0 = {} OBVIOUS
<1>2. ToSet(<<>>) = {}
    <2>1. \A x : x \in ToSet(<<>>) <=> \E i \in 1 .. 0 : <<>>[i] = x BY <1>1, TokensAre
    <2> QED BY <1>1, <2>1
<1>3. \A x : x \notin Heard(<<>>, <<>>, Len(<<>>) + 1)
    <2>1. 1 .. (Len(<<>>) + 1) - 1 = {} BY <1>1
    <2> QED BY <1>2, <2>1, HeardIs
<1>4. MessagesOK(e, <<>>, <<>>) BY <1>1 DEF MessagesOK, UpTo
<1>5. OneList(tb, <<>>) BY <1>1 DEF OneList
<1>6. ListsFit(tb, ans, <<>>, <<>>, si, ea) BY <1>1, <1>3 DEF ListsFit
<1>7. ShowsRuns(tb, <<>>, <<>>, ea)
    <2>1. TwoRuns(<<>>, 0, ea) BY <1>1 DEF TwoRuns
    <2> QED BY <2>1 DEF ShowsRuns
<1> QED BY <1>2, <1>4, <1>5, <1>6, <1>7

LEMMA UpToMore ==
    ASSUME NEW s \in Seq(Nat), NEW e \in Nat, NEW f \in Nat, e <= f, UpTo(s, e)
    PROVE  UpTo(s, f)
<1>1. \A i \in 1 .. Len(s) : s[i] \in Nat BY ElementsAre
<1> QED BY <1>1 DEF UpTo

LEMMA SentIsMessage ==
    ASSUME NEW b \in Nat, NEW bs \in Seq(Nat)
    PROVE  /\ Live(b) \in Message /\ Live(b).kind = "beat" /\ Live(b).beats = <<b>>
           /\ Len(<<b>>) = 1 /\ <<b>>[1] = b /\ ToSet(<<b>>) = {b} /\ Rising(<<b>>)
           /\ \A e \in Nat : b <= e => UpTo(<<b>>, e)
           /\ History(bs) \in Message /\ History(bs).kind = "list" /\ History(bs).beats = bs
           /\ Replaced(bs) \in Message /\ Replaced(bs).kind = "overwrite"
           /\ Replaced(bs).beats = bs
<1>1. <<b>> \in Seq(Nat) /\ Len(<<b>>) = 1 /\ <<b>>[1] = b OBVIOUS
<1>2. ToSet(<<b>>) = {b} BY <1>1, TokensOfOne
<1>3. Rising(<<b>>) /\ \A e \in Nat : b <= e => UpTo(<<b>>, e) BY <1>1 DEF Rising, UpTo
<1>4. Live(b) \in Message /\ Live(b).kind = "beat" /\ Live(b).beats = <<b>>
    BY <1>1 DEF Live, Message
<1>5. History(bs) \in Message /\ History(bs).kind = "list" /\ History(bs).beats = bs
    BY DEF History, Message
<1>6. Replaced(bs) \in Message /\ Replaced(bs).kind = "overwrite" /\ Replaced(bs).beats = bs
    BY DEF Replaced, Message
<1> QED BY <1>1, <1>2, <1>3, <1>4, <1>5, <1>6

LEMMA EarlyIsFinite ==
    ASSUME RowsInv, NEW t, OnceInv(t)
    PROVE  IsFiniteSet(early[t]) /\ Cardinality(early[t]) \in Nat /\ Full \in Nat
<1>1. emitted \in Int /\ 0 \in Int BY DEF RowsInv
<1>2. IsFiniteSet(0 .. emitted) BY <1>1, FS_Interval
<1>3. early[t] \in SUBSET (0 .. emitted) BY DEF OnceInv
<1>4. IsFiniteSet(early[t]) BY <1>2, <1>3, FS_Subset
<1> QED BY <1>4, FS_CardinalityType, LimitsAssumption

(* What is true of a tab that a step leaves alone.                         *)
LEMMA SameTab ==
    ASSUME NEW t, Gone(t), OnceInv(t), MissedInv(t), emitted' = emitted, flying' => flying,
           ToSet(Newest(beatRows'))  \subseteq ToSet(Newest(beatRows)),
           tab'[t] = tab[t], answer'[t] = answer[t], channel'[t] = channel[t],
           shown'[t] = shown[t], since'[t] = since[t], unheard'[t] = unheard[t],
           early'[t] = early[t]
    PROVE  Gone(t)' /\ OnceInv(t)' /\ MissedInv(t)'
<1>1. Gone(t)' BY DEF Gone, InRoom
<1>2. OnceInv(t)' BY DEF OnceInv, InRoom
<1>3. \A b : Known(t, b)' <=> Known(t, b) BY DEF Known
<1>4. Recent(t)' = Recent(t) BY DEF Recent, Emitted
<1>5. InRoom(t)' <=> InRoom(t) BY DEF InRoom
<1>6. MissedInv(t)' BY <1>3, <1>4, <1>5 DEF MissedInv
<1> QED BY <1>1, <1>2, <1>6

LEMMA TabInvInit == BeatsInit => TabInv
<1> SUFFICES ASSUME BeatsInit PROVE TabInv OBVIOUS
<1>1. <<>> \in Seq(Nat) /\ Len(<<>>) = 0 /\ <<>> \in Seq(Message) OBVIOUS
<1>2. Rising(<<>>) /\ UpTo(<<>>, 0) BY <1>1 DEF Rising, UpTo
<1>3. RowsInv BY <1>1, <1>2 DEF BeatsInit, RowsInv
<1>4. TabTypes BY <1>1 DEF BeatsInit, TabTypes
<1>5. \A t \in Tabs : Gone(t) /\ OnceInv(t) /\ MissedInv(t)
    BY <1>2 DEF BeatsInit, Gone, OnceInv, MissedInv, InRoom
<1> QED BY <1>3, <1>4, <1>5 DEF TabInv

(* The rows.                                                               *)
LEMMA RowsKept ==
    ASSUME TabInv, [BeatsNext]_beatsVars
    PROVE  RowsInv'
<1> USE DEF TabInv
<1>0. RowsInv /\ emitted \in Nat /\ beatRows \in Seq(Nat) /\ clearAnswer \in Seq(Nat)
    BY DEF RowsInv
<1>1. <<>> \in Seq(Nat) /\ Rising(<<>>) /\ UpTo(<<>>, emitted) /\ Len(<<>>) = 0
    BY DEF Rising, UpTo
<1>2. CASE BeatEmitted
    <2>1. emitted' = emitted + 1 /\ flying' = TRUE /\ UNCHANGED <<beatRows, clearAnswer>>
        BY <1>2 DEF BeatEmitted
    <2>2. emitted + 1 \in Nat /\ emitted <= emitted + 1 BY <1>0
    <2>3. UpTo(beatRows, emitted + 1) /\ UpTo(clearAnswer, emitted + 1)
        BY <1>0, <2>2, UpToMore DEF RowsInv
    <2>4. \A i \in 1 .. Len(beatRows) : beatRows[i] < emitted + 1
        <3>1. \A i \in 1 .. Len(beatRows) : beatRows[i] \in Nat BY <1>0, ElementsAre
        <3> QED BY <1>0, <3>1 DEF RowsInv, UpTo
    <2> QED BY <1>0, <2>1, <2>2, <2>3, <2>4 DEF RowsInv
<1>3. CASE BeatStored
    <2>1. flying /\ ~flying' /\ beatRows' = Append(beatRows, emitted) /\ flying' \in BOOLEAN
          /\ UNCHANGED <<emitted, clearAnswer>>
        BY <1>3 DEF BeatStored
    <2> DEFINE r == Append(beatRows, emitted)
               n == Len(beatRows)
    <2>2. /\ r \in Seq(Nat) /\ n \in Nat /\ Len(r) = n + 1 /\ r[n + 1] = emitted
          /\ \A i \in 1 .. n : r[i] = beatRows[i]
        BY <1>0, AppendIs
    <2>3. /\ \A i \in 1 .. n : beatRows[i] < emitted
          /\ \A i, j \in 1 .. n : i < j => beatRows[i] < beatRows[j]
        BY <1>0, <2>1 DEF RowsInv, Rising
    <2> HIDE DEF r, n
    <2>4. \A i \in 1 .. n + 1 : i \in 1 .. n \/ i = n + 1 BY <2>2
    <2>5. Rising(r)
        <3> SUFFICES ASSUME NEW i \in 1 .. n + 1, NEW j \in 1 .. n + 1, i < j
                     PROVE  r[i] < r[j]
            BY <2>2 DEF Rising
        <3>1. i \in 1 .. n /\ r[i] = beatRows[i] BY <2>2
        <3>2. CASE j = n + 1
            <4>1. r[j] = emitted BY <2>2, <3>2
            <4> QED BY <2>3, <3>1, <4>1
        <3>3. CASE j \in 1 .. n
            <4>1. r[j] = beatRows[j] BY <2>2, <3>3
            <4> QED BY <2>3, <3>1, <3>3, <4>1
        <3> QED BY <2>4, <3>2, <3>3
    <2>6. UpTo(r, emitted)
        <3> SUFFICES ASSUME NEW i \in 1 .. n + 1 PROVE r[i] <= emitted
            BY <2>2 DEF UpTo
        <3>1. CASE i = n + 1 BY <1>0, <2>2, <3>1
        <3>2. CASE i \in 1 .. n
            <4>1. r[i] = beatRows[i] /\ beatRows[i] < emitted /\ beatRows[i] \in Nat
                BY <1>0, <2>2, <2>3, <3>2, ElementsAre DEF n
            <4> QED BY <1>0, <4>1
        <3> QED BY <2>4, <3>1, <3>2
    <2>7. beatRows' = r BY <2>1 DEF r
    <2> QED BY <1>0, <2>1, <2>2, <2>5, <2>6, <2>7 DEF RowsInv
<1>4. CASE RestRead
    <2>1. clearAnswer' = Newest(beatRows) /\ UNCHANGED <<emitted, flying, beatRows>>
        BY <1>4 DEF RestRead
    <2>2. Newest(beatRows) \in Seq(Nat) /\ Rising(Newest(beatRows))
          /\ UpTo(Newest(beatRows), emitted)
        BY <1>0, NewestIs DEF RowsInv
    <2> QED BY <1>0, <2>1, <2>2 DEF RowsInv
<1>5. CASE /\ emitted' = emitted /\ (flying' = flying \/ flying' = FALSE)
           /\ beatRows' = beatRows \/ beatRows' = <<>>
           /\ clearAnswer' = clearAnswer \/ clearAnswer' = <<>>
    <2>1. emitted' \in Nat /\ flying' \in BOOLEAN BY <1>0, <1>5 DEF RowsInv
    <2>2. /\ beatRows' \in Seq(Nat) /\ Rising(beatRows') /\ UpTo(beatRows', emitted')
          /\ flying' => \A i \in 1 .. Len(beatRows') : beatRows'[i] < emitted'
        <3>1. CASE beatRows' = beatRows BY <1>0, <1>5, <3>1 DEF RowsInv
        <3>2. CASE beatRows' = <<>>
            <4>1. 1 .. Len(beatRows') = {} BY <1>1, <3>2
            <4>2. UpTo(beatRows', emitted') BY <4>1 DEF UpTo
            <4> QED BY <1>1, <3>2, <4>1, <4>2
        <3> QED BY <1>5, <3>1, <3>2
    <2>3. clearAnswer' \in Seq(Nat) /\ Rising(clearAnswer') /\ UpTo(clearAnswer', emitted')
        <3>1. CASE clearAnswer' = clearAnswer BY <1>0, <1>5, <3>1 DEF RowsInv
        <3>2. CASE clearAnswer' = <<>> BY <1>1, <1>5, <3>2
        <3> QED BY <1>5, <3>1, <3>2
    <2> QED BY <2>1, <2>2, <2>3 DEF RowsInv
<1>6. \/ BeatEmitted \/ BeatStored \/ RestRead
      \/ /\ emitted' = emitted /\ (flying' = flying \/ flying' = FALSE)
         /\ beatRows' = beatRows \/ beatRows' = <<>>
         /\ clearAnswer' = clearAnswer \/ clearAnswer' = <<>>
    BY DEF BeatsNext, beatsVars, BeatRefused, Connects, Joins, HistoryRead, HistorySent,
       Disconnects, Receives, BeatsDeleted, RestSent, ClearFails, BeatsCrash
<1> QED BY <1>2, <1>3, <1>4, <1>5, <1>6

-----------------------------------------------------------------------------
TabKnows(t) == Gone(t) /\ OnceInv(t) /\ MissedInv(t)

LEMMA EmittedKeeps ==
    ASSUME TabInv, BeatEmitted
    PROVE  TabTypes' /\ \A t \in Tabs : TabKnows(t)'
<1> USE DEF TabInv
<1>0. RowsInv /\ TabTypes /\ emitted \in Nat BY DEF RowsInv
<1> DEFINE e == emitted + 1
           m == Live(e)
<1>1. /\ emitted' = e /\ channel' = [t \in Tabs |-> IF InRoom(t) THEN Append(channel[t], m)
                                                    ELSE channel[t]]
      /\ UNCHANGED <<beatRows, tab, answer, shown, since, unheard, early>>
    BY DEF BeatEmitted, ToRoom
<1>2. /\ e \in Nat /\ emitted < e /\ emitted <= e BY <1>0
<1>3. /\ m \in Message /\ m.kind = "beat" /\ m.beats = <<e>> /\ Len(m.beats) = 1
      /\ m.beats[1] = e /\ ToSet(m.beats) = {e} /\ Rising(m.beats) /\ UpTo(m.beats, e)
    <2> HIDE DEF e
    <2>1. <<>> \in Seq(Nat) OBVIOUS
    <2>2. /\ Live(e) \in Message /\ Live(e).kind = "beat" /\ Live(e).beats = <<e>>
          /\ Len(<<e>>) = 1 /\ <<e>>[1] = e /\ ToSet(<<e>>) = {e} /\ Rising(<<e>>)
        BY <1>2, <2>1, SentIsMessage
    <2>3. e <= e BY <1>2
    <2>4. UpTo(<<e>>, e) BY <1>2, <2>1, <2>3, SentIsMessage
    <2>5. m = Live(e) OBVIOUS
    <2> HIDE DEF m
    <2> QED BY <2>2, <2>4, <2>5, Zenon
<1> HIDE DEF m
<1>4. TabTypes'
    <2>1. \A t \in Tabs : Append(channel[t], m) \in Seq(Message)
        BY <1>0, <1>3, SentIs DEF TabTypes
    <2>2. channel' \in [Tabs -> Seq(Message)] BY <1>0, <1>1, <2>1 DEF TabTypes
    <2> QED BY <1>0, <1>1, <2>2 DEF TabTypes
<1>5. ASSUME NEW t \in Tabs PROVE TabKnows(t)'
    <2>0. /\ Gone(t) /\ OnceInv(t) /\ MissedInv(t) /\ channel[t] \in Seq(Message)
          /\ shown[t] \in Seq(Nat) /\ answer[t] \in Seq(Nat) /\ since[t] \in Nat
        BY <1>0 DEF TabTypes
    <2>1. InRoom(t)' <=> InRoom(t) BY <1>1 DEF InRoom
    <2>2. channel'[t] = IF InRoom(t) THEN Append(channel[t], m) ELSE channel[t] BY <1>1
    <2>3. Gone(t)' BY <1>1, <2>0, <2>1, <2>2 DEF Gone
    <2>4. /\ since'[t] <= emitted' /\ early'[t] \subseteq 0 .. emitted'
          /\ Rising(answer'[t]) /\ UpTo(answer'[t], emitted')
        <3>1. since[t] <= emitted /\ early[t] \subseteq 0 .. emitted BY <2>0 DEF OnceInv
        <3>2. 0 .. emitted \subseteq 0 .. e BY <1>0
        <3>3. since[t] <= e BY <1>0, <2>0, <3>1
        <3>4. UpTo(answer[t], e) BY <1>0, <1>2, <2>0, UpToMore DEF OnceInv
        <3> HIDE DEF e
        <3> QED BY <1>1, <2>0, <3>1, <3>2, <3>3, <3>4 DEF OnceInv
    <2>5. ASSUME InRoom(t)
          PROVE  /\ MessagesOK(e, Append(channel[t], m), shown[t])
                 /\ OneList(tab[t], Append(channel[t], m))
                 /\ ListsFit(tab[t], answer[t], Append(channel[t], m), shown[t], since[t],
                             early[t])
                 /\ ShowsRuns(tab[t], Append(channel[t], m), shown[t], early[t])
        <3>0. /\ MessagesOK(emitted, channel[t], shown[t]) /\ OneList(tab[t], channel[t])
              /\ ListsFit(tab[t], answer[t], channel[t], shown[t], since[t], early[t])
              /\ ShowsRuns(tab[t], channel[t], shown[t], early[t])
            BY <2>0, <2>5 DEF OnceInv
        <3>1. \A x \in ToSet(m.beats) : x > since[t] /\ \A y \in ToSet(answer[t]) : y < x
            <4>1. since[t] < e BY <1>0, <2>0 DEF OnceInv
            <4>2. \A y \in ToSet(answer[t]) : y \in Nat /\ y <= emitted
                BY <1>0, <2>0, TokensAreUpTo DEF OnceInv
            <4>3. \A y \in ToSet(answer[t]) : y < e BY <1>0, <4>2
            <4> HIDE DEF e
            <4> QED BY <1>3, <4>1, <4>3
        <3> HIDE DEF e
        <3>2. MessagesOK(e, Append(channel[t], m), shown[t])
            BY <1>0, <1>2, <1>3, <2>0, <3>0, SendKeepsMessages
        <3>3. m.kind # "list" BY <1>3
        <3>4. /\ OneList(tab[t], Append(channel[t], m))
              /\ ListComes(tab[t], Append(channel[t], m)) <=> ListComes(tab[t], channel[t])
            BY <1>3, <2>0, <3>0, <3>3, SendKeepsOneList
        <3>5. ListsFit(tab[t], answer[t], Append(channel[t], m), shown[t], since[t], early[t])
            BY <1>3, <2>0, <3>0, <3>1, <3>3, SendKeepsFit
        <3>6. ShowsRuns(tab[t], Append(channel[t], m), shown[t], early[t])
            BY <3>0, <3>4 DEF ShowsRuns
        <3> QED BY <3>2, <3>4, <3>5, <3>6
    <2>6. OnceInv(t)'
        <3> HIDE DEF e
        <3> QED BY <1>1, <2>1, <2>2, <2>4, <2>5 DEF OnceInv
    <2>7. MissedInv(t)'
        <3> SUFFICES ASSUME InRoom(t)
                     PROVE  /\ since'[t] # emitted'
                            /\ \A b \in Recent(t)' : b > since'[t] \/
                                  (tab'[t] # "joined" /\ b \in ToSet(Newest(beatRows')))
                                      => Known(t, b)'
            BY <2>1 DEF MissedInv
        <3>1. since'[t] # emitted' BY <1>0, <1>1, <2>0 DEF OnceInv
        <3>2. \A b : Known(t, b)' <=>
                  \/ b \in unheard[t] \/ b \in ToSet(answer[t])
                  \/ WillShow(b, Append(channel[t], m), shown[t])
            BY <1>1, <2>2 DEF Known
        <3>3. ASSUME NEW b \in Recent(t)', b # e PROVE b \in Recent(t)
            <4>1. Cardinality(early[t]) \in Nat /\ Full \in Nat BY <1>0, <2>0, EarlyIsFinite
            <4>2. b \in 1 .. e /\ b > e - (Full - 1 - Cardinality(early[t]))
                BY <1>1 DEF Recent, Emitted
            <4>3. PICK u \in Nat : u = Cardinality(early[t]) BY <4>1
            <4>4. b \in 1 .. emitted /\ b > emitted - (Full - 1 - u)
                BY <1>0, <3>3, <4>1, <4>2, <4>3
            <4> QED BY <4>3, <4>4 DEF Recent, Emitted
        <3>4. ASSUME NEW b \in Recent(t)', b > since[t] \/
                         (tab[t] # "joined" /\ b \in ToSet(Newest(beatRows)))
              PROVE  Known(t, b)'
            <4>1. CASE b = e
                <5>1. b \in ToSet(m.beats) BY <1>3, <4>1
                <5>2. WillShow(b, Append(channel[t], m), shown[t])
                    BY <1>3, <2>0, <5>1, SendKeepsArrival
                <5> QED BY <3>2, <5>2
            <4>2. CASE b # e
                <5>1. Known(t, b) BY <2>0, <3>3, <3>4, <4>2 DEF MissedInv
                <5>2. m.kind # "overwrite" BY <1>3
                <5>3. WillShow(b, channel[t], shown[t]) =>
                          WillShow(b, Append(channel[t], m), shown[t])
                    BY <1>3, <2>0, <5>2, SendKeepsArrival
                <5> QED BY <3>2, <5>1, <5>3 DEF Known
            <4> QED BY <4>1, <4>2
        <3> HIDE DEF e
        <3> QED BY <1>1, <3>1, <3>4
    <2> QED BY <2>3, <2>6, <2>7 DEF TabKnows
<1> QED BY <1>4, <1>5

LEMMA StoredKeeps ==
    ASSUME TabInv, BeatStored
    PROVE  TabTypes' /\ \A t \in Tabs : TabKnows(t)'
<1> USE DEF TabInv
<1>0. RowsInv /\ TabTypes /\ emitted \in Nat /\ beatRows \in Seq(Nat) BY DEF RowsInv
<1>1. /\ flying /\ flying' = FALSE /\ beatRows' = Append(beatRows, emitted)
      /\ UNCHANGED <<emitted, tab, answer, channel, shown, since, unheard, early>>
    BY DEF BeatStored
<1>2. TabTypes' BY <1>0, <1>1 DEF TabTypes
<1>3. ASSUME NEW t \in Tabs PROVE TabKnows(t)'
    <2>0. Gone(t) /\ OnceInv(t) /\ MissedInv(t) /\ since[t] \in Nat /\ since[t] <= emitted
        BY <1>0 DEF TabTypes, OnceInv
    <2>1. Gone(t)' BY <1>1, <2>0 DEF Gone, InRoom
    <2>2. OnceInv(t)' BY <1>1, <2>0 DEF OnceInv, InRoom
    <2>3. \A b : Known(t, b)' <=> Known(t, b) BY <1>1 DEF Known
    <2>4. Recent(t)' = Recent(t) BY <1>1 DEF Recent, Emitted
    <2>5. ASSUME InRoom(t), NEW b \in Recent(t),
                 b > since[t] \/ (tab[t] # "joined" /\ b \in ToSet(Newest(beatRows')))
          PROVE  Known(t, b)
        <3>1. CASE b > since[t] BY <2>0, <2>5, <3>1 DEF MissedInv
        <3>2. CASE tab[t] # "joined" /\ b \in ToSet(Newest(beatRows))
            BY <2>0, <2>5, <3>2 DEF MissedInv
        <3>3. CASE b = emitted /\ since[t] = emitted
            BY <1>1, <2>0, <2>5, <3>3 DEF MissedInv, Known
        <3>4. b \in ToSet(Newest(beatRows')) => b \in ToSet(Newest(beatRows)) \/ b = emitted
            BY <1>0, <1>1, NewestGrows
        <3>5. b = emitted => b > since[t] \/ since[t] = emitted BY <1>0, <2>0
        <3> QED BY <2>5, <3>1, <3>2, <3>3, <3>4, <3>5
    <2>6. InRoom(t)' <=> InRoom(t) BY <1>1 DEF InRoom
    <2>7. MissedInv(t)' BY <1>1, <2>3, <2>4, <2>5, <2>6 DEF MissedInv
    <2> QED BY <2>1, <2>2, <2>7 DEF TabKnows
<1> QED BY <1>2, <1>3

(* Steps that no tab sees.                                                 *)
LEMMA QuietKeeps ==
    ASSUME TabInv, BeatRefused \/ BeatsDeleted \/ RestRead \/ ClearFails \/ UNCHANGED beatsVars
    PROVE  TabTypes' /\ \A t \in Tabs : TabKnows(t)'
<1> USE DEF TabInv
<1>0. RowsInv /\ TabTypes /\ emitted \in Nat /\ beatRows \in Seq(Nat) BY DEF RowsInv
<1>1. /\ flying' => flying
      /\ beatRows' = beatRows \/ beatRows' = <<>>
      /\ UNCHANGED <<emitted, tab, answer, channel, shown, since, unheard, early>>
    BY DEF BeatRefused, BeatsDeleted, RestRead, ClearFails, beatsVars
<1>2. TabTypes' BY <1>0, <1>1 DEF TabTypes
<1>3. ToSet(Newest(beatRows')) \subseteq ToSet(Newest(beatRows))
    <2>1. CASE beatRows' = beatRows BY <2>1
    <2>2. CASE beatRows' = <<>>
        <3>1. <<>> \in Seq(Nat) /\ 1 .. Len(<<>>) = {} OBVIOUS
        <3>2. \A x : x \notin ToSet(Newest(<<>>)) BY <3>1, NewestTokens
        <3> QED BY <2>2, <3>2
    <2> QED BY <1>1, <2>1, <2>2
<1>4. ASSUME NEW t \in Tabs PROVE TabKnows(t)'
    <2>1. Gone(t) /\ OnceInv(t) /\ MissedInv(t) OBVIOUS
    <2>2. Gone(t)' /\ OnceInv(t)' /\ MissedInv(t)' BY <1>1, <1>3, <2>1, SameTab
    <2> QED BY <2>2 DEF TabKnows
<1> QED BY <1>2, <1>4

(* A tab that is not in the room.                                          *)
LEMMA OutOfRoom ==
    ASSUME NEW t, ~InRoom(t)', channel'[t] = <<>>, early'[t] = {}, answer'[t] = <<>>,
           tab'[t] = "open" => shown'[t] = <<>>, since'[t] <= emitted'
    PROVE  TabKnows(t)'
<1>1. Gone(t)' BY DEF Gone
<1>2. Rising(<<>>) /\ UpTo(<<>>, emitted') BY DEF Rising, UpTo
<1>3. OnceInv(t)' BY <1>2 DEF OnceInv
<1>4. MissedInv(t)' BY DEF MissedInv
<1> QED BY <1>1, <1>3, <1>4 DEF TabKnows

LEMMA CrashKeeps ==
    ASSUME TabInv, BeatsCrash
    PROVE  TabTypes' /\ \A t \in Tabs : TabKnows(t)'
<1> USE DEF TabInv
<1>0. RowsInv /\ TabTypes /\ emitted \in Nat BY DEF RowsInv
<1>1. <<>> \in Seq(Nat) /\ <<>> \in Seq(Message) OBVIOUS
<1>2. /\ tab' = [t \in Tabs |-> "away"]
      /\ answer' = [t \in Tabs |-> <<>>] /\ channel' = [t \in Tabs |-> <<>>]
      /\ since' = [t \in Tabs |-> 0] /\ unheard' = [t \in Tabs |-> {}]
      /\ early' = [t \in Tabs |-> {}] /\ shown' = shown /\ emitted' = emitted
    BY DEF BeatsCrash
<1>3. TabTypes' BY <1>0, <1>1, <1>2 DEF TabTypes
<1>4. ASSUME NEW t \in Tabs PROVE TabKnows(t)'
    <2>1. /\ tab'[t] = "away" /\ channel'[t] = <<>> /\ early'[t] = {} /\ answer'[t] = <<>>
          /\ since'[t] = 0
        BY <1>2
    <2>2. since'[t] <= emitted' BY <1>0, <1>2, <2>1
    <2>3. ~InRoom(t)' BY <2>1 DEF InRoom
    <2> QED BY <2>1, <2>2, <2>3, OutOfRoom
<1> QED BY <1>3, <1>4

(* The other tabs of a step of one.                                        *)
LEMMA OthersKeep ==
    ASSUME TabInv, NEW t \in Tabs, UNCHANGED <<emitted, flying, beatRows>>,
           \A u \in Tabs : u # t =>
               /\ tab'[u] = tab[u] /\ answer'[u] = answer[u] /\ channel'[u] = channel[u]
               /\ shown'[u] = shown[u] /\ since'[u] = since[u] /\ unheard'[u] = unheard[u]
               /\ early'[u] = early[u],
           TabKnows(t)'
    PROVE  \A u \in Tabs : TabKnows(u)'
<1> SUFFICES ASSUME NEW u \in Tabs, u # t PROVE TabKnows(u)' OBVIOUS
<1>1. Gone(u) /\ OnceInv(u) /\ MissedInv(u) BY DEF TabInv
<1>2. Gone(u)' /\ OnceInv(u)' /\ MissedInv(u)' BY <1>1, SameTab
<1> QED BY <1>2 DEF TabKnows

LEMMA ComesAndGoesKeep ==
    ASSUME TabInv, NEW t \in Tabs, Connects(t) \/ Disconnects(t)
    PROVE  TabTypes' /\ \A u \in Tabs : TabKnows(u)'
<1> USE DEF TabInv
<1>0. RowsInv /\ TabTypes /\ emitted \in Nat /\ Gone(t) /\ OnceInv(t) BY DEF RowsInv
<1>1. <<>> \in Seq(Nat) /\ <<>> \in Seq(Message) /\ since[t] <= emitted
    BY <1>0 DEF OnceInv
<1>2. CASE Connects(t)
    <2>1. /\ tab[t] = "away" /\ tab' = [tab EXCEPT ![t] = "open"]
          /\ shown' = [shown EXCEPT ![t] = <<>>]
          /\ UNCHANGED <<emitted, flying, beatRows, answer, channel, since, unheard, early>>
        BY <1>2 DEF Connects
    <2>2. TabTypes' BY <1>0, <1>1, <2>1 DEF TabTypes
    <2>3. tab'[t] = "open" /\ shown'[t] = <<>> BY <1>0, <2>1 DEF TabTypes
    <2>4. ~InRoom(t) /\ ~InRoom(t)' BY <2>1, <2>3 DEF InRoom
    <2>5. channel[t] = <<>> /\ early[t] = {} /\ answer[t] = <<>> BY <1>0, <2>1, <2>4 DEF Gone
    <2>6. TabKnows(t)' BY <1>1, <2>1, <2>3, <2>4, <2>5, OutOfRoom
    <2>7. \A u \in Tabs : u # t => tab'[u] = tab[u] /\ shown'[u] = shown[u]
        BY <1>0, <2>1 DEF TabTypes
    <2> QED BY <2>1, <2>2, <2>6, <2>7, OthersKeep
<1>3. CASE Disconnects(t)
    <2>1. /\ tab' = [tab EXCEPT ![t] = "away"] /\ answer' = [answer EXCEPT ![t] = <<>>]
          /\ channel' = [channel EXCEPT ![t] = <<>>] /\ since' = [since EXCEPT ![t] = 0]
          /\ unheard' = [unheard EXCEPT ![t] = {}] /\ early' = [early EXCEPT ![t] = {}]
          /\ UNCHANGED <<emitted, flying, beatRows, shown>>
        BY <1>3 DEF Disconnects
    <2>2. TabTypes' BY <1>0, <1>1, <2>1 DEF TabTypes
    <2>3. /\ tab'[t] = "away" /\ answer'[t] = <<>> /\ channel'[t] = <<>> /\ since'[t] = 0
          /\ early'[t] = {}
        BY <1>0, <2>1 DEF TabTypes
    <2>4. ~InRoom(t)' /\ since'[t] <= emitted' BY <1>0, <2>1, <2>3 DEF InRoom
    <2>5. TabKnows(t)' BY <2>3, <2>4, OutOfRoom
    <2>6. \A u \in Tabs : u # t =>
              /\ tab'[u] = tab[u] /\ answer'[u] = answer[u] /\ channel'[u] = channel[u]
              /\ since'[u] = since[u] /\ unheard'[u] = unheard[u] /\ early'[u] = early[u]
        BY <1>0, <2>1 DEF TabTypes
    <2> QED BY <2>1, <2>2, <2>5, <2>6, OthersKeep
<1> QED BY <1>2, <1>3

LEMMA JoinsKeep ==
    ASSUME TabInv, NEW t \in Tabs, Joins(t)
    PROVE  TabTypes' /\ \A u \in Tabs : TabKnows(u)'
<1> USE DEF TabInv
<1>0. RowsInv /\ TabTypes /\ emitted \in Nat /\ Gone(t) /\ OnceInv(t) BY DEF RowsInv
<1>1. /\ tab[t] = "open" /\ tab' = [tab EXCEPT ![t] = "joined"]
      /\ since' = [since EXCEPT ![t] = emitted]
      /\ unheard' = [unheard EXCEPT ![t] = IF flying THEN {emitted} ELSE {}]
      /\ UNCHANGED <<emitted, flying, beatRows, answer, channel, shown, early>>
    BY DEF Joins
<1>2. TabTypes'
    <2>1. (IF flying THEN {emitted} ELSE {}) \in SUBSET Nat BY <1>0
    <2> QED BY <1>0, <1>1, <2>1 DEF TabTypes
<1>3. /\ tab'[t] = "joined" /\ since'[t] = emitted
      /\ unheard'[t] = IF flying THEN {emitted} ELSE {}
    BY <1>0, <1>1 DEF TabTypes
<1>4. channel[t] = <<>> /\ early[t] = {} /\ shown[t] = <<>> /\ answer[t] = <<>>
    BY <1>0, <1>1 DEF Gone, InRoom
<1>5. Gone(t)' BY <1>1, <1>3, <1>4 DEF Gone, InRoom
<1>6. OnceInv(t)'
    <2>1. MessagesOK(emitted, channel[t], shown[t]) BY <1>0, <1>4, NothingIsFine
    <2>2. OneList("joined", channel[t]) BY <1>0, <1>4, NothingIsFine
    <2>3. ListsFit("joined", answer[t], channel[t], shown[t], emitted, early[t])
        BY <1>0, <1>4, NothingIsFine
    <2>4. ShowsRuns("joined", channel[t], shown[t], early[t]) BY <1>0, <1>4, NothingIsFine
    <2>5. emitted <= emitted /\ early[t] \subseteq 0 .. emitted BY <1>0, <1>4
    <2> QED BY <1>0, <1>1, <1>3, <2>1, <2>2, <2>3, <2>4, <2>5 DEF OnceInv
<1>7. MissedInv(t)'
    <2>1. \A b \in Recent(t)' : ~(b > emitted) BY <1>0, <1>1 DEF Recent, Emitted
    <2> QED BY <1>1, <1>3, <2>1 DEF MissedInv
<1>8. TabKnows(t)' BY <1>5, <1>6, <1>7 DEF TabKnows
<1>9. \A u \in Tabs : u # t =>
          tab'[u] = tab[u] /\ since'[u] = since[u] /\ unheard'[u] = unheard[u]
    BY <1>0, <1>1 DEF TabTypes
<1> QED BY <1>1, <1>2, <1>8, <1>9, OthersKeep

LEMMA RunsAllowMore ==
    ASSUME NEW s \in Seq(Nat), NEW n \in Nat, NEW E, NEW F, E \subseteq F, TwoRuns(s, n, E)
    PROVE  TwoRuns(s, n, F)
BY DEF TwoRuns

LEMMA ShowsAllowMore ==
    ASSUME NEW tb, NEW ch, NEW sh \in Seq(Nat), NEW E, NEW F, E \subseteq F,
           ShowsRuns(tb, ch, sh, E)
    PROVE  ShowsRuns(tb, ch, sh, F)
<1>1. PICK n \in Nat : TwoRuns(sh, n, E) /\ (ListComes(tb, ch) => n = 0) BY DEF ShowsRuns
<1>2. TwoRuns(sh, n, F) BY <1>1, RunsAllowMore
<1> QED BY <1>1, <1>2 DEF ShowsRuns

LEMMA RestSentKeeps ==
    ASSUME TabInv, RestSent
    PROVE  TabTypes' /\ \A t \in Tabs : TabKnows(t)'
<1> USE DEF TabInv
<1>0. RowsInv /\ TabTypes /\ emitted \in Nat /\ clearAnswer \in Seq(Nat)
      /\ Rising(clearAnswer) /\ UpTo(clearAnswer, emitted)
    BY DEF RowsInv
<1> DEFINE m == Replaced(clearAnswer)
           C == ToSet(clearAnswer)
<1>1. /\ channel' = [t \in Tabs |-> IF InRoom(t) THEN Append(channel[t], m) ELSE channel[t]]
      /\ unheard' = [t \in Tabs |-> IF InRoom(t) THEN unheard[t] \cup (Emitted \ C)
                                    ELSE unheard[t]]
      /\ early' = [t \in Tabs |-> IF tab[t] \in {"joined", "read"} THEN early[t] \cup C
                                  ELSE early[t]]
      /\ UNCHANGED <<emitted, flying, beatRows, tab, answer, shown, since>>
    BY DEF RestSent, ToRoom
<1>2. m \in Message /\ m.kind = "overwrite" /\ m.beats = clearAnswer
    BY <1>0, SentIsMessage
<1>3. C \subseteq Nat /\ C \subseteq 0 .. emitted
    <2>1. \A x \in C : x \in Nat /\ x <= emitted BY <1>0, TokensAreUpTo
    <2> HIDE DEF C
    <2> QED BY <1>0, <2>1
<1>4. C = ToSet(m.beats) BY <1>2
<1> HIDE DEF m, C
<1>5. TabTypes'
    <2>1. \A t \in Tabs : Append(channel[t], m) \in Seq(Message)
        BY <1>0, <1>2, SentIs DEF TabTypes
    <2>2. channel' \in [Tabs -> Seq(Message)] BY <1>0, <1>1, <2>1 DEF TabTypes
    <2>3. Emitted \subseteq Nat BY <1>0 DEF Emitted
    <2>4. \A t \in Tabs : /\ unheard[t] \cup (Emitted \ C) \in SUBSET Nat
                          /\ early[t] \cup C \in SUBSET Nat
        BY <1>0, <1>3, <2>3 DEF TabTypes
    <2>5. unheard' \in [Tabs -> SUBSET Nat] BY <1>0, <1>1, <2>4 DEF TabTypes
    <2>6. early' \in [Tabs -> SUBSET Nat] BY <1>0, <1>1, <2>4 DEF TabTypes
    <2> QED BY <1>0, <1>1, <2>2, <2>5, <2>6 DEF TabTypes
<1>6. ASSUME NEW t \in Tabs PROVE TabKnows(t)'
    <2>0. /\ Gone(t) /\ OnceInv(t) /\ MissedInv(t) /\ channel[t] \in Seq(Message)
          /\ shown[t] \in Seq(Nat) /\ answer[t] \in Seq(Nat)
        BY <1>0 DEF TabTypes
    <2>1. InRoom(t)' <=> InRoom(t) BY <1>1 DEF InRoom
    <2>2. /\ channel'[t] = IF InRoom(t) THEN Append(channel[t], m) ELSE channel[t]
          /\ unheard'[t] = IF InRoom(t) THEN unheard[t] \cup (Emitted \ C) ELSE unheard[t]
          /\ early'[t] = IF tab[t] \in {"joined", "read"} THEN early[t] \cup C ELSE early[t]
        BY <1>1
    <2>3. Gone(t)' BY <1>1, <2>0, <2>1, <2>2 DEF Gone, InRoom
    <2>4. /\ since'[t] <= emitted' /\ early'[t] \subseteq 0 .. emitted'
          /\ Rising(answer'[t]) /\ UpTo(answer'[t], emitted') /\ early[t] \subseteq early'[t]
        BY <1>1, <1>3, <2>0, <2>2 DEF OnceInv
    <2>5. ASSUME InRoom(t)
          PROVE  /\ MessagesOK(emitted, Append(channel[t], m), shown[t])
                 /\ OneList(tab[t], Append(channel[t], m))
                 /\ ListsFit(tab[t], answer[t], Append(channel[t], m), shown[t], since[t],
                             early'[t])
                 /\ ShowsRuns(tab[t], Append(channel[t], m), shown[t], early'[t])
        <3>0. /\ MessagesOK(emitted, channel[t], shown[t]) /\ OneList(tab[t], channel[t])
              /\ ListsFit(tab[t], answer[t], channel[t], shown[t], since[t], early[t])
              /\ ShowsRuns(tab[t], channel[t], shown[t], early[t])
            BY <2>0, <2>5 DEF OnceInv
        <3>1. m.kind # "list" /\ m.kind # "beat" /\ Rising(m.beats) /\ UpTo(m.beats, emitted)
            BY <1>0, <1>2
        <3>2. emitted <= emitted BY <1>0
        <3>3. MessagesOK(emitted, Append(channel[t], m), shown[t])
            BY <1>0, <1>2, <2>0, <3>0, <3>1, <3>2, SendKeepsMessages
        <3>4. /\ OneList(tab[t], Append(channel[t], m))
              /\ ListComes(tab[t], Append(channel[t], m)) <=> ListComes(tab[t], channel[t])
            BY <1>2, <2>0, <3>0, <3>1, SendKeepsOneList
        <3>5. /\ tab[t] = "joined" => \A x \in ToSet(m.beats) : x > since[t] \/ x \in early'[t]
              /\ tab[t] = "read" => \A x \in ToSet(m.beats) :
                    x \in early'[t] \/ \A y \in ToSet(answer[t]) : y < x
            BY <1>4, <2>2
        <3>6. PICK fa : fa = early'[t] OBVIOUS
        <3>7. ListsFit(tab[t], answer[t], Append(channel[t], m), shown[t], since[t], fa)
            <4>1. early[t] \subseteq fa BY <2>4, <3>6
            <4> QED BY <1>2, <2>0, <3>0, <3>1, <3>5, <3>6, <4>1, SendKeepsFit
        <3>8. ShowsRuns(tab[t], channel[t], shown[t], fa)
            <4>1. early[t] \subseteq fa BY <2>4, <3>6
            <4> QED BY <2>0, <3>0, <4>1, ShowsAllowMore
        <3>9. ShowsRuns(tab[t], Append(channel[t], m), shown[t], fa)
            BY <3>4, <3>8 DEF ShowsRuns
        <3> QED BY <3>3, <3>4, <3>6, <3>7, <3>9
    <2>6. OnceInv(t)' BY <1>1, <2>1, <2>2, <2>4, <2>5 DEF OnceInv
    <2>7. MissedInv(t)'
        <3> SUFFICES ASSUME InRoom(t)
                     PROVE  /\ flying /\ since[t] = emitted => emitted \in unheard'[t]
                            /\ \A b \in Recent(t)' : Known(t, b)'
            BY <1>1, <2>1 DEF MissedInv
        <3>1. flying /\ since[t] = emitted => emitted \in unheard'[t]
            BY <2>0, <2>2 DEF MissedInv
        <3>2. ASSUME NEW b \in Recent(t)' PROVE Known(t, b)'
            <4>1. b \in Emitted BY <1>1, <3>2 DEF Recent, Emitted
            <4>2. CASE b \in C
                <5>1. WillShow(b, Append(channel[t], m), shown[t])
                    BY <1>2, <1>4, <2>0, <4>2, SendKeepsArrival
                <5> QED BY <1>1, <2>2, <5>1 DEF Known
            <4>3. CASE b \notin C BY <2>2, <4>1, <4>3 DEF Known
            <4> QED BY <4>2, <4>3
        <3> QED BY <3>1, <3>2
    <2> QED BY <2>3, <2>6, <2>7 DEF TabKnows
<1> QED BY <1>5, <1>6

LEMMA ReadKeeps ==
    ASSUME TabInv, NEW t \in Tabs, HistoryRead(t)
    PROVE  TabTypes' /\ \A u \in Tabs : TabKnows(u)'
<1> USE DEF TabInv
<1>0. /\ RowsInv /\ TabTypes /\ emitted \in Nat /\ beatRows \in Seq(Nat)
      /\ Gone(t) /\ OnceInv(t) /\ MissedInv(t)
    BY DEF RowsInv
<1> DEFINE ans == Newest(beatRows)
           since1 == since[t] + 1 .. emitted
<1>1. /\ tab[t] = "joined" /\ tab' = [tab EXCEPT ![t] = "read"]
      /\ answer' = [answer EXCEPT ![t] = ans]
      /\ early' = [early EXCEPT ![t] = @ \cup since1]
      /\ UNCHANGED <<emitted, flying, beatRows, channel, shown, since, unheard>>
    BY DEF HistoryRead
<1>2. ans \in Seq(Nat) /\ Rising(ans) /\ UpTo(ans, emitted) BY <1>0, NewestIs DEF RowsInv
<1>3. since1 \in SUBSET Nat /\ since1 \subseteq 0 .. emitted BY <1>0 DEF TabTypes
<1>4. \A x \in Nat : x > since[t] /\ x <= emitted => x \in since1 BY <1>0 DEF TabTypes
<1> HIDE DEF ans, since1
<1>5. TabTypes'
    <2>1. early[t] \cup since1 \in SUBSET Nat BY <1>0, <1>3 DEF TabTypes
    <2>2. early' \in [Tabs -> SUBSET Nat] BY <1>0, <1>1, <2>1 DEF TabTypes
    <2> QED BY <1>0, <1>1, <1>2, <2>2 DEF TabTypes
<1>6. tab'[t] = "read" /\ answer'[t] = ans /\ early'[t] = early[t] \cup since1
    BY <1>0, <1>1 DEF TabTypes
<1>7. channel[t] \in Seq(Message) /\ shown[t] \in Seq(Nat) /\ answer[t] = <<>>
    BY <1>0, <1>1 DEF TabTypes, Gone
<1>8. /\ MessagesOK(emitted, channel[t], shown[t]) /\ OneList("joined", channel[t])
      /\ ListsFit("joined", answer[t], channel[t], shown[t], since[t], early[t])
      /\ ShowsRuns("joined", channel[t], shown[t], early[t])
    BY <1>0, <1>1 DEF OnceInv, InRoom
<1>9. Gone(t)' BY <1>6 DEF Gone, InRoom
<1>10. OnceInv(t)'
    <2>1. PICK fa : fa = early'[t] OBVIOUS
    <2>2. early[t] \subseteq fa /\ since1 \subseteq fa BY <1>6, <2>1
    <2>3. fa \subseteq 0 .. emitted BY <1>0, <1>3, <1>6, <2>1 DEF OnceInv
    <2>4. \A k \in 1 .. Len(channel[t]) : channel[t][k].kind # "list" BY <1>8 DEF OneList
    <2>5. OneList("read", channel[t]) BY <2>4 DEF OneList
    <2>6. ListsFit("read", ans, channel[t], shown[t], since[t], fa)
        <3>1. Len(channel[t]) + 1 \in 1 .. Len(channel[t]) + 1 BY <1>7
        <3>2. \A x \in Heard(channel[t], shown[t], Len(channel[t]) + 1) : x \in Nat /\ x <= emitted
            BY <1>0, <1>7, <1>8, <3>1, HeardIsUpTo
        <3>3. \A x \in Heard(channel[t], shown[t], Len(channel[t]) + 1) :
                  x > since[t] \/ x \in early[t]
            BY <1>8 DEF ListsFit
        <3>4. \A x \in Heard(channel[t], shown[t], Len(channel[t]) + 1) : x \in fa
            BY <1>4, <2>2, <3>2, <3>3
        <3> QED BY <2>4, <3>4 DEF ListsFit
    <2>7. ShowsRuns("joined", channel[t], shown[t], fa) BY <1>7, <1>8, <2>2, ShowsAllowMore
    <2>8. ShowsRuns("read", channel[t], shown[t], fa) BY <2>7 DEF ShowsRuns, ListComes
    <2> QED BY <1>0, <1>1, <1>2, <1>6, <1>8, <2>1, <2>3, <2>5, <2>6, <2>8 DEF OnceInv
<1>11. MissedInv(t)'
    <2>1. Recent(t)' \subseteq Recent(t)
        <3>1. Cardinality(early[t]) \in Nat /\ Full \in Nat BY <1>0, EarlyIsFinite
        <3>2. IsFiniteSet(0 .. emitted) BY <1>0, FS_Interval
        <3>3. early[t] \cup since1 \in SUBSET (0 .. emitted) BY <1>0, <1>3 DEF OnceInv
        <3>4. IsFiniteSet(early[t] \cup since1) BY <3>2, <3>3, FS_Subset
        <3>5. early[t] \in SUBSET (early[t] \cup since1) OBVIOUS
        <3>6. Cardinality(early[t]) <= Cardinality(early[t] \cup since1)
            BY <3>4, <3>5, FS_Subset
        <3>7. Cardinality(early[t] \cup since1) \in Nat BY <3>4, FS_CardinalityType
        <3>8. PICK c \in Nat : c = Cardinality(early[t]) BY <3>1
        <3>9. PICK d \in Nat : d = Cardinality(early'[t]) BY <1>6, <3>7
        <3>10. c <= d BY <1>6, <3>6, <3>8, <3>9
        <3>11. \A b \in 1 .. emitted : b > emitted - (Full - 1 - d) => b > emitted - (Full - 1 - c)
            BY <1>0, <3>1, <3>10
        <3> QED BY <1>1, <3>8, <3>9, <3>11 DEF Recent, Emitted
    <2>2. InRoom(t) /\ InRoom(t)' BY <1>1, <1>6 DEF InRoom
    <2>3. flying /\ since[t] = emitted => emitted \in unheard[t] BY <1>0, <2>2 DEF MissedInv
    <2>4. ASSUME NEW b \in Recent(t), b > since[t] \/ b \in ToSet(ans) PROVE Known(t, b)'
        <3>1. CASE b \in ToSet(ans) BY <1>6, <3>1 DEF Known
        <3>2. CASE b > since[t]
            <4>1. Known(t, b) BY <1>0, <2>2, <3>2 DEF MissedInv
            <4>2. b \notin ToSet(answer[t]) BY <1>7, NothingIsFine
            <4> QED BY <1>1, <4>1, <4>2 DEF Known
        <3> QED BY <2>4, <3>1, <3>2
    <2>5. Newest(beatRows') = ans BY <1>1 DEF ans
    <2> QED BY <1>1, <1>6, <2>1, <2>3, <2>4, <2>5 DEF MissedInv
<1>12. TabKnows(t)' BY <1>9, <1>10, <1>11 DEF TabKnows
<1>13. \A u \in Tabs : u # t =>
          tab'[u] = tab[u] /\ answer'[u] = answer[u] /\ early'[u] = early[u]
    BY <1>0, <1>1 DEF TabTypes
<1> QED BY <1>1, <1>5, <1>12, <1>13, OthersKeep

LEMMA SentKeeps ==
    ASSUME TabInv, NEW t \in Tabs, HistorySent(t)
    PROVE  TabTypes' /\ \A u \in Tabs : TabKnows(u)'
<1> USE DEF TabInv
<1>0. /\ RowsInv /\ TabTypes /\ emitted \in Nat
      /\ Gone(t) /\ OnceInv(t) /\ MissedInv(t)
      /\ channel[t] \in Seq(Message) /\ shown[t] \in Seq(Nat) /\ answer[t] \in Seq(Nat)
    BY DEF RowsInv, TabTypes
<1> DEFINE m == History(answer[t])
<1>1. /\ tab[t] = "read" /\ tab' = [tab EXCEPT ![t] = "in"]
      /\ channel' = [channel EXCEPT ![t] = Append(@, m)]
      /\ answer' = [answer EXCEPT ![t] = <<>>]
      /\ UNCHANGED <<emitted, flying, beatRows, shown, since, unheard, early>>
    BY DEF HistorySent
<1>2. m \in Message /\ m.kind = "list" /\ m.beats = answer[t]
    BY <1>0, SentIsMessage
<1> HIDE DEF m
<1>3. <<>> \in Seq(Nat) /\ Rising(<<>>) /\ UpTo(<<>>, emitted) BY DEF Rising, UpTo
<1>4. TabTypes'
    <2>1. Append(channel[t], m) \in Seq(Message) BY <1>0, <1>2, SentIs
    <2> QED BY <1>0, <1>1, <1>3, <2>1 DEF TabTypes
<1>5. tab'[t] = "in" /\ channel'[t] = Append(channel[t], m) /\ answer'[t] = <<>>
    BY <1>0, <1>1 DEF TabTypes
<1>6. /\ MessagesOK(emitted, channel[t], shown[t]) /\ OneList("read", channel[t])
      /\ ListsFit("read", answer[t], channel[t], shown[t], since[t], early[t])
      /\ ShowsRuns("read", channel[t], shown[t], early[t])
      /\ Rising(answer[t]) /\ UpTo(answer[t], emitted)
    BY <1>0, <1>1 DEF OnceInv, InRoom
<1>7. Gone(t)' BY <1>5 DEF Gone, InRoom
<1>8. OnceInv(t)'
    <2>1. emitted <= emitted /\ m.kind # "beat" BY <1>0, <1>2
    <2>2. MessagesOK(emitted, Append(channel[t], m), shown[t])
        BY <1>0, <1>2, <1>6, <2>1, SendKeepsMessages
    <2>3. /\ OneList("in", Append(channel[t], m))
          /\ ListsFit("in", <<>>, Append(channel[t], m), shown[t], since[t], early[t])
        BY <1>0, <1>2, <1>6, ListSentFits
    <2>4. ShowsRuns("in", Append(channel[t], m), shown[t], early[t])
        BY <1>6 DEF ShowsRuns, ListComes
    <2> QED BY <1>0, <1>1, <1>3, <1>5, <2>2, <2>3, <2>4 DEF OnceInv
<1>9. MissedInv(t)'
    <2>1. Recent(t)' = Recent(t) BY <1>1 DEF Recent, Emitted
    <2>2. InRoom(t) /\ InRoom(t)' BY <1>1, <1>5 DEF InRoom
    <2>3. ASSUME NEW b, Known(t, b) PROVE Known(t, b)'
        <3>1. CASE b \in unheard[t] BY <1>1, <3>1 DEF Known
        <3>2. CASE b \in ToSet(answer[t])
            <4>1. WillShow(b, Append(channel[t], m), shown[t])
                BY <1>0, <1>2, <3>2, SendKeepsArrival
            <4> QED BY <1>1, <1>5, <4>1 DEF Known
        <3>3. CASE WillShow(b, channel[t], shown[t])
            <4>1. WillShow(b, Append(channel[t], m), shown[t])
                BY <1>0, <1>2, <3>3, SendKeepsArrival
            <4> QED BY <1>1, <1>5, <4>1 DEF Known
        <3> QED BY <2>3, <3>1, <3>2, <3>3 DEF Known
    <2> QED BY <1>0, <1>1, <1>5, <2>1, <2>2, <2>3 DEF MissedInv
<1>10. TabKnows(t)' BY <1>7, <1>8, <1>9 DEF TabKnows
<1>11. \A u \in Tabs : u # t =>
          tab'[u] = tab[u] /\ answer'[u] = answer[u] /\ channel'[u] = channel[u]
    BY <1>0, <1>1 DEF TabTypes
<1> QED BY <1>1, <1>4, <1>10, <1>11, OthersKeep

LEMMA ReceiptKeeps ==
    ASSUME TabInv, NEW t \in Tabs, Receives(t)
    PROVE  TabTypes' /\ \A u \in Tabs : TabKnows(u)'
<1> USE DEF TabInv
<1>0. /\ RowsInv /\ TabTypes /\ emitted \in Nat
      /\ Gone(t) /\ OnceInv(t) /\ MissedInv(t)
      /\ channel[t] \in Seq(Message) /\ shown[t] \in Seq(Nat)
    BY DEF RowsInv, TabTypes
<1>1. /\ channel[t] # <<>>
      /\ shown' = [shown EXCEPT ![t] = Merged(Head(channel[t]), @)]
      /\ channel' = [channel EXCEPT ![t] = Tail(@)]
      /\ UNCHANGED <<emitted, flying, beatRows, tab, answer, since, unheard, early>>
    BY DEF Receives
<1>2. InRoom(t) /\ InRoom(t)' BY <1>0, <1>1 DEF Gone, InRoom
<1>3. Head(channel[t]) = channel[t][1] /\ Tail(channel[t]) \in Seq(Message)
    BY <1>0, <1>1, FirstMessage
<1>4. /\ MessagesOK(emitted, channel[t], shown[t]) /\ OneList(tab[t], channel[t])
      /\ ListsFit(tab[t], answer[t], channel[t], shown[t], since[t], early[t])
      /\ ShowsRuns(tab[t], channel[t], shown[t], early[t])
    BY <1>0, <1>2 DEF OnceInv
<1> DEFINE sh == Merged(channel[t][1], shown[t])
           ch == Tail(channel[t])
<1>5. MessagesOK(emitted, ch, sh) /\ sh \in Seq(Nat)
    BY <1>0, <1>1, <1>4, ReceiptKeepsMessages
<1>6. OneList(tab[t], ch) BY <1>0, <1>1, <1>4, ReceiptKeepsOneList
<1>7. ListsFit(tab[t], answer[t], ch, sh, since[t], early[t])
    BY <1>0, <1>1, <1>4, ReceiptKeepsFit
<1>8. ShowsRuns(tab[t], ch, sh, early[t]) BY <1>0, <1>1, <1>4, ReceiptKeepsRuns
<1>9. /\ ch \in Seq(Message)
      /\ shown' = [shown EXCEPT ![t] = sh] /\ channel' = [channel EXCEPT ![t] = ch]
    BY <1>1, <1>3
<1>10. ASSUME NEW b \in Recent(t), WillShow(b, channel[t], shown[t]) PROVE WillShow(b, ch, sh)
    <2>1. IsFiniteSet(early[t]) BY <1>0, EarlyIsFinite
    <2>2. b \in Nat /\ b > emitted - (Full - 1 - Cardinality(early[t]))
        BY <1>0, <1>10 DEF Recent, Emitted
    <2> QED BY <1>0, <1>1, <1>4, <1>10, <2>1, <2>2, ReceiptKeepsArrival
<1> HIDE DEF sh, ch
<1>11. TabTypes' BY <1>0, <1>1, <1>5, <1>9 DEF TabTypes
<1>12. channel'[t] = ch /\ shown'[t] = sh BY <1>0, <1>9 DEF TabTypes
<1>13. Gone(t)'
    <2>1. tab'[t] # "open" BY <1>2 DEF InRoom
    <2> QED BY <1>0, <1>1, <1>2, <2>1 DEF Gone
<1>14. OnceInv(t)' BY <1>0, <1>1, <1>5, <1>6, <1>7, <1>8, <1>12 DEF OnceInv
<1>15. MissedInv(t)'
    <2>1. Recent(t)' = Recent(t) BY <1>1 DEF Recent, Emitted
    <2>2. ASSUME NEW b \in Recent(t), Known(t, b) PROVE Known(t, b)'
        BY <1>1, <1>10, <1>12, <2>2 DEF Known
    <2> QED BY <1>0, <1>1, <1>2, <2>1, <2>2 DEF MissedInv
<1>16. TabKnows(t)' BY <1>13, <1>14, <1>15 DEF TabKnows
<1>17. \A u \in Tabs : u # t => channel'[u] = channel[u] /\ shown'[u] = shown[u]
    BY <1>0, <1>9 DEF TabTypes
<1> QED BY <1>1, <1>11, <1>16, <1>17, OthersKeep

LEMMA TabInvNext == TabInv /\ [BeatsNext]_beatsVars => TabInv'
<1> SUFFICES ASSUME TabInv, [BeatsNext]_beatsVars PROVE TabInv' OBVIOUS
<1>1. RowsInv' BY RowsKept
<1>2. TabTypes' /\ \A t \in Tabs : TabKnows(t)'
    <2>1. CASE BeatEmitted BY <2>1, EmittedKeeps
    <2>2. CASE BeatStored BY <2>2, StoredKeeps
    <2>3. CASE BeatRefused \/ BeatsDeleted \/ RestRead \/ ClearFails \/ UNCHANGED beatsVars
        BY <2>3, QuietKeeps
    <2>4. ASSUME NEW t \in Tabs, Connects(t) \/ Disconnects(t)
          PROVE  TabTypes' /\ \A u \in Tabs : TabKnows(u)'
        BY <2>4, ComesAndGoesKeep
    <2>5. ASSUME NEW t \in Tabs, Joins(t) PROVE TabTypes' /\ \A u \in Tabs : TabKnows(u)'
        BY <2>5, JoinsKeep
    <2>6. ASSUME NEW t \in Tabs, HistoryRead(t)
          PROVE  TabTypes' /\ \A u \in Tabs : TabKnows(u)'
        BY <2>6, ReadKeeps
    <2>7. ASSUME NEW t \in Tabs, HistorySent(t)
          PROVE  TabTypes' /\ \A u \in Tabs : TabKnows(u)'
        BY <2>7, SentKeeps
    <2>8. ASSUME NEW t \in Tabs, Receives(t) PROVE TabTypes' /\ \A u \in Tabs : TabKnows(u)'
        BY <2>8, ReceiptKeeps
    <2>9. CASE RestSent BY <2>9, RestSentKeeps
    <2>10. CASE BeatsCrash BY <2>10, CrashKeeps
    <2> QED
        BY <2>1, <2>2, <2>3, <2>4, <2>5, <2>6, <2>7, <2>8, <2>9, <2>10 DEF BeatsNext
<1> QED BY <1>1, <1>2 DEF TabInv, TabKnows

LEMMA TabInvShows == TabInv => TabShowsHistory
<1> SUFFICES ASSUME TabInv, NEW t \in Tabs, UpToDate(t)
             PROVE  /\ ToSet(Newest(beatRows)) \cap Recent(t)
                           \subseteq ToSet(shown[t]) \cup unheard[t]
                    /\ \A i, j \in DOMAIN shown[t] :
                          shown[t][i] = shown[t][j] /\ i # j => shown[t][i] \in early[t]
    BY DEF TabShowsHistory, NoBeatMissed, ShownOnce
<1>1. tab[t] = "in" /\ channel[t] = <<>> /\ InRoom(t) BY DEF UpToDate, InRoom
<1>2. Gone(t) /\ OnceInv(t) /\ MissedInv(t) /\ answer[t] = <<>> /\ shown[t] \in Seq(Nat)
    BY <1>1 DEF TabInv, TabTypes, Gone
<1>3. ASSUME NEW b \in ToSet(Newest(beatRows)) \cap Recent(t)
      PROVE  b \in ToSet(shown[t]) \cup unheard[t]
    <2>1. Known(t, b) BY <1>1, <1>2, <1>3 DEF MissedInv
    <2>2. b \notin ToSet(answer[t]) BY <1>2, NothingIsFine
    <2>3. 1 .. Len(channel[t]) = {} BY <1>1
    <2> QED BY <2>1, <2>2, <2>3 DEF Known, WillShow
<1>4. ASSUME NEW i \in DOMAIN shown[t], NEW j \in DOMAIN shown[t],
             shown[t][i] = shown[t][j], i # j
      PROVE  shown[t][i] \in early[t]
    <2>1. PICK n \in Nat : TwoRuns(shown[t], n, early[t])
        BY <1>1, <1>2 DEF OnceInv, ShowsRuns
    <2>2. i \in 1 .. Len(shown[t]) /\ j \in 1 .. Len(shown[t]) BY <1>2, <1>4
    <2> QED BY <1>2, <1>4, <2>1, <2>2, RunsShowOnce
<1> QED BY <1>3, <1>4

(* A tab that has received all there is shows the newest rows, each once,  *)
(* but for those it cannot have heard and those that came early            *)
(* (TabShowsHistory; server.js, afterLogin(), client.js,                   *)
(* sendHeartbeatList(), and socket.js, "heartbeat", "heartbeatList").      *)
THEOREM TabsShowHistory == BeatsSpec => []TabShowsHistory
<1>1. BeatsInit => TabInv BY TabInvInit
<1>2. TabInv /\ [BeatsNext]_beatsVars => TabInv' BY TabInvNext
<1>3. TabInv => TabShowsHistory BY TabInvShows
<1> QED BY <1>1, <1>2, <1>3, PTL DEF BeatsSpec

-----------------------------------------------------------------------------
(* How long lists get.  A tab that waits for its list shows fewer beats    *)
(* than it may have, and the list comes but once.                          *)
Lists(e) == {s \in Seq(1 .. e) : Len(s) <= Limit}
Posts(e) == {m \in [kind : {"beat", "list", "overwrite"}, beats : Lists(e)] :
                m.kind = "beat" => Len(m.beats) = 1}

RowsFit ==
    /\ emitted \in 0 .. MaxBeats /\ flying \in BOOLEAN /\ (flying => emitted >= 1)
    /\ beatRows \in Seq(1 .. emitted) /\ clearAnswer \in Lists(emitted)
    /\ clearing \in {"idle", "deleted", "read"}

TabFits(e, tb, ans, ch, sh, si, un, ea) ==
    /\ ans \in Lists(e) /\ ch \in Seq(Posts(e))
    /\ sh \in Seq(1 .. e) /\ Len(sh) < Limit + Full
    /\ ListComes(tb, ch) => Len(sh) < Full
    /\ si \in 0 .. e /\ un \subseteq 1 .. e /\ ea \subseteq 1 .. e

Fit(t) == TabFits(emitted, tab[t], answer[t], channel[t], shown[t], since[t], unheard[t], early[t])

SizesInv == RowsFit /\ \A t \in Tabs : Fit(t)

LEMMA ListsGrow ==
    ASSUME NEW e \in Nat
    PROVE  /\ Lists(e) \subseteq Lists(e + 1) /\ Posts(e) \subseteq Posts(e + 1)
           /\ Seq(1 .. e) \subseteq Seq(1 .. e + 1) /\ Seq(Posts(e)) \subseteq Seq(Posts(e + 1))
<1>1. 1 .. e \subseteq 1 .. e + 1 OBVIOUS
<1>2. Seq(1 .. e) \subseteq Seq(1 .. e + 1)
    <2> SUFFICES ASSUME NEW s \in Seq(1 .. e) PROVE s \in Seq(1 .. e + 1) OBVIOUS
    <2> QED BY <1>1, SeqMonotonic
<1>3. Lists(e) \subseteq Lists(e + 1) BY <1>2 DEF Lists
<1>4. Posts(e) \subseteq Posts(e + 1) BY <1>3 DEF Posts
<1>5. Seq(Posts(e)) \subseteq Seq(Posts(e + 1))
    <2> SUFFICES ASSUME NEW s \in Seq(Posts(e)) PROVE s \in Seq(Posts(e + 1)) OBVIOUS
    <2> QED BY <1>4, SeqMonotonic
<1> QED BY <1>2, <1>3, <1>4, <1>5

LEMMA TabFitsMore ==
    ASSUME NEW e \in Nat, NEW tb, NEW ans, NEW ch, NEW sh, NEW si, NEW un, NEW ea,
           TabFits(e, tb, ans, ch, sh, si, un, ea)
    PROVE  TabFits(e + 1, tb, ans, ch, sh, si, un, ea)
<1>1. 1 .. e \subseteq 1 .. e + 1 /\ 0 .. e \subseteq 0 .. e + 1 OBVIOUS
<1> QED BY <1>1, ListsGrow DEF TabFits

LEMMA NewestFits ==
    ASSUME NEW e \in Nat, NEW rows \in Seq(1 .. e)
    PROVE  Newest(rows) \in Lists(e)
<1> DEFINE a == IF Len(rows) > Limit THEN Len(rows) - Limit + 1 ELSE 1
<1>1. Limit \in Nat /\ Limit >= 1 /\ Len(rows) \in Nat BY LimitsAssumption
<1>2. a \in Nat /\ a >= 1 /\ a <= Len(rows) + 1 /\ Len(rows) - a + 1 <= Limit BY <1>1
<1>3. Newest(rows) = SubSeq(rows, a, Len(rows)) BY DEF Newest
<1> HIDE DEF a
<1>4. SubSeq(rows, a, Len(rows)) \in Seq(1 .. e)
      /\ Len(SubSeq(rows, a, Len(rows))) = Len(rows) - a + 1
    BY <1>2, PieceIs
<1> QED BY <1>2, <1>3, <1>4 DEF Lists

LEMMA ShortLists ==
    ASSUME NEW e \in Nat
    PROVE  /\ <<>> \in Lists(e) /\ <<>> \in Seq(Posts(e)) /\ <<>> \in Seq(1 .. e)
           /\ \A x \in 1 .. e : Live(x) \in Posts(e)
           /\ \A bs \in Lists(e) : History(bs) \in Posts(e) /\ Replaced(bs) \in Posts(e)
<1>1. Limit \in Nat /\ Limit >= 1 BY LimitsAssumption
<1>2. ASSUME NEW x \in 1 .. e PROVE <<x>> \in Lists(e) /\ Len(<<x>>) = 1
    <2>1. <<x>> \in Seq(1 .. e) /\ Len(<<x>>) = 1 OBVIOUS
    <2> QED BY <1>1, <2>1 DEF Lists
<1>3. <<>> \in Seq(1 .. e) /\ Len(<<>>) = 0 /\ <<>> \in Seq(Posts(e)) OBVIOUS
<1>4. <<>> \in Lists(e) BY <1>1, <1>3 DEF Lists
<1> QED BY <1>2, <1>3, <1>4 DEF Live, History, Replaced, Posts

(* A message more on the way to a tab; the list is one the tab waits for.  *)
LEMMA PostFits ==
    ASSUME NEW e \in Nat, NEW tb, NEW ub, NEW ans, NEW ant, NEW ch, NEW sh, NEW si, NEW un,
           NEW ea, TabFits(e, tb, ans, ch, sh, si, un, ea), NEW m \in Posts(e),
           ub \in {"joined", "read"} => ub = tb,
           m.kind = "list" => ListComes(tb, ch), ant \in Lists(e)
    PROVE  TabFits(e, ub, ant, Append(ch, m), sh, si, un, ea)
<1>1. ch \in Seq(Posts(e)) BY DEF TabFits
<1>2. /\ Append(ch, m) \in Seq(Posts(e)) /\ Len(ch) \in Nat /\ Len(Append(ch, m)) = Len(ch) + 1
      /\ \A i \in 1 .. Len(ch) : Append(ch, m)[i] = ch[i]
      /\ Append(ch, m)[Len(ch) + 1] = m
    BY <1>1, AppendIs
<1>3. \A i \in 1 .. Len(ch) + 1 : i \in 1 .. Len(ch) \/ i = Len(ch) + 1 BY <1>2
<1>4. ListComes(ub, Append(ch, m)) => ListComes(tb, ch)
    BY <1>2, <1>3 DEF ListComes
<1> QED BY <1>2, <1>4 DEF TabFits

LEMMA ReceivedFits ==
    ASSUME NEW e \in Nat, NEW tb, NEW ans, NEW ch, NEW sh, NEW si, NEW un, NEW ea,
           TabFits(e, tb, ans, ch, sh, si, un, ea), ch # <<>>, OneList(tb, ch)
    PROVE  TabFits(e, tb, ans, Tail(ch), Merged(Head(ch), sh), si, un, ea)
<1>1. ch \in Seq(Posts(e)) /\ sh \in Seq(1 .. e) BY DEF TabFits
<1>2. /\ Tail(ch) \in Seq(Posts(e)) /\ Len(ch) \in Nat /\ Len(ch) >= 1
      /\ Len(Tail(ch)) = Len(ch) - 1
      /\ \A i \in 1 .. Len(ch) - 1 : Tail(ch)[i] = ch[i + 1]
      /\ ch[1] \in Posts(e) /\ Head(ch) = ch[1]
    BY <1>1, TailIs
<1>3. \A i \in 1 .. Len(ch) - 1 : i + 1 \in 1 .. Len(ch) /\ i + 1 # 1 BY <1>2
<1>4. 1 \in 1 .. Len(ch) BY <1>2
<1>5. ListComes(tb, Tail(ch)) => ListComes(tb, ch)
    BY <1>2, <1>3 DEF ListComes
<1>6. ch[1].kind = "list" => ~ListComes(tb, Tail(ch))
    <2> SUFFICES ASSUME ch[1].kind = "list" PROVE ~ListComes(tb, Tail(ch)) OBVIOUS
    <2>1. tb = "in" /\ \A i \in 1 .. Len(ch) : ch[i].kind = "list" => i = 1
        BY <1>4 DEF OneList
    <2>2. \A i \in 1 .. Len(ch) - 1 : Tail(ch)[i].kind # "list" BY <1>2, <1>3, <2>1
    <2> QED BY <1>2, <2>1, <2>2 DEF ListComes
<1>7. ch[1].kind = "list" => ListComes(tb, ch) BY <1>4 DEF ListComes
<1> DEFINE m == ch[1]
           r == Merged(m, sh)
           n == Len(sh)
<1>8. /\ m.beats \in Seq(1 .. e) /\ Len(m.beats) <= Limit /\ Len(m.beats) \in Nat
      /\ m.kind \in {"beat", "list", "overwrite"} /\ (m.kind = "beat" => Len(m.beats) = 1)
    BY <1>2 DEF Posts, Lists
<1>9. /\ Limit \in Nat /\ Full \in Nat /\ Limit < Full /\ n \in Nat /\ n < Limit + Full
    BY <1>1, LimitsAssumption DEF TabFits
<1>10. /\ sh \o m.beats \in Seq(1 .. e) /\ Len(sh \o m.beats) = n + Len(m.beats)
       /\ m.beats \o sh \in Seq(1 .. e) /\ Len(m.beats \o sh) = Len(m.beats) + n
    BY <1>1, <1>8, ConcatProperties
<1> HIDE DEF m, n
<1>11. r \in Seq(1 .. e) /\ Len(r) < Limit + Full /\ (ListComes(tb, Tail(ch)) => Len(r) < Full)
    <2>1. CASE m.kind = "beat"
        <3> DEFINE l == sh \o m.beats
        <3>1. r = IF Len(l) >= Full THEN Tail(l) ELSE l BY <2>1 DEF Merged, r
        <3>2. l \in Seq(1 .. e) /\ Len(l) = n + 1 BY <1>8, <1>10, <2>1
        <3> HIDE DEF l
        <3>3. l # <<>> BY <1>9, <3>2
        <3>4. Tail(l) \in Seq(1 .. e) /\ Len(Tail(l)) = n BY <1>9, <3>2, <3>3, TailIs
        <3>5. ListComes(tb, Tail(ch)) => n < Full BY <1>5 DEF TabFits, n
        <3> HIDE DEF r
        <3>6. CASE Len(l) >= Full BY <1>9, <3>1, <3>4, <3>5, <3>6
        <3>7. CASE ~(Len(l) >= Full) BY <1>9, <3>1, <3>2, <3>7
        <3> QED BY <3>6, <3>7
    <2>2. CASE m.kind = "list"
        <3>1. r = m.beats \o sh BY <2>2 DEF Merged, r
        <3>2. n < Full BY <1>7, <2>2 DEF TabFits, n, m
        <3>3. ~ListComes(tb, Tail(ch)) BY <1>6, <2>2 DEF m
        <3> HIDE DEF r
        <3> QED BY <1>8, <1>9, <1>10, <3>1, <3>2, <3>3
    <2>3. CASE m.kind = "overwrite"
        <3>1. r = m.beats BY <2>3 DEF Merged, r
        <3> HIDE DEF r
        <3> QED BY <1>8, <1>9, <3>1
    <2> QED BY <1>8, <2>1, <2>2, <2>3
<1>12. Merged(Head(ch), sh) = r BY <1>2 DEF m, r
<1> QED BY <1>2, <1>5, <1>11, <1>12 DEF TabFits

LEMMA SizesInvInit == BeatsInit => SizesInv
<1> SUFFICES ASSUME BeatsInit PROVE SizesInv OBVIOUS
<1>1. emitted = 0 /\ 0 \in Nat /\ 0 \in 0 .. MaxBeats BY LimitsAssumption DEF BeatsInit
<1>2. RowsFit BY <1>1, ShortLists DEF BeatsInit, RowsFit
<1>3. 0 < Full /\ 0 < Limit + Full /\ Len(<<>>) = 0 BY LimitsAssumption
<1>4. \A t \in Tabs : Fit(t)
    BY <1>1, <1>3, ShortLists DEF BeatsInit, Fit, TabFits
<1> QED BY <1>2, <1>4 DEF SizesInv

LEMMA RowsFitNext == SizesInv /\ [BeatsNext]_beatsVars => RowsFit'
<1> SUFFICES ASSUME SizesInv, [BeatsNext]_beatsVars PROVE RowsFit' OBVIOUS
<1>0. /\ emitted \in 0 .. MaxBeats /\ flying \in BOOLEAN /\ (flying => emitted >= 1)
      /\ beatRows \in Seq(1 .. emitted) /\ clearAnswer \in Lists(emitted)
      /\ clearing \in {"idle", "deleted", "read"} /\ emitted \in Nat
    BY DEF SizesInv, RowsFit
<1>1. CASE BeatEmitted
    <2>1. /\ emitted < MaxBeats /\ emitted' = emitted + 1 /\ flying' = TRUE
          /\ UNCHANGED <<beatRows, clearAnswer, clearing>>
        BY <1>1 DEF BeatEmitted
    <2>2. emitted + 1 \in 0 .. MaxBeats /\ emitted + 1 >= 1 BY <1>0, <2>1, LimitsAssumption
    <2>3. beatRows \in Seq(1 .. emitted + 1) /\ clearAnswer \in Lists(emitted + 1)
        BY <1>0, ListsGrow
    <2> QED BY <1>0, <2>1, <2>2, <2>3 DEF RowsFit
<1>2. CASE BeatStored
    <2>1. emitted \in 1 .. emitted BY <1>0, <1>2 DEF BeatStored
    <2>2. Append(beatRows, emitted) \in Seq(1 .. emitted) BY <1>0, <2>1, AppendIs
    <2> QED BY <1>0, <1>2, <2>2 DEF BeatStored, RowsFit
<1>3. CASE RestRead
    <2>1. Newest(beatRows) \in Lists(emitted) BY <1>0, NewestFits
    <2> QED BY <1>0, <1>3, <2>1 DEF RestRead, RowsFit
<1>4. CASE /\ emitted' = emitted /\ (flying' = flying \/ flying' = FALSE)
           /\ beatRows' = beatRows \/ beatRows' = <<>>
           /\ clearAnswer' = clearAnswer \/ clearAnswer' = <<>>
           /\ clearing' \in {clearing, "idle", "deleted"}
    <2>1. <<>> \in Seq(1 .. emitted) /\ <<>> \in Lists(emitted) BY <1>0, ShortLists
    <2>2. beatRows' \in Seq(1 .. emitted) /\ clearAnswer' \in Lists(emitted)
        BY <1>0, <1>4, <2>1
    <2>3. emitted' \in 0 .. MaxBeats /\ flying' \in BOOLEAN /\ (flying' => emitted' >= 1)
          /\ clearing' \in {"idle", "deleted", "read"}
        <3>1. flying' \in BOOLEAN BY <1>0, <1>4, Zenon
        <3>2. flying' => flying BY <1>4, Zenon
        <3>3. flying' => emitted' >= 1 BY <1>0, <1>4, <3>2, Zenon
        <3>4. clearing' \in {"idle", "deleted", "read"} BY <1>0, <1>4, Zenon
        <3> QED BY <1>0, <1>4, <3>1, <3>3, <3>4
    <2>4. beatRows' \in Seq(1 .. emitted') /\ clearAnswer' \in Lists(emitted')
        BY <1>4, <2>2, Zenon
    <2> QED BY <2>3, <2>4 DEF RowsFit
<1>5. \/ BeatEmitted \/ BeatStored \/ RestRead
      \/ /\ emitted' = emitted /\ (flying' = flying \/ flying' = FALSE)
         /\ beatRows' = beatRows \/ beatRows' = <<>>
         /\ clearAnswer' = clearAnswer \/ clearAnswer' = <<>>
         /\ clearing' \in {clearing, "idle", "deleted"}
    BY DEF BeatsNext, beatsVars, BeatRefused, Connects, Joins, HistoryRead, HistorySent,
       Disconnects, Receives, BeatsDeleted, RestSent, ClearFails, BeatsCrash
<1> QED BY <1>1, <1>2, <1>3, <1>4, <1>5

(* What is true of a tab that a step leaves alone.                         *)
LEMMA SameFit ==
    ASSUME NEW t, Fit(t), emitted' = emitted,
           tab'[t] = tab[t], answer'[t] = answer[t], channel'[t] = channel[t],
           shown'[t] = shown[t], since'[t] = since[t], unheard'[t] = unheard[t],
           early'[t] = early[t]
    PROVE  Fit(t)'
BY DEF Fit

(* A tab that is not in the room waits for nothing.                        *)
LEMMA FitsWhenAway ==
    ASSUME NEW e \in Nat, NEW sh \in Seq(1 .. e), Len(sh) < Limit + Full, NEW tb,
           tb \notin {"joined", "read"}
    PROVE  TabFits(e, tb, <<>>, <<>>, sh, 0, {}, {})
<1>1. ~ListComes(tb, <<>>) BY DEF ListComes
<1>2. 0 \in 0 .. e OBVIOUS
<1> QED BY <1>1, <1>2, ShortLists DEF TabFits

LEMMA TabFitNext ==
    ASSUME SizesInv, TabInv, [BeatsNext]_beatsVars, NEW t \in Tabs
    PROVE  Fit(t)'
<1>0. /\ emitted \in Nat /\ beatRows \in Seq(1 .. emitted) /\ clearAnswer \in Lists(emitted)
      /\ Fit(t) /\ (flying => emitted \in 1 .. emitted)
    BY DEF SizesInv, RowsFit
<1>1. /\ TabTypes /\ Gone(t) /\ OnceInv(t)
      /\ DOMAIN tab = Tabs /\ DOMAIN answer = Tabs /\ DOMAIN channel = Tabs /\ DOMAIN shown = Tabs
      /\ DOMAIN since = Tabs /\ DOMAIN unheard = Tabs /\ DOMAIN early = Tabs
    BY DEF TabInv, TabTypes
<1>2. TabFits(emitted, tab[t], answer[t], channel[t], shown[t], since[t], unheard[t], early[t])
    BY <1>0 DEF Fit
<1>3. /\ answer[t] \in Lists(emitted) /\ shown[t] \in Seq(1 .. emitted)
      /\ Len(shown[t]) < Limit + Full /\ since[t] \in 0 .. emitted
      /\ unheard[t] \subseteq 1 .. emitted /\ early[t] \subseteq 1 .. emitted
      /\ channel[t] \in Seq(Posts(emitted))
    BY <1>2 DEF TabFits
<1>4. CASE BeatEmitted
    <2> DEFINE e == emitted + 1
    <2>1. /\ emitted' = e /\ UNCHANGED <<tab, answer, shown, since, unheard, early>>
          /\ channel'[t] = IF InRoom(t) THEN Append(channel[t], Live(e)) ELSE channel[t]
        BY <1>4 DEF BeatEmitted, ToRoom
    <2>2. TabFits(e, tab[t], answer[t], channel[t], shown[t], since[t], unheard[t], early[t])
        BY <1>0, <1>2, TabFitsMore
    <2>3. e \in Nat /\ e \in 1 .. e BY <1>0
    <2> HIDE DEF e
    <2>4. Live(e) \in Posts(e) /\ Live(e).kind # "list" BY <2>3, ShortLists DEF Live
    <2>5. answer[t] \in Lists(e) BY <2>2 DEF TabFits
    <2>6. TabFits(e, tab[t], answer[t], Append(channel[t], Live(e)), shown[t], since[t], unheard[t],
                  early[t])
        BY <2>2, <2>3, <2>4, <2>5, PostFits
    <2> QED BY <2>1, <2>2, <2>6 DEF Fit
<1>5. CASE RestSent
    <2> DEFINE m == Replaced(clearAnswer)
    <2>1. /\ emitted' = emitted /\ UNCHANGED <<tab, answer, shown, since>>
          /\ channel'[t] = IF InRoom(t) THEN Append(channel[t], m) ELSE channel[t]
          /\ unheard'[t] \in {unheard[t], unheard[t] \cup (Emitted \ ToSet(clearAnswer))}
          /\ early'[t] \in {early[t], early[t] \cup ToSet(clearAnswer)}
        BY <1>5 DEF RestSent, ToRoom
    <2>2. m \in Posts(emitted) /\ m.kind # "list" BY <1>0, ShortLists DEF Replaced
    <2>3. ToSet(clearAnswer) \subseteq 1 .. emitted
        <3>1. clearAnswer \in Seq(1 .. emitted) BY <1>0 DEF Lists
        <3>2. \A i \in 1 .. Len(clearAnswer) : clearAnswer[i] \in 1 .. emitted
            BY <3>1, ElementsAre
        <3> QED BY <3>1, <3>2, TokensAre
    <2>4. unheard'[t] \subseteq 1 .. emitted /\ early'[t] \subseteq 1 .. emitted
        BY <1>3, <2>1, <2>3 DEF Emitted
    <2> HIDE DEF m
    <2>5. TabFits(emitted, tab[t], answer[t], Append(channel[t], m), shown[t], since[t], unheard[t],
                  early[t])
        BY <1>0, <1>2, <1>3, <2>2, PostFits
    <2> QED BY <1>2, <2>1, <2>4, <2>5 DEF Fit, TabFits
<1>6. ASSUME NEW u \in Tabs, u # t,
             \/ Connects(u) \/ Joins(u) \/ HistoryRead(u) \/ HistorySent(u) \/ Disconnects(u)
             \/ Receives(u)
      PROVE  Fit(t)'
    <2>1. /\ emitted' = emitted
          /\ tab'[t] = tab[t] /\ answer'[t] = answer[t] /\ channel'[t] = channel[t]
          /\ shown'[t] = shown[t] /\ since'[t] = since[t] /\ unheard'[t] = unheard[t]
          /\ early'[t] = early[t]
        BY <1>1, <1>6 DEF Connects, Joins, HistoryRead, HistorySent, Disconnects, Receives
    <2> QED BY <1>0, <2>1, SameFit
<1>7. CASE Connects(t)
    <2>1. /\ tab[t] = "away" /\ tab'[t] = "open" /\ shown'[t] = <<>>
          /\ UNCHANGED <<emitted, answer, channel, since, unheard, early>>
        BY <1>1, <1>7 DEF Connects
    <2>2. channel[t] = <<>> BY <1>1, <2>1 DEF Gone, InRoom
    <2>3. ~ListComes("open", <<>>) BY DEF ListComes
    <2>4. Len(<<>>) < Limit + Full /\ <<>> \in Seq(1 .. emitted) BY LimitsAssumption
    <2> QED BY <1>2, <2>1, <2>2, <2>3, <2>4 DEF Fit, TabFits
<1>8. CASE Joins(t)
    <2>1. /\ tab[t] = "open" /\ tab'[t] = "joined" /\ since'[t] = emitted
          /\ unheard'[t] = IF flying THEN {emitted} ELSE {}
          /\ UNCHANGED <<emitted, answer, channel, shown, early>>
        BY <1>1, <1>8 DEF Joins
    <2>2. shown[t] = <<>> BY <1>1, <2>1 DEF Gone
    <2>3. Len(<<>>) < Full BY LimitsAssumption
    <2>4. emitted \in 0 .. emitted /\ unheard'[t] \subseteq 1 .. emitted BY <1>0, <2>1
    <2> QED BY <1>2, <2>1, <2>2, <2>3, <2>4 DEF Fit, TabFits
<1>9. CASE HistoryRead(t)
    <2>1. /\ tab[t] = "joined" /\ tab'[t] = "read" /\ answer'[t] = Newest(beatRows)
          /\ early'[t] = early[t] \cup (since[t] + 1 .. emitted)
          /\ UNCHANGED <<emitted, channel, shown, since, unheard>>
        BY <1>1, <1>9 DEF HistoryRead
    <2>2. Newest(beatRows) \in Lists(emitted) BY <1>0, NewestFits
    <2>3. since[t] + 1 .. emitted \subseteq 1 .. emitted BY <1>0, <1>3
    <2>4. ListComes(tab[t], channel[t]) BY <2>1 DEF ListComes
    <2> QED BY <1>2, <1>3, <2>1, <2>2, <2>3, <2>4 DEF Fit, TabFits
<1>10. CASE HistorySent(t)
    <2> DEFINE m == History(answer[t])
    <2>1. /\ tab[t] = "read" /\ tab'[t] = "in" /\ answer'[t] = <<>>
          /\ channel'[t] = Append(channel[t], m)
          /\ UNCHANGED <<emitted, shown, since, unheard, early>>
        BY <1>1, <1>10 DEF HistorySent
    <2>2. m \in Posts(emitted) /\ <<>> \in Lists(emitted) BY <1>0, <1>3, ShortLists
    <2>3. ListComes(tab[t], channel[t]) BY <2>1 DEF ListComes
    <2> HIDE DEF m
    <2>4. TabFits(emitted, "in", <<>>, Append(channel[t], m), shown[t], since[t], unheard[t],
                  early[t])
        BY <1>0, <1>2, <2>2, <2>3, PostFits
    <2> QED BY <2>1, <2>4 DEF Fit
<1>11. CASE Disconnects(t)
    <2>1. /\ tab'[t] = "away" /\ answer'[t] = <<>> /\ channel'[t] = <<>> /\ since'[t] = 0
          /\ unheard'[t] = {} /\ early'[t] = {} /\ UNCHANGED <<emitted, shown>>
        BY <1>1, <1>11 DEF Disconnects
    <2>2. TabFits(emitted, "away", <<>>, <<>>, shown[t], 0, {}, {})
        BY <1>0, <1>3, FitsWhenAway
    <2> QED BY <2>1, <2>2 DEF Fit
<1>12. CASE Receives(t)
    <2>1. /\ channel[t] # <<>> /\ shown'[t] = Merged(Head(channel[t]), shown[t])
          /\ channel'[t] = Tail(channel[t])
          /\ UNCHANGED <<emitted, tab, answer, since, unheard, early>>
        BY <1>1, <1>12 DEF Receives
    <2>2. InRoom(t) BY <1>1, <2>1 DEF Gone
    <2>3. OneList(tab[t], channel[t]) BY <1>1, <2>2 DEF OnceInv
    <2>4. TabFits(emitted, tab[t], answer[t], Tail(channel[t]),
                  Merged(Head(channel[t]), shown[t]), since[t], unheard[t], early[t])
        BY <1>0, <1>2, <2>1, <2>3, ReceivedFits
    <2> QED BY <2>1, <2>4 DEF Fit
<1>13. CASE BeatsCrash
    <2>1. /\ tab'[t] = "away" /\ answer'[t] = <<>> /\ channel'[t] = <<>> /\ since'[t] = 0
          /\ unheard'[t] = {} /\ early'[t] = {} /\ UNCHANGED <<emitted, shown>>
        BY <1>13 DEF BeatsCrash
    <2>2. TabFits(emitted, "away", <<>>, <<>>, shown[t], 0, {}, {})
        BY <1>0, <1>3, FitsWhenAway
    <2> QED BY <2>1, <2>2 DEF Fit
<1>14. CASE \/ BeatStored \/ BeatRefused \/ BeatsDeleted \/ RestRead \/ ClearFails
            \/ UNCHANGED beatsVars
    <2>1. UNCHANGED <<emitted, tab, answer, channel, shown, since, unheard, early>>
        BY <1>14 DEF BeatStored, BeatRefused, BeatsDeleted, RestRead, ClearFails, beatsVars
    <2> QED BY <1>0, <2>1, SameFit
<1> QED
    BY <1>4, <1>5, <1>6, <1>7, <1>8, <1>9, <1>10, <1>11, <1>12, <1>13, <1>14 DEF BeatsNext

LEMMA BeatsTypes == BeatsSpec => []BeatsTypeOK
<1>1. SizesInv /\ TabInv /\ [BeatsNext]_beatsVars => SizesInv'
    <2>1. ASSUME SizesInv, TabInv, [BeatsNext]_beatsVars PROVE SizesInv'
        <3>1. \A t \in Tabs : Fit(t)' BY <2>1, TabFitNext
        <3> QED BY <2>1, <3>1, RowsFitNext DEF SizesInv
    <2> QED BY <2>1
<1>2. SizesInv /\ TabInv => BeatsTypeOK
    <2> SUFFICES ASSUME SizesInv, TabInv PROVE BeatsTypeOK OBVIOUS
    <2> DEFINE Slots == [kind : {"beat", "list", "overwrite"}, beats : Seq(Emitted)]
    <2>1. Posts(emitted) \subseteq Slots BY DEF Posts, Lists, Emitted
    <2>2. ASSUME NEW t \in Tabs PROVE channel[t] \in Seq(Slots)
        <3>1. channel[t] \in Seq(Posts(emitted)) BY DEF SizesInv, Fit, TabFits
        <3> HIDE DEF Slots
        <3> QED BY <2>1, <3>1, SeqMonotonic
    <2>3. /\ emitted \in 0 .. MaxBeats /\ flying \in BOOLEAN /\ beatRows \in Seq(Emitted)
          /\ clearing \in {"idle", "deleted", "read"} /\ clearAnswer \in Seq(Emitted)
        BY DEF SizesInv, RowsFit, Lists, Emitted
    <2>4. \A t \in Tabs :
              /\ answer[t] \in Seq(Emitted) /\ Len(answer[t]) <= Limit
              /\ shown[t] \in Seq(Emitted) /\ Len(shown[t]) < Limit + Full
              /\ since[t] \in 0 .. emitted /\ unheard[t] \subseteq Emitted
              /\ early[t] \subseteq Emitted
        BY DEF SizesInv, Fit, TabFits, Lists, Emitted
    <2>5. tab \in [Tabs -> {"away", "open", "joined", "read", "in"}] BY DEF TabInv, TabTypes
    <2> QED BY <2>2, <2>3, <2>4, <2>5 DEF BeatsTypeOK
<1> QED BY <1>1, <1>2, SizesInvInit, TabInvInit, TabInvNext, PTL DEF BeatsSpec
=============================================================================
