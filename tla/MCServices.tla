----------------------------- MODULE MCServices -----------------------------
(* The parts of the server that share no variable, in one run: a behaviour *)
(* is one of the part it has chosen, and the other parts stay as they were *)
(* at the beginning.                                                       *)
EXTENDS UptimeStats, SettingsCache, MonitorTree, DomainExpiry, Federation,
        AlertDelivery, Administrators, PageGroups, StatusPages,
        TabBeats, AlertCooldown, IzapiaButtons, UptimeWindow, RunnerHandover, TLC

VARIABLE part

Parts == {"stats", "cache", "tree", "expiry", "federation", "alert", "admins",
          "groups", "addresses", "tabs", "cooldown", "buttons",
          "window", "handover"}

(* Parts that do not run have one initial state.                           *)
Beginning ==
    /\ part \in Parts
    /\ Init /\ CacheInit /\ TreeInit /\ ExpiryInit /\ FederationInit
    /\ AlertInit /\ AdminInit /\ PageInit /\ AddressInit
    /\ BeatsInit /\ CooldownInit /\ ButtonsInit /\ WindowInit /\ HandoverInit
    /\ part # "cache"  => setting = [k \in Keys |-> CHOOSE v \in Values : TRUE]
    /\ part # "admins" => users = {CHOOSE u \in Users : TRUE}
    /\ part # "window" => ~daily
    /\ part # "handover" => pace = CHOOSE p \in Paces : TRUE

Continuing ==
    /\ UNCHANGED part
    /\ IF part = "stats" THEN Next ELSE UNCHANGED vars
    /\ IF part = "cache" THEN CacheNext ELSE UNCHANGED cacheVars
    /\ IF part = "tree" THEN TreeNext ELSE UNCHANGED treeVars
    /\ IF part = "expiry" THEN ExpiryNext ELSE UNCHANGED expiryVars
    /\ IF part = "federation" THEN FederationNext ELSE UNCHANGED federationVars
    /\ IF part = "alert" THEN AlertNext ELSE UNCHANGED alertVars
    /\ IF part = "admins" THEN AdminNext ELSE UNCHANGED adminVars
    /\ IF part = "groups" THEN PageNext ELSE UNCHANGED pageVars
    /\ IF part = "addresses" THEN AddressNext ELSE UNCHANGED addressVars
    /\ IF part = "tabs" THEN BeatsNext ELSE UNCHANGED beatsVars
    /\ IF part = "cooldown" THEN CooldownNext ELSE UNCHANGED cooldownVars
    /\ IF part = "buttons" THEN ButtonsNext ELSE UNCHANGED buttonVars
    /\ IF part = "window" THEN WindowNext ELSE UNCHANGED windowVars
    /\ IF part = "handover" THEN HandoverNext ELSE UNCHANGED handoverVars

serviceVars == <<part, vars, cacheVars, treeVars, expiryVars, federationVars, alertVars,
                 adminVars, pageVars, addressVars, beatsVars, cooldownVars, buttonVars,
                 windowVars, handoverVars>>

Services == Beginning /\ [][Continuing]_serviceVars

-----------------------------------------------------------------------------
AllFaults == {"crash", "update", "init", "clear"}

Route(to, minSeverity, monitor, tag) ==
    [to |-> to, minSeverity |-> minSeverity, monitor |-> monitor, tag |-> tag]

(* One route for this monitor with a tag, one for every critical alert.    *)
CONSTANTS mail, pager, prod
SomeRoutes == { Route(mail, 1, "this", prod), Route(pager, 2, All, All) }

(* What clients ask of a status page: nothing, one new group, a group that *)
(* was there with a new one, two groups whose monitors change.             *)
CONSTANT web
Group(id, ms) == [id |-> id, shows |-> ms]
SomePlans == { <<>>, <<Group(New, {web})>>, <<Group(1, {web}), Group(New, {})>>,
               <<Group(2, {}), Group(1, {web})>> }

(* Bounds: one client edits and adds, the other deletes and adds; what     *)
(* happens once edits, calls that write links or saves of addresses have   *)
(* overlapped or been cut short is not followed, for nothing is stated of  *)
(* it.                                                                     *)
TreeClients == {"editor", "deleter"}

Followed ==
    /\ ~crossed /\ ~torn /\ ~relinked /\ ~crossing /\ ~halfDone
    /\ ~Editing("deleter") /\ stage["editor"] \notin {"delete.kids", "delete.work"}
    /\ Len(work["deleter"]) <= 4

-----------------------------------------------------------------------------
(* Every variable of the part that runs keeps its type.                    *)
TypesOK ==
    CASE part = "stats"      -> TypeOK
      [] part = "cache"      -> CacheTypeOK
      [] part = "tree"       -> TreeTypeOK
      [] part = "expiry"     -> ExpiryTypeOK
      [] part = "federation" -> FederationTypeOK
      [] part = "alert"      -> AlertTypeOK
      [] part = "admins"     -> AdminTypeOK
      [] part = "groups"     -> PageTypeOK
      [] part = "addresses"  -> AddressTypeOK
      [] part = "tabs"       -> BeatsTypeOK
      [] part = "cooldown"   -> CooldownTypeOK
      [] part = "buttons"    -> ButtonsTypeOK
      [] part = "window"     -> WindowTypeOK
      [] part = "handover"   -> HandoverTypeOK
=============================================================================
