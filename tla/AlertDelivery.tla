--------------------------- MODULE AlertDelivery ---------------------------
(***************************************************************************)
(* Who is told of an alert of one monitor.  An alert reads the monitor's   *)
(* links, the routes of its team, its tags and the notifications one after *)
(* the other, and is then sent to one notification at a time; clients      *)
(* change all of them meanwhile.  Quiet hours are left out: a notification *)
(* is asked to deliver, and may fail.  A new notification is one that has  *)
(* no link and no route yet.                                               *)
(***************************************************************************)
EXTENDS FiniteSets, Integers

CONSTANTS
    Notifications, Tags,
    Severities, \* positions in SEVERITY_ORDER: info, warning, critical
    Routes,     \* the rows there may be of notification_route for the team:
                \* [to, minSeverity, monitor : this, other or all, tag : one or all]
    Handlers    \* client calls in flight at the same time

All == "all"        \* a selector that is null

ASSUME RoutesAssumption ==
    /\ Severities \subseteq 0 .. 2 /\ 2 \in Severities
    /\ Routes \subseteq [to : Notifications, minSeverity : Severities,
                         monitor : {"this", "other", All}, tag : Tags \cup {All}]

VARIABLES
    known,      \* rows of the notification table
    links,      \* how many rows link the monitor to each notification
    routes,     \* rows of notification_route
    tags,       \* tags the monitor carries
    alert,      \* what the alert has read, and whom it has still to tell
    asked,      \* how often each notification was asked to deliver it
    edit,       \* where a client call is
    kept,       \* history: links and routes that have led to the monitor
                \* since the alert began
    seen,       \* history: links, routes and tags that were there meanwhile
    relinked    \* history: two calls that write links have overlapped

tables    == <<known, links, routes, tags>>
alertVars == <<tables, alert, asked, edit, kept, seen, relinked>>

NoAlert == [stage |-> "none", severity |-> 2, static |-> [n \in Notifications |-> 0],
            routes |-> {}, tags |-> {}, list |-> [n \in Notifications |-> 0]]
NoEdit  == [stage |-> "idle", todo |-> {}]
Nothing == [links |-> {}, routes |-> {}]
Unseen  == [links |-> {}, routes |-> {}, tags |-> {}]

Counts == [Notifications -> Nat]

AlertTypeOK ==
    /\ known \subseteq Notifications /\ routes \subseteq Routes /\ tags \subseteq Tags
    /\ links \in Counts /\ asked \in Counts
    /\ alert \in [stage : {"none", "routes", "tags", "targets", "send", "over"},
                  severity : Severities, static : Counts, routes : SUBSET Routes,
                  tags : SUBSET Tags, list : Counts]
    /\ edit \in [Handlers -> [stage : {"idle", "insert", "check", "attach"},
                              todo : SUBSET Notifications]]
    /\ kept \in [links : SUBSET Notifications, routes : SUBSET Routes]
    /\ seen \in [links : SUBSET Notifications, routes : SUBSET Routes, tags : SUBSET Tags]
    /\ relinked \in BOOLEAN

AlertInit ==
    /\ known = Notifications
    /\ links = [n \in Notifications |-> 0]
    /\ routes = {} /\ tags = {}
    /\ alert = NoAlert /\ asked = [n \in Notifications |-> 0]
    /\ edit = [h \in Handlers |-> NoEdit]
    /\ kept = Nothing /\ seen = Unseen
    /\ relinked = FALSE

-----------------------------------------------------------------------------
Linked(n) == n \in known /\ links[n] > 0

MeetsThreshold(severity, r) == severity >= r.minSeverity

(* Every selector that is not null has to hold.                            *)
RouteMatches(r, severity, carried) ==
    /\ MeetsThreshold(severity, r)
    /\ r.monitor \in {"this", All}
    /\ r.tag \in carried \cup {All}

(* Reference definition: what is to be routed here, by exclusion.          *)
LeadsHere(r, severity, carried) ==
    ~ \/ severity < r.minSeverity
      \/ r.monitor = "other"
      \/ r.tag # All /\ r.tag \notin carried

(* History: `tables` have just changed while an alert is going on.  With   *)
(* what changes when it is over it has nothing to do.                      *)
Witness ==
    LET linked == {n \in known' : links'[n] > 0} IN
    IF alert.stage \in {"none", "over"} THEN kept' = Nothing /\ UNCHANGED seen
    ELSE /\ kept' = [links  |-> kept.links \cap linked,
                     routes |-> {r \in kept.routes \cap routes' :
                                     LeadsHere(r, alert.severity, tags')}]
         /\ seen' = [links  |-> seen.links \cup linked,
                     routes |-> seen.routes \cup routes',
                     tags   |-> seen.tags \cup tags']

-----------------------------------------------------------------------------
(* getNotificationList(): a join, with a row for every link.               *)
AlertBegins(s) ==
    LET static == [n \in Notifications |-> IF n \in known THEN links[n] ELSE 0] IN
    /\ alert.stage \in {"none", "over"}
    /\ alert' = [NoAlert EXCEPT !.stage = "routes", !.severity = s, !.static = static]
    /\ asked' = [n \in Notifications |-> 0]
    /\ kept' = [links  |-> {n \in Notifications : Linked(n)},
                routes |-> {r \in routes : LeadsHere(r, s, tags)}]
    /\ seen' = [links |-> {n \in Notifications : Linked(n)}, routes |-> routes, tags |-> tags]
    /\ UNCHANGED <<tables, edit, relinked>>

Sending(list) ==
    [NoAlert EXCEPT !.stage = "send", !.severity = alert.severity, !.list = list]

(* Where no route exists the joined list is taken as it is.                *)
RoutesRead ==
    /\ alert.stage = "routes"
    /\ alert' = IF routes = {}
                THEN Sending(alert.static)
                ELSE [alert EXCEPT !.stage = "tags", !.routes = routes]
    /\ UNCHANGED <<tables, asked, edit, kept, seen, relinked>>

TagsRead ==
    /\ alert.stage = "tags"
    /\ alert' = [alert EXCEPT !.stage = "targets", !.tags = tags]
    /\ UNCHANGED <<tables, asked, edit, kept, seen, relinked>>

Static  == {n \in Notifications : alert.static[n] > 0}
Matched == {r.to : r \in {q \in alert.routes : RouteMatches(q, alert.severity, alert.tags)}}

(* Bug: where routes match, the links are passed over.                     *)
TargetsRead_routedOnly ==
    /\ alert.stage = "targets"
    /\ alert' = IF Matched \subseteq known \cup Static
                THEN Sending([n \in Notifications |->
                                 IF n \in Matched \/ (Matched = {} /\ n \in Static) THEN 1 ELSE 0])
                ELSE NoAlert
    /\ UNCHANGED <<tables, asked, edit, kept, seen, relinked>>

(* resolveNotificationTargets(): each once.  A notification that has been  *)
(* deleted since its route was read makes the alert throw.                 *)
TargetsRead ==
    /\ alert.stage = "targets"
    /\ alert' = IF Matched \subseteq known \cup Static
                THEN Sending([n \in Notifications |-> IF n \in Static \cup Matched THEN 1 ELSE 0])
                ELSE NoAlert
    /\ UNCHANGED <<tables, asked, edit, kept, seen, relinked>>

(* A provider that fails is logged, and the next one asked.                *)
SendTo(n) ==
    /\ alert.stage = "send" /\ alert.list[n] > 0
    /\ alert' = [alert EXCEPT !.list[n] = @ - 1]
    /\ asked' = [asked EXCEPT ![n] = @ + 1]
    /\ UNCHANGED <<tables, edit, kept, seen, relinked>>

Sent ==
    /\ alert.stage = "send" /\ \A n \in Notifications : alert.list[n] = 0
    /\ alert' = [NoAlert EXCEPT !.stage = "over", !.severity = alert.severity]
    /\ UNCHANGED <<tables, asked, edit, kept, seen, relinked>>

(* A read is refused: the beat throws.                                     *)
AlertThrows ==
    /\ alert.stage \in {"routes", "tags", "targets"}
    /\ alert' = NoAlert /\ kept' = Nothing /\ seen' = Unseen
    /\ UNCHANGED <<tables, asked, edit, relinked>>

-----------------------------------------------------------------------------
(* Calls that write links: a save of the monitor, which replaces them all, *)
(* and a save of a notification or the adding of a tag, which attach one.  *)
Begun(h, stage, ns) ==
    /\ edit[h].stage = "idle"
    /\ edit' = [edit EXCEPT ![h] = [stage |-> stage, todo |-> ns]]
    /\ relinked' = (relinked \/ \E g \in Handlers : edit[g].stage # "idle")

Idled(h) == edit' = [edit EXCEPT ![h] = NoEdit]

(* updateMonitorNotification() deletes all links, and then inserts those   *)
(* that are wanted, one by one.                                            *)
LinksDeleted(h, ns) ==
    /\ Begun(h, "insert", ns)
    /\ links' = [n \in Notifications |-> 0]
    /\ UNCHANGED <<known, routes, tags, alert, asked>>
    /\ Witness

LinkInserted(h, n) ==
    /\ edit[h].stage \in {"insert", "attach"} /\ n \in edit[h].todo /\ n \in known
    /\ links' = [links EXCEPT ![n] = @ + 1]
    /\ IF edit[h].todo = {n} THEN Idled(h) ELSE edit' = [edit EXCEPT ![h].todo = @ \ {n}]
    /\ UNCHANGED <<known, routes, tags, alert, asked, relinked>>
    /\ Witness

LinksWritten(h) ==
    /\ edit[h].stage = "insert" /\ edit[h].todo = {}
    /\ Idled(h)
    /\ UNCHANGED <<tables, alert, asked, kept, seen, relinked>>

(* A notification that is not there any more, a statement that is refused: *)
(* the call ends, and the links not yet inserted are not.                  *)
EditFails(h) ==
    /\ edit[h].stage # "idle"
    /\ Idled(h)
    /\ UNCHANGED <<tables, alert, asked, kept, seen, relinked>>

(* applyNotificationEveryMonitor(), ensureLink(): look, and insert.        *)
AttachCall(h, n) ==
    /\ n \in known
    /\ Begun(h, "check", {n})
    /\ UNCHANGED <<tables, alert, asked, kept, seen>>

AttachChecked(h) ==
    /\ edit[h].stage = "check"
    /\ IF \E n \in edit[h].todo : Linked(n)
       THEN Idled(h) ELSE edit' = [edit EXCEPT ![h].stage = "attach"]
    /\ UNCHANGED <<tables, alert, asked, kept, seen, relinked>>

-----------------------------------------------------------------------------
(* Single statements.  What refers to a notification goes with it.         *)
NotificationDeleted(n) ==
    /\ n \in known
    /\ known' = known \ {n}
    /\ links' = [links EXCEPT ![n] = 0]
    /\ routes' = {r \in routes : r.to # n}
    /\ UNCHANGED <<tags, alert, asked, edit, relinked>>
    /\ Witness

RouteCreated(r) ==
    /\ r.to \in known
    /\ routes' = routes \cup {r}
    /\ UNCHANGED <<known, links, tags, alert, asked, edit, relinked>>
    /\ Witness

RouteDeleted(r) ==
    /\ routes' = routes \ {r}
    /\ UNCHANGED <<known, links, tags, alert, asked, edit, relinked>>
    /\ Witness

TagsEdited(ts) ==
    /\ tags' = ts
    /\ UNCHANGED <<known, links, routes, alert, asked, edit, relinked>>
    /\ Witness

AlertStep ==
    \/ RoutesRead \/ TagsRead \/ TargetsRead \/ Sent \/ AlertThrows
    \/ \E n \in Notifications : SendTo(n)

EditStep(h) ==
    \/ \E n \in Notifications : LinkInserted(h, n)
    \/ LinksWritten(h) \/ EditFails(h) \/ AttachChecked(h)

AlertNext ==
    \/ \E s \in Severities : AlertBegins(s)
    \/ AlertStep
    \/ \E h \in Handlers :
          \/ EditStep(h)
          \/ \E ns \in SUBSET Notifications : LinksDeleted(h, ns)
          \/ \E n \in Notifications : AttachCall(h, n)
    \/ \E n \in Notifications : NotificationDeleted(n)
    \/ \E r \in Routes : RouteCreated(r) \/ RouteDeleted(r)
    \/ \E t \in Tags : TagsEdited(tags \cup {t}) \/ TagsEdited(tags \ {t})

AlertSpec == AlertInit /\ [][AlertNext]_alertVars

-----------------------------------------------------------------------------
(* Whatever is being changed meanwhile, an alert that is over has been     *)
(* sent through every notification that was linked all the time and every  *)
(* one that the same route led to all the time.                            *)
NobodyForgotten ==
    alert.stage = "over" =>
        \A n \in kept.links \cup {r.to : r \in kept.routes} : asked[n] > 0

(* Linked, routed to by several routes, or both: "deduplicated".  Calls    *)
(* that write links and overlap may link a notification twice.             *)
AskedOnce == ~relinked => \A n \in Notifications : asked[n] <= 1

(* No notification is sent an alert it was at no time linked to and that   *)
(* no route, with the tags there were, led to.                             *)
NobodyElse ==
    \A n \in Notifications :
        asked[n] > 0 => \/ n \in seen.links
                       \/ \E r \in seen.routes :
                             r.to = n /\ LeadsHere(r, alert.severity, seen.tags)

(* So an alert reaches, once, exactly those it is for.                     *)
AlertIsExact == NobodyForgotten /\ AskedOnce /\ NobodyElse
=============================================================================
