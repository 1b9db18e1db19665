----------------------------- MODULE PageGroups -----------------------------
(***************************************************************************)
(* The groups of monitors a status page shows.  saveStatusPage replaces    *)
(* them statement by statement: each group is stored, emptied and filled   *)
(* again, and in the end the groups that are not in its list are deleted.  *)
(* Other saves and the deletion of the page go on meanwhile, statements    *)
(* are refused, the server crashes.  What else a save stores is            *)
(* StatusPages' business.                                                  *)
(***************************************************************************)
EXTENDS Integers, Sequences

CONSTANTS
    Shown,      \* monitors
    MaxGroups,  \* bound: ids given, which are never used twice
    Plans,      \* the lists of groups clients send, each [id, shows]
    Editors     \* calls in flight at the same time

New == 0        \* a group that has no id yet

ASSUME PlansAssumption ==
    /\ MaxGroups \in Nat
    /\ \A plan \in Plans : plan \in Seq([id : 0 .. MaxGroups, shows : SUBSET Shown])
    /\ \A plan \in Plans : \A i, j \in DOMAIN plan :   \* a list names a group once
          plan[i].id = plan[j].id => i = j \/ plan[i].id = New

VARIABLES
    page,       \* the row of the status page is there
    lastGroup,  \* ids given so far
    groupRows,  \* rows of the group table that belong to the page
    shows,      \* how many rows of monitor_group each of them has for a monitor
    save,       \* where a call is
    intact,     \* history: nothing has overlapped with the call
    removing    \* history: a deletion of the page has overlapped with a save

pageVars == <<page, lastGroup, groupRows, shows, save, intact, removing>>

Groups == 1 .. MaxGroups

(* kept: the groups stored so far; todo: monitors still to be put in the   *)
(* last of them.                                                           *)
NoSave == [stage |-> "idle", plan |-> <<>>, kept |-> <<>>, todo |-> {}]

PageTypeOK ==
    /\ page \in BOOLEAN
    /\ lastGroup \in 0 .. MaxGroups
    /\ groupRows \subseteq 1 .. lastGroup
    /\ shows \in [Groups -> [Shown -> Nat]]
    /\ \A e \in Editors :
          /\ save[e].stage \in {"idle", "group", "empty", "fill", "remove"}
          /\ save[e].plan \in Plans \cup {<<>>}
          /\ save[e].kept \in Seq(Groups) /\ Len(save[e].kept) <= Len(save[e].plan)
          /\ save[e].todo \subseteq Shown
    /\ intact \in [Editors -> BOOLEAN]
    /\ removing \in BOOLEAN

Empty == [m \in Shown |-> 0]

PageInit ==
    /\ page = TRUE
    /\ lastGroup = 0 /\ groupRows = {}
    /\ shows = [g \in Groups |-> Empty]
    /\ save = [e \in Editors |-> NoSave]
    /\ intact = [e \in Editors |-> FALSE]
    /\ removing = FALSE

-----------------------------------------------------------------------------
Ready(e) == save[e].stage = "idle"

(* A call begins: it overlaps with all that are going on.                  *)
BeginsSave(e, call) ==
    /\ Ready(e)
    /\ save' = [save EXCEPT ![e] = call]
    /\ intact' = [d \in Editors |-> d = e /\ \A f \in Editors : Ready(f)]
    /\ removing' = (removing \/ \E d \in Editors :
                       ~Ready(d) /\ "remove" \in {call.stage, save[d].stage})

(* The page has been found; a group the client names was there when the    *)
(* client last looked.                                                     *)
SaveCalled(e, plan) ==
    /\ page
    /\ \A i \in DOMAIN plan : plan[i].id <= lastGroup
    /\ BeginsSave(e, [NoSave EXCEPT !.stage = "group", !.plan = plan])
    /\ UNCHANGED <<page, lastGroup, groupRows, shows>>

Wanted(e) == save[e].plan[Len(save[e].kept) + 1]
MoreGroups(e) == Len(save[e].kept) < Len(save[e].plan)

Kept(e, g) ==
    save' = [save EXCEPT ![e].stage = "empty", ![e].kept = Append(@, g),
                         ![e].todo = Wanted(e).shows]

(* A group is found and stored (here in one step), or inserted.            *)
GroupStored(e) ==
    /\ save[e].stage = "group" /\ MoreGroups(e)
    /\ IF Wanted(e).id = New
       THEN /\ lastGroup < MaxGroups
            /\ lastGroup' = lastGroup + 1
            /\ groupRows' = groupRows \cup {lastGroup'}
            /\ Kept(e, lastGroup')
       ELSE /\ Wanted(e).id \in groupRows
            /\ Kept(e, Wanted(e).id)
            /\ UNCHANGED <<lastGroup, groupRows>>
    /\ UNCHANGED <<page, shows, intact, removing>>

Current(e) == save[e].kept[Len(save[e].kept)]

Filled(e) == IF save[e].todo = {} THEN "group" ELSE "fill"

(* Bug: what the group has shown is kept.                                  *)
GroupEmptied_kept(e) ==
    /\ save[e].stage = "empty"
    /\ save' = [save EXCEPT ![e].stage = Filled(e)]
    /\ UNCHANGED <<page, lastGroup, groupRows, shows, intact, removing>>

GroupEmptied(e) ==
    /\ save[e].stage = "empty"
    /\ shows' = [shows EXCEPT ![Current(e)] = Empty]
    /\ save' = [save EXCEPT ![e].stage = Filled(e)]
    /\ UNCHANGED <<page, lastGroup, groupRows, intact, removing>>

(* The monitors of a group follow, their order left out; none can be put  *)
(* in a group that has gone.                                               *)
MonitorShown(e, m) ==
    /\ save[e].stage = "fill" /\ m \in save[e].todo
    /\ Current(e) \in groupRows
    /\ shows' = [shows EXCEPT ![Current(e)][m] = @ + 1]
    /\ save' = [save EXCEPT ![e].todo = @ \ {m},
                            ![e].stage = IF save[e].todo = {m} THEN "group" ELSE "fill"]
    /\ UNCHANGED <<page, lastGroup, groupRows, intact, removing>>

(* Rows of monitor_group go with their group.                              *)
Dropped(gs) ==
    /\ groupRows' = groupRows \ gs
    /\ shows' = [g \in Groups |-> IF g \in gs THEN Empty ELSE shows[g]]

Ended(e) ==
    /\ save' = [save EXCEPT ![e] = NoSave]
    /\ UNCHANGED <<intact, removing>>

InList(e) == {save[e].kept[i] : i \in DOMAIN save[e].kept}

(* Delete groups that are not in the list; the client is answered.         *)
OthersDropped(e) ==
    /\ save[e].stage = "group" /\ ~MoreGroups(e)
    /\ Dropped(groupRows \ InList(e))
    /\ Ended(e)
    /\ UNCHANGED <<page, lastGroup>>

(* A group that is not found any more, a statement that is refused.        *)
SaveFails(e) ==
    /\ ~Ready(e)
    /\ Ended(e)
    /\ UNCHANGED <<page, lastGroup, groupRows, shows>>

-----------------------------------------------------------------------------
(* Bug: the groups are left to a reference that is not there.              *)
RemoveCalled_rowOnly(e) ==
    /\ page
    /\ BeginsSave(e, [NoSave EXCEPT !.stage = "remove"])
    /\ UNCHANGED <<page, lastGroup, groupRows, shows>>

(* deleteStatusPage: the groups first (the table has no reference to the   *)
(* page), then the row.                                                    *)
RemoveCalled(e) ==
    /\ page
    /\ BeginsSave(e, [NoSave EXCEPT !.stage = "remove"])
    /\ Dropped(groupRows)
    /\ UNCHANGED <<page, lastGroup>>

PageRemoved(e) ==
    /\ save[e].stage = "remove"
    /\ page' = FALSE
    /\ Ended(e)
    /\ UNCHANGED <<lastGroup, groupRows, shows>>

PageCrash ==
    /\ save' = [e \in Editors |-> NoSave]
    /\ intact' = [e \in Editors |-> FALSE]
    /\ UNCHANGED <<page, lastGroup, groupRows, shows, removing>>

PageNext ==
    \/ PageCrash
    \/ \E e \in Editors :
          \/ \E plan \in Plans : SaveCalled(e, plan)
          \/ GroupStored(e) \/ GroupEmptied(e) \/ \E m \in Shown : MonitorShown(e, m)
          \/ OthersDropped(e) \/ SaveFails(e)
          \/ RemoveCalled(e) \/ PageRemoved(e)

PageSpec == PageInit /\ [][PageNext]_pageVars

-----------------------------------------------------------------------------
(* A save that is answered and that nothing overlapped has made the page   *)
(* what its client asked for: its groups are those of the list and each    *)
(* shows its monitors once, whatever saves that overlapped, failed or were *)
(* cut off by a crash had left of it.                                      *)
SavedAsAsked ==
    [][\A e \in Editors :
          OthersDropped(e) /\ intact[e] =>
              LET plan == save[e].plan  kept == save[e].kept
              IN /\ groupRows' = {kept[i] : i \in DOMAIN plan}
                 /\ \A i \in DOMAIN plan :
                       shows'[kept[i]] = [m \in Shown |-> IF m \in plan[i].shows THEN 1 ELSE 0]
      ]_pageVars

(* "For incident & group, it is hard to add cascade foreign key during     *)
(* migration, so they have to be deleted manually": no group outlives its  *)
(* page, unless a save was going on while the page was deleted.            *)
NoOrphanGroups == ~page /\ ~removing => groupRows = {}
=============================================================================
