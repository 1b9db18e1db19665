--------------------------- MODULE Administrators ---------------------------
(***************************************************************************)
(* The superadmins: setUserSuperadmin and deleteUser, statement by         *)
(* statement.  Accounts are active, for no handler makes one inactive, and *)
(* a new account is nobody's administrator.  Who calls is left out: the    *)
(* checks of the caller only make fewer calls possible.                    *)
(***************************************************************************)
EXTENDS FiniteSets, Integers

CONSTANTS
    Users,
    Managers,   \* calls in flight at the same time
    Nobody

ASSUME NobodyAssumption == Nobody \notin Users

VARIABLES
    users,      \* rows of the user table
    admins,     \* those with is_superadmin
    doing,      \* where a call is
    target,     \* the user it is about
    deleting    \* history: a call has overlapped with a deletion

adminVars == <<users, admins, doing, target, deleting>>

AdminTypeOK ==
    /\ users \subseteq Users /\ admins \subseteq users
    /\ doing \in [Managers -> {"idle", "promote", "demote", "count", "trash"}]
    /\ target \in [Managers -> Users \cup {Nobody}]
    /\ deleting \in BOOLEAN

(* The first account is the superadmin setup creates.                      *)
AdminInit ==
    /\ \E u \in Users : users = {u} /\ admins = {u}
    /\ doing = [c \in Managers |-> "idle"]
    /\ target = [c \in Managers |-> Nobody]
    /\ deleting = FALSE

-----------------------------------------------------------------------------
AtRest(c) == doing[c] = "idle"
Deletes(c) == doing[c] \in {"count", "trash"}

(* The row has been loaded, and the call goes on from what it says.        *)
Loads(c, u, next) ==
    /\ AtRest(c) /\ u \in users
    /\ doing' = [doing EXCEPT ![c] = next]
    /\ target' = [target EXCEPT ![c] = u]
    /\ deleting' = (deleting \/ \E d \in Managers :
                                   ~AtRest(d) /\ (Deletes(d) \/ next \in {"count", "trash"}))
    /\ UNCHANGED <<users, admins>>

Ends(c) ==
    /\ doing' = [doing EXCEPT ![c] = "idle"]
    /\ target' = [target EXCEPT ![c] = Nobody]
    /\ UNCHANGED deleting

AddUser(u) ==
    /\ users' = users \cup {u}
    /\ UNCHANGED <<admins, doing, target, deleting>>

PromoteUser(c, u) == Loads(c, u, "promote")

(* R.store() of a row that has gone changes nothing.                       *)
PromoteStored(c) ==
    /\ doing[c] = "promote"
    /\ admins' = admins \cup ({target[c]} \cap users)
    /\ Ends(c)
    /\ UNCHANGED users

(* Of a user that is no superadmin there is nothing to take away.          *)
DemoteUser(c, u) == u \in admins /\ Loads(c, u, "demote")

(* Bug: the others were counted when the row was loaded.                   *)
DemoteUpdated_counted(c) ==
    /\ doing[c] = "demote"
    /\ admins' = admins \ {target[c]}
    /\ Ends(c)
    /\ UNCHANGED users

(* "Atomic conditional demotion": the guard is part of the UPDATE.         *)
DemoteUpdated(c) ==
    /\ doing[c] = "demote"
    /\ admins' = IF admins \ {target[c]} # {} THEN admins \ {target[c]} ELSE admins
    /\ Ends(c)
    /\ UNCHANGED users

(* The count is needed for a superadmin only.                              *)
DeleteUser(c, u) == Loads(c, u, IF u \in admins THEN "count" ELSE "trash")

Counted(c) ==
    /\ doing[c] = "count"
    /\ IF admins \ {target[c]} = {}
       THEN Ends(c)
       ELSE doing' = [doing EXCEPT ![c] = "trash"] /\ UNCHANGED <<target, deleting>>
    /\ UNCHANGED <<users, admins>>

(* Bug: the flag of a deleted account is kept.                             *)
Trashed_flagKept(c) ==
    /\ doing[c] = "trash"
    /\ users' = users \ {target[c]}
    /\ Ends(c)
    /\ UNCHANGED admins

Trashed(c) ==
    /\ doing[c] = "trash"
    /\ users' = users \ {target[c]} /\ admins' = admins \ {target[c]}
    /\ Ends(c)

(* A statement is refused.                                                 *)
AdminCallFails(c) ==
    /\ ~AtRest(c)
    /\ Ends(c)
    /\ UNCHANGED <<users, admins>>

AdminNext ==
    \/ \E u \in Users : AddUser(u)
    \/ \E c \in Managers :
          \/ \E u \in Users : PromoteUser(c, u) \/ DemoteUser(c, u) \/ DeleteUser(c, u)
          \/ PromoteStored(c) \/ DemoteUpdated(c) \/ Counted(c) \/ Trashed(c)
          \/ AdminCallFails(c)

AdminSpec == AdminInit /\ [][AdminNext]_adminVars

-----------------------------------------------------------------------------
(* "Refuses to demote the last remaining active superadmin", "refuses to   *)
(* delete the last remaining active superadmin": however many promotions   *)
(* and demotions overlap, somebody can manage the instance; a deletion     *)
(* holds to it as long as no other call overlaps with it.                  *)
SomebodyManages == ~deleting => admins # {}
=============================================================================
