---------------------------- MODULE MonitorTree ----------------------------
(***************************************************************************)
(* The tree of monitors: which group each monitor is in.  Adding, editing  *)
(* and deleting walk the tree row by row; between two reads or writes the  *)
(* calls of other clients go on.  What these calls do to the running beats *)
(* is MonitorLifecycle's business.                                         *)
(*                                                                         *)
(* The database keeps references whole: a parent that is stored exists,    *)
(* and the children of a row that is deleted have none (ON DELETE SET      *)
(* NULL).  A client offers as parent a group other than the monitor.       *)
(***************************************************************************)
EXTENDS Integers, SequencesExt

CONSTANTS
    MaxMonitors,    \* bound: ids given, which are never used twice
    Clients         \* calls in flight at the same time

ASSUME MaxMonitorsAssumption == MaxMonitors \in Nat

VARIABLES
    lastId,     \* ids given so far
    exists,     \* rows of the monitor table
    parent,     \* its parent column
    groups,     \* rows whose type is "group"
    stage,      \* where a client's call is
    call,       \* what it was asked and what it has loaded
    unread,     \* monitors whose children an edit has still to read
    descendants,\* what the edit has found below the monitor
    work,       \* a deletion's stack: rows to visit and rows to drop
    crossed,    \* history: an edit or an add came while an edit was going on
    torn,       \* history: an edit threw between its store and the unlinking
    alone,      \* history: nothing has overlapped with a deletion, and
                \* before it no edits
    spared      \* history: what that deletion is to leave of the table

Monitors == 1 .. MaxMonitors
Top      == 0               \* no parent

rowsOfTree == <<lastId, exists, parent, groups>>
walks      == <<stage, call, unread, descendants, work>>
treeVars   == <<rowsOfTree, walks, crossed, torn, alone, spared>>

NoCall == [id |-> Top, to |-> Top, toGroup |-> FALSE, from |-> Top, wasGroup |-> FALSE]

Visit(m) == [op |-> "visit", id |-> m]
DropRow(m) == [op |-> "drop", id |-> m]

Call == [id : Monitors \cup {Top}, to : Monitors \cup {Top}, toGroup : BOOLEAN,
         from : Monitors \cup {Top}, wasGroup : BOOLEAN]

RowsAndEditsOK ==
    /\ lastId \in 0 .. MaxMonitors /\ exists \subseteq 1 .. lastId
    /\ parent \in [Monitors -> Monitors \cup {Top}]
    /\ groups \subseteq exists
    /\ stage \in [Clients -> {"idle", "edit.walk", "edit.store", "edit.unlink",
                              "delete.kids", "delete.work"}]
    /\ call \in [Clients -> Call]
    /\ unread \in [Clients -> SUBSET Monitors]
    /\ descendants \in [Clients -> SUBSET Monitors]
    /\ crossed \in BOOLEAN

TreeTypeOK ==
    /\ RowsAndEditsOK
    /\ work \in [Clients -> Seq([op : {"visit", "drop"}, id : Monitors])]
    /\ torn \in BOOLEAN /\ alone \in [Clients -> BOOLEAN]
    /\ spared \in [Clients -> SUBSET Monitors]

TreeInit ==
    /\ lastId = 0 /\ exists = {} /\ groups = {}
    /\ parent = [m \in Monitors |-> Top]
    /\ stage = [c \in Clients |-> "idle"]
    /\ call = [c \in Clients |-> NoCall]
    /\ unread = [c \in Clients |-> {}]
    /\ descendants = [c \in Clients |-> {}]
    /\ work = [c \in Clients |-> <<>>]
    /\ crossed = FALSE /\ torn = FALSE
    /\ alone = [c \in Clients |-> FALSE]
    /\ spared = [c \in Clients |-> {}]

-----------------------------------------------------------------------------
Children(m) == {k \in exists : parent[k] = m}

(* Reference definitions: no set of rows is closed under `parent`, that is *)
(* to say, there is no cycle; and the rows every way up from which meets m.*)
Acyclic == \A S \in SUBSET exists : S # {} => \E k \in S : parent[k] \notin S

Below(m) ==
    {k \in exists \ {m} :
        \A S \in SUBSET exists :
            k \in S /\ (\A x \in S : parent[x] \in S \cup {Top}) => m \in S}

Editing(c) == stage[c] \in {"edit.walk", "edit.store", "edit.unlink"}
GoOn(c, where) == stage' = [stage EXCEPT ![c] = where]

(* History: a change of the tree overlaps with all deletions but its own.  *)
Overlap(own) ==
    /\ alone' = [d \in Clients |-> d \in own /\ alone[d]]
    /\ spared' = [d \in Clients |-> IF d \in own THEN spared[d] ELSE {}]

Unlinked(m) == [k \in Monitors |-> IF parent[k] = m THEN Top ELSE parent[k]]

-----------------------------------------------------------------------------
(* "add": one INSERT; the parent was looked up first.                      *)
AddMonitor(c, m, p, g) ==
    /\ stage[c] = "idle" /\ m = lastId + 1
    /\ p \in groups \cup {Top}
    /\ lastId' = m /\ exists' = exists \cup {m}
    /\ groups' = IF g THEN groups \cup {m} ELSE groups
    /\ parent' = [parent EXCEPT ![m] = p]
    /\ crossed' = (crossed \/ \E d \in Clients : Editing(d))
    /\ Overlap({c})
    /\ UNCHANGED <<walks, torn>>

(* "editMonitor" loads the row.  A monitor that is to have a parent is     *)
(* looked for among the new parent's ancestors, from above.                *)
EditMonitor(c, m, p, g) ==
    /\ stage[c] = "idle" /\ m \in exists
    /\ p \in (groups \cup {Top}) \ {m}
    /\ call' = [call EXCEPT ![c] = [id |-> m, to |-> p, toGroup |-> g, from |-> parent[m],
                                    wasGroup |-> m \in groups]]
    /\ unread' = [unread EXCEPT ![c] = IF p = Top THEN {} ELSE {m}]
    /\ GoOn(c, IF p = Top THEN "edit.store" ELSE "edit.walk")
    /\ crossed' = (crossed \/ \E d \in Clients : Editing(d))
    /\ UNCHANGED <<rowsOfTree, descendants, work, torn, alone, spared>>

(* getAllChildrenIDs(), one getChildren() at a time.                       *)
ReadChildren(c, m) ==
    /\ stage[c] = "edit.walk" /\ m \in unread[c]
    /\ unread' = [unread EXCEPT ![c] = (@ \ {m}) \cup Children(m)]
    /\ descendants' = [descendants EXCEPT ![c] = @ \cup Children(m)]
    /\ UNCHANGED <<rowsOfTree, stage, call, work, crossed, torn, alone, spared>>

EndCall(c) ==
    /\ GoOn(c, "idle")
    /\ call' = [call EXCEPT ![c] = NoCall]
    /\ unread' = [unread EXCEPT ![c] = {}]
    /\ descendants' = [descendants EXCEPT ![c] = {}]
    /\ work' = [work EXCEPT ![c] = <<>>]

(* Bug: only the children are looked at, not what is below them.           *)
WalkEnds_shallow(c) ==
    /\ stage[c] = "edit.walk" /\ unread[c] # {call[c].id}
    /\ IF call[c].to \in descendants[c]
       THEN EndCall(c)
       ELSE GoOn(c, "edit.store") /\ UNCHANGED <<call, unread, descendants, work>>
    /\ UNCHANGED <<rowsOfTree, crossed, torn, alone, spared>>

(* Bug: the parent is stored whatever the walk has found.                  *)
WalkEnds_anyway(c) ==
    /\ stage[c] = "edit.walk" /\ unread[c] = {}
    /\ GoOn(c, "edit.store")
    /\ UNCHANGED <<call, unread, descendants, work, rowsOfTree, crossed, torn, alone, spared>>

(* "Invalid Monitor Group", or the answer that the parent may be stored.   *)
WalkEnds(c) ==
    /\ stage[c] = "edit.walk" /\ unread[c] = {}
    /\ IF call[c].to \in descendants[c]
       THEN EndCall(c)
       ELSE GoOn(c, "edit.store") /\ UNCHANGED <<call, unread, descendants, work>>
    /\ UNCHANGED <<rowsOfTree, crossed, torn, alone, spared>>

(* R.store() writes the fields that are not those of the bean it loaded,   *)
(* and a parent that has gone is refused.                                  *)
EditRefused(c) ==
    LET e == call[c] IN e.id \in exists /\ e.to # e.from /\ e.to \notin exists \cup {Top}

EditTreeStored(c) ==
    LET e == call[c] IN
    /\ stage[c] = "edit.store" /\ ~EditRefused(c)
    /\ parent' = IF e.id \in exists /\ e.to # e.from
                 THEN [parent EXCEPT ![e.id] = e.to] ELSE parent
    /\ groups' = IF e.id \notin exists \/ e.toGroup = e.wasGroup THEN groups
                 ELSE IF e.toGroup THEN groups \cup {e.id} ELSE groups \ {e.id}
    /\ IF e.wasGroup /\ ~e.toGroup
       THEN GoOn(c, "edit.unlink") /\ UNCHANGED <<call, unread, descendants, work>>
       ELSE EndCall(c)
    /\ Overlap({c})
    /\ UNCHANGED <<lastId, exists, crossed, torn>>

(* Another field does not validate, or a statement is refused.             *)
EditThrows(c) ==
    /\ Editing(c)
    /\ EndCall(c)
    /\ torn' = (torn \/ stage[c] = "edit.unlink")
    /\ UNCHANGED <<rowsOfTree, crossed, alone, spared>>

(* Bug: what was a group stays the parent of what was in it.               *)
UnlinkAllChildren_kept(c) ==
    /\ stage[c] = "edit.unlink"
    /\ EndCall(c)
    /\ Overlap({c})
    /\ UNCHANGED <<rowsOfTree, crossed, torn>>

UnlinkAllChildren(c) ==
    /\ stage[c] = "edit.unlink"
    /\ parent' = Unlinked(call[c].id)
    /\ EndCall(c)
    /\ Overlap({c})
    /\ UNCHANGED <<lastId, exists, groups, crossed, torn>>

-----------------------------------------------------------------------------
(* deleteMonitorRecursively() finds the row and reads its children (here   *)
(* in one step): the children first, each with what is below it.           *)
Opened(m) ==
    IF m \in groups \cap exists
    THEN Append([i \in 1 .. Cardinality(Children(m)) |-> Visit(SetToSeq(Children(m))[i])],
                DropRow(m))
    ELSE <<DropRow(m)>>

(* "deleteMonitor", with the children or, by default, without.             *)
DeleteTree(c, m, deep) ==
    /\ stage[c] = "idle" /\ m \in exists
    /\ GoOn(c, IF m \in groups /\ ~deep THEN "delete.kids" ELSE "delete.work")
    /\ call' = [call EXCEPT ![c].id = m]
    /\ work' = [work EXCEPT ![c] = IF deep THEN Opened(m) ELSE <<DropRow(m)>>]
    /\ alone' = [alone EXCEPT ![c] =
                     ~crossed /\ ~torn /\ \A d \in Clients : stage[d] = "idle"]
    /\ spared' = [spared EXCEPT ![c] =
                     IF alone'[c] THEN exists \ ({m} \cup IF deep THEN Below(m) ELSE {})
                     ELSE {}]
    /\ UNCHANGED <<rowsOfTree, unread, descendants, crossed, torn>>

KidsUnlinked(c) ==
    /\ stage[c] = "delete.kids"
    /\ parent' = Unlinked(call[c].id)
    /\ GoOn(c, "delete.work")
    /\ Overlap({c})
    /\ UNCHANGED <<lastId, exists, groups, call, unread, descendants, work, crossed, torn>>

(* Bug: a group inside a group is taken for a monitor.                     *)
VisitRow_flat(c) ==
    /\ stage[c] = "delete.work" /\ Head(work[c]).op = "visit"
    /\ work' = [work EXCEPT ![c] = <<DropRow(Head(@).id)>> \o Tail(@)]
    /\ UNCHANGED <<rowsOfTree, stage, call, unread, descendants, crossed, torn, alone, spared>>

VisitRow(c) ==
    /\ stage[c] = "delete.work" /\ Head(work[c]).op = "visit"
    /\ work' = [work EXCEPT ![c] = Opened(Head(@).id) \o Tail(@)]
    /\ UNCHANGED <<rowsOfTree, stage, call, unread, descendants, crossed, torn, alone, spared>>

(* The row goes, and with it the references to it.                         *)
DropVisited(c) ==
    LET m == Head(work[c]).id IN
    /\ stage[c] = "delete.work" /\ Head(work[c]).op = "drop"
    /\ exists' = exists \ {m} /\ groups' = groups \ {m}
    /\ parent' = [Unlinked(m) EXCEPT ![m] = Top]
    /\ IF Len(work[c]) = 1
       THEN EndCall(c) /\ Overlap({})
       ELSE /\ work' = [work EXCEPT ![c] = Tail(@)]
            /\ UNCHANGED <<stage, call, unread, descendants>>
            /\ Overlap({c})
    /\ UNCHANGED <<lastId, crossed, torn>>

DeleteThrows(c) ==
    /\ stage[c] \in {"delete.kids", "delete.work"}
    /\ EndCall(c)
    /\ alone' = [alone EXCEPT ![c] = FALSE]
    /\ spared' = [spared EXCEPT ![c] = {}]
    /\ UNCHANGED <<rowsOfTree, crossed, torn>>

TreeStep(c) ==
    \/ \E m \in Monitors : ReadChildren(c, m)
    \/ WalkEnds(c) \/ EditTreeStored(c) \/ EditThrows(c) \/ UnlinkAllChildren(c)
    \/ KidsUnlinked(c) \/ VisitRow(c) \/ DropVisited(c) \/ DeleteThrows(c)

TreeNext ==
    \E c \in Clients :
        \/ TreeStep(c)
        \/ \E m \in Monitors, p \in Monitors \cup {Top}, g \in BOOLEAN :
              AddMonitor(c, m, p, g) \/ EditMonitor(c, m, p, g)
        \/ \E m \in Monitors, deep \in BOOLEAN : DeleteTree(c, m, deep)

TreeSpec == TreeInit /\ [][TreeNext]_treeVars

(* A statement is answered or refused in the end.                          *)
TreeFairness == \A c \in Clients : WF_treeVars(TreeStep(c))

-----------------------------------------------------------------------------
(* "Check if Parent is Descendant (would cause endless loop)": unless two  *)
(* edits, or an edit and an add, overlap, no monitor is among the monitors *)
(* above it, whatever is being deleted while the check reads the tree.     *)
Forest == ~crossed => Acyclic

(* When all calls have ended, a parent is a group that exists, unless edits*)
(* overlapped or one stopped half-way.                                     *)
ParentIsGroup ==
    ~crossed /\ ~torn /\ (\A c \in Clients : stage[c] = "idle")
        => \A m \in exists : parent[m] \in (groups \cap exists) \cup {Top}

(* A deletion that nothing overlaps leaves the rows it ought to: with the  *)
(* children, everything below the group goes and nothing else; without,    *)
(* the one row.                                                            *)
DeletionIsExact ==
    [][\A c \in Clients :
          stage[c] = "delete.work" /\ work'[c] = <<>> /\ alone[c]
              => exists' = spared[c] \/ DeleteThrows(c)]_treeVars

(* The walks come to an end: that of an edit, unless edits overlap, and    *)
(* that of a deletion, unless the tree is changed meanwhile.               *)
TreeCallsEnd ==
    \A c \in Clients :
        /\ []<>(~Editing(c) \/ crossed)
        /\ []<>(stage[c] # "delete.work" \/ ~alone[c] \/ crossed)
=============================================================================
