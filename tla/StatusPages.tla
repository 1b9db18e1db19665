---------------------------- MODULE StatusPages ----------------------------
(***************************************************************************)
(* Where status pages are found: the slug of each page, the domains that   *)
(* lead to it with their copy in memory, and the entry page of the server, *)
(* which is kept in memory and in a setting.  What a page shows is         *)
(* PageGroups' business, and a save spends a step on it here.              *)
(***************************************************************************)
EXTENDS Integers

CONSTANTS
    Pages,      \* bound: ids given, which are never used twice
    Slugs, Domains,
    Keepers,    \* calls in flight at the same time
    Nowhere     \* no page, no slug; as entry page: the dashboard

ASSUME NowhereAssumption == Nowhere \notin Pages \cup Slugs

VARIABLES
    used,       \* ids given so far
    slug,       \* the row of each page: its slug
    cname,      \* rows of status_page_cname: the page of each domain
    mapping,    \* domainMappingList: the slug of each domain
    entry,      \* server.entryPage
    entrySetting,
    visit,      \* where a call is
    leftOver,   \* history: domains of pages deleted since the list was loaded
    crossing,   \* history: two calls have overlapped
    halfDone    \* history: a call failed after its first store

addressVars == <<used, slug, cname, mapping, entry, entrySetting, visit, leftOver,
                 crossing, halfDone>>

SlugsOrNone == Slugs \cup {Nowhere}

NoVisit == [stage |-> "idle", page |-> Nowhere, was |-> Nowhere, slug |-> Nowhere,
            domains |-> {}, list |-> [d \in Domains |-> Nowhere]]

AddressTypeOK ==
    /\ used \subseteq Pages
    /\ slug \in [Pages -> SlugsOrNone]
    /\ cname \in [Domains -> Pages \cup {Nowhere}]
    /\ mapping \in [Domains -> SlugsOrNone]
    /\ {entry, entrySetting} \subseteq SlugsOrNone
    /\ visit \in [Keepers -> [stage : {"idle", "store", "domains", "load", "list", "groups",
                                       "moved", "remove", "entry"},
                              page : Pages \cup {Nowhere}, was : SlugsOrNone, slug : SlugsOrNone,
                              domains : SUBSET Domains, list : [Domains -> SlugsOrNone]]]
    /\ leftOver \subseteq Domains
    /\ crossing \in BOOLEAN /\ halfDone \in BOOLEAN

AddressInit ==
    /\ used = {}
    /\ slug = [p \in Pages |-> Nowhere]
    /\ cname = [d \in Domains |-> Nowhere]
    /\ mapping = [d \in Domains |-> Nowhere]
    /\ entry = Nowhere /\ entrySetting = Nowhere
    /\ visit = [e \in Keepers |-> NoVisit]
    /\ leftOver = {} /\ crossing = FALSE /\ halfDone = FALSE

-----------------------------------------------------------------------------
Exists(p) == slug[p] # Nowhere

Joined == [d \in Domains |-> IF cname[d] = Nowhere THEN Nowhere ELSE slug[cname[d]]]

(* The slug column is UNIQUE.                                              *)
Free(s, p) == \A q \in Pages \ {p} : slug[q] # s

Enters(e, call) ==
    /\ visit[e].stage = "idle"
    /\ visit' = [visit EXCEPT ![e] = call]
    /\ crossing' = (crossing \/ \E f \in Keepers : visit[f].stage # "idle")

Goes(e, stage) == visit' = [visit EXCEPT ![e].stage = stage]
Leaves(e) == visit' = [visit EXCEPT ![e] = NoVisit]

(* addStatusPage: one INSERT                                               *)
PageAdded(p, s) ==
    /\ p \notin used /\ Free(s, p)
    /\ used' = used \cup {p}
    /\ slug' = [slug EXCEPT ![p] = s]
    /\ UNCHANGED <<cname, mapping, entry, entrySetting, visit, leftOver, crossing, halfDone>>

-----------------------------------------------------------------------------
(* saveStatusPage finds the page by the slug its client knows.             *)
PageSaved(e, p, s, ds) ==
    /\ Exists(p)
    /\ Enters(e, [NoVisit EXCEPT !.stage = "store", !.page = p, !.was = slug[p],
                                  !.slug = s, !.domains = ds])
    /\ UNCHANGED <<used, slug, cname, mapping, entry, entrySetting, leftOver, halfDone>>

PageStored(e) ==
    LET v == visit[e] IN
    /\ v.stage = "store" /\ (v.slug # v.was => Free(v.slug, v.page))
    /\ slug' = IF Exists(v.page) /\ v.slug # v.was
               THEN [slug EXCEPT ![v.page] = v.slug] ELSE slug
    /\ Goes(e, "domains")
    /\ UNCHANGED <<used, cname, mapping, entry, entrySetting, leftOver, crossing, halfDone>>

(* Bug: the list is loaded again only if the domains have changed.          *)
DomainsStored_lazy(e) ==
    LET v == visit[e] IN
    /\ v.stage = "domains" /\ (v.domains = {} \/ Exists(v.page))
    /\ cname' = [d \in Domains |-> IF d \in v.domains THEN v.page
                                   ELSE IF cname[d] = v.page THEN Nowhere ELSE cname[d]]
    /\ Goes(e, IF cname' = cname THEN "groups" ELSE "load")
    /\ UNCHANGED <<used, slug, mapping, entry, entrySetting, leftOver, crossing, halfDone>>

(* updateDomainNameList(): one transaction, which takes the domains from   *)
(* other pages and needs the page to be there.                             *)
DomainsStored(e) ==
    LET v == visit[e] IN
    /\ v.stage = "domains" /\ (v.domains = {} \/ Exists(v.page))
    /\ cname' = [d \in Domains |-> IF d \in v.domains THEN v.page
                                   ELSE IF cname[d] = v.page THEN Nowhere ELSE cname[d]]
    /\ Goes(e, "load")
    /\ UNCHANGED <<used, slug, mapping, entry, entrySetting, leftOver, crossing, halfDone>>

(* loadDomainMappingList(): the query is answered, and the answer kept.    *)
MappingRead(e) ==
    /\ visit[e].stage = "load"
    /\ visit' = [visit EXCEPT ![e].stage = "list", ![e].list = Joined]
    /\ UNCHANGED <<used, slug, cname, mapping, entry, entrySetting, leftOver, crossing, halfDone>>

MappingKept(e) ==
    /\ visit[e].stage = "list"
    /\ mapping' = visit[e].list
    /\ visit' = [visit EXCEPT ![e].stage = "groups", ![e].list = NoVisit.list]
    /\ leftOver' = {}
    /\ UNCHANGED <<used, slug, cname, entry, entrySetting, crossing, halfDone>>

(* The entry page follows its page to the new slug.                        *)
GroupsSaved(e) ==
    LET v == visit[e] IN
    /\ v.stage = "groups"
    /\ IF entry = v.was /\ v.slug # v.was
       THEN entry' = v.slug /\ Goes(e, "moved")
       ELSE Leaves(e) /\ UNCHANGED entry
    /\ UNCHANGED <<used, slug, cname, mapping, entrySetting, leftOver, crossing, halfDone>>

EntryMoved(e) ==
    /\ visit[e].stage = "moved"
    /\ entrySetting' = visit[e].slug
    /\ Leaves(e)
    /\ UNCHANGED <<used, slug, cname, mapping, entry, leftOver, crossing, halfDone>>

-----------------------------------------------------------------------------
(* deleteStatusPage: the page is found by its slug, and the entry page set *)
(* back before anything is deleted.                                        *)
PageDeleted(e, p) ==
    /\ Exists(p)
    /\ Enters(e, [NoVisit EXCEPT !.stage = "remove", !.page = p, !.was = slug[p]])
    /\ entry' = IF entry = slug[p] THEN Nowhere ELSE entry
    /\ entrySetting' = IF entry = slug[p] THEN Nowhere ELSE entrySetting
    /\ UNCHANGED <<used, slug, cname, mapping, leftOver, halfDone>>

(* The row goes, and its domains with it; the list in memory stays.        *)
PageGone(e) ==
    LET p == visit[e].page IN
    /\ visit[e].stage = "remove"
    /\ slug' = [slug EXCEPT ![p] = Nowhere]
    /\ cname' = [d \in Domains |-> IF cname[d] = p THEN Nowhere ELSE cname[d]]
    /\ leftOver' = leftOver \cup {d \in Domains : cname[d] = p}
    /\ Leaves(e)
    /\ UNCHANGED <<used, mapping, entry, entrySetting, crossing, halfDone>>

(* "setSettings" of the settings page: a client chooses the dashboard or a *)
(* page there is.                                                          *)
EntryChosen(e, s) ==
    /\ s = Nowhere \/ \E p \in Pages : slug[p] = s
    /\ Enters(e, [NoVisit EXCEPT !.stage = "entry", !.slug = s])
    /\ entrySetting' = s
    /\ UNCHANGED <<used, slug, cname, mapping, entry, leftOver, halfDone>>

EntryKept(e) ==
    /\ visit[e].stage = "entry"
    /\ entry' = visit[e].slug
    /\ Leaves(e)
    /\ UNCHANGED <<used, slug, cname, mapping, entrySetting, leftOver, crossing, halfDone>>

(* A slug that is not free, a domain of a page that has gone, a statement  *)
(* that is refused.                                                        *)
VisitFails(e) ==
    /\ visit[e].stage # "idle"
    /\ Leaves(e)
    /\ halfDone' = (halfDone \/ visit[e].stage # "store")
    /\ UNCHANGED <<used, slug, cname, mapping, entry, entrySetting, leftOver, crossing>>

(* The next start reads the setting and the domains.                       *)
AddressCrash ==
    /\ entry' = entrySetting /\ mapping' = Joined /\ leftOver' = {}
    /\ visit' = [e \in Keepers |-> NoVisit]
    /\ halfDone' = (halfDone \/ \E e \in Keepers : visit[e].stage \notin {"idle", "store"})
    /\ UNCHANGED <<used, slug, cname, entrySetting, crossing>>

AddressNext ==
    \/ AddressCrash
    \/ \E p \in Pages, s \in Slugs : PageAdded(p, s)
    \/ \E e \in Keepers :
          \/ \E p \in Pages, s \in Slugs, ds \in SUBSET Domains : PageSaved(e, p, s, ds)
          \/ PageStored(e) \/ DomainsStored(e) \/ MappingRead(e) \/ MappingKept(e)
          \/ GroupsSaved(e) \/ EntryMoved(e)
          \/ \E p \in Pages : PageDeleted(e, p)
          \/ PageGone(e)
          \/ \E s \in SlugsOrNone : EntryChosen(e, s)
          \/ EntryKept(e) \/ VisitFails(e)

AddressSpec == AddressInit /\ [][AddressNext]_addressVars

-----------------------------------------------------------------------------
AllAtRest == ~crossing /\ ~halfDone /\ \A e \in Keepers : visit[e].stage = "idle"

(* Between calls that came one after the other and all succeeded, a domain *)
(* leads to the page that has it, under the slug the page has now, through *)
(* renames, moves of the domain and restarts.  The domain of a page that   *)
(* was deleted is held to nothing until the list is loaded again.          *)
DomainLeadsToPage ==
    AllAtRest => \A d \in Domains \ leftOver : mapping[d] = Joined[d]

(* And the entry page, in memory and after a restart, is a page there is.  *)
EntryPageExists ==
    AllAtRest => /\ entry = entrySetting
                 /\ entry = Nowhere \/ \E p \in Pages : slug[p] = entry

(* So every address the instance answers to belongs to a page.             *)
AddressesStand == DomainLeadsToPage /\ EntryPageExists
=============================================================================
