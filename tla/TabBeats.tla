----------------------------- MODULE TabBeats -----------------------------
(***************************************************************************)
(* The heartbeats of one monitor that the tabs of a browser show.  A tab   *)
(* that logs in joins the room of its team, is sent what the table has,    *)
(* and every beat after; a beat is sent to the room before it is stored.   *)
(* Tabs lose their connection and come back, the table is cleared, the     *)
(* server crashes.                                                         *)
(***************************************************************************)
EXTENDS Integers, SequencesExt

CONSTANTS
    Tabs,
    MaxBeats,   \* bound: beats of a behaviour
    Limit,      \* rows a tab is sent when it logs in (100 in the code)
    Full         \* a list this long loses its oldest beat (150 in the code)

ASSUME LimitsAssumption == {MaxBeats, Limit, Full} \subseteq Nat \ {0} /\ Limit < Full

VARIABLES
    emitted,    \* beats sent to the room so far
    flying,     \* the newest of them is still to be stored
    beatRows,   \* the rows, oldest first
    tab,        \* where a tab is
    answer,     \* what the query of a tab's login has returned
    channel,    \* messages on their way to a tab
    shown,      \* heartbeatList of a tab
    clearing,   \* where "clearHeartbeats" is
    clearAnswer,
    since,      \* history: the last beat before the tab joined
    unheard,    \* history: beats sent before the tab listened, or overwritten, yet unread
    early       \* history: beats sent between joining and the query

beatsVars == <<emitted, flying, beatRows, tab, answer, channel, shown, clearing, clearAnswer,
               since, unheard, early>>

Emitted == 1 .. emitted
Live(b) == [kind |-> "beat", beats |-> <<b>>]
History(bs) == [kind |-> "list", beats |-> bs]
Replaced(bs) == [kind |-> "overwrite", beats |-> bs]

BeatsTypeOK ==
    /\ emitted \in 0 .. MaxBeats /\ flying \in BOOLEAN
    /\ beatRows \in Seq(Emitted)
    /\ tab \in [Tabs -> {"away", "open", "joined", "read", "in"}]
    /\ clearing \in {"idle", "deleted", "read"} /\ clearAnswer \in Seq(Emitted)
    /\ \A t \in Tabs :
          /\ answer[t] \in Seq(Emitted) /\ Len(answer[t]) <= Limit
          /\ channel[t] \in Seq([kind : {"beat", "list", "overwrite"}, beats : Seq(Emitted)])
          /\ shown[t] \in Seq(Emitted) /\ Len(shown[t]) < Limit + Full
          /\ since[t] \in 0 .. emitted /\ unheard[t] \subseteq Emitted /\ early[t] \subseteq Emitted

BeatsInit ==
    /\ emitted = 0 /\ flying = FALSE /\ beatRows = <<>>
    /\ tab = [t \in Tabs |-> "away"]
    /\ answer = [t \in Tabs |-> <<>>] /\ channel = [t \in Tabs |-> <<>>]
    /\ shown = [t \in Tabs |-> <<>>]
    /\ clearing = "idle" /\ clearAnswer = <<>>
    /\ since = [t \in Tabs |-> 0] /\ unheard = [t \in Tabs |-> {}] /\ early = [t \in Tabs |-> {}]

-----------------------------------------------------------------------------
InRoom(t) == tab[t] \in {"joined", "read", "in"}

ToRoom(message) ==
    channel' = [t \in Tabs |-> IF InRoom(t) THEN Append(channel[t], message) ELSE channel[t]]

(* ORDER BY time DESC LIMIT, reversed.                                     *)
Newest(rows) == SubSeq(rows, IF Len(rows) > Limit THEN Len(rows) - Limit + 1 ELSE 1, Len(rows))

(* A beat goes to the room, then to the table; or its store is refused.    *)
BeatEmitted ==
    /\ ~flying /\ emitted < MaxBeats
    /\ emitted' = emitted + 1 /\ flying' = TRUE
    /\ ToRoom(Live(emitted'))
    /\ UNCHANGED <<beatRows, tab, answer, shown, clearing, clearAnswer, since, unheard, early>>

BeatStored ==
    /\ flying
    /\ flying' = FALSE /\ beatRows' = Append(beatRows, emitted)
    /\ UNCHANGED <<emitted, tab, answer, channel, shown, clearing, clearAnswer, since, unheard,
                   early>>

BeatRefused ==
    /\ flying
    /\ flying' = FALSE
    /\ UNCHANGED <<emitted, beatRows, tab, answer, channel, shown, clearing, clearAnswer, since,
                   unheard, early>>

-----------------------------------------------------------------------------

(* "Reset Heartbeat list if it is re-connect"                              *)
Connects(t) ==
    /\ tab[t] = "away"
    /\ tab' = [tab EXCEPT ![t] = "open"]
    /\ shown' = [shown EXCEPT ![t] = <<>>]
    /\ UNCHANGED <<emitted, flying, beatRows, answer, channel, clearing, clearAnswer, since,
                   unheard, early>>

(* afterLogin(): the socket joins, then the tables are read.               *)
Joins(t) ==
    /\ tab[t] = "open"
    /\ tab' = [tab EXCEPT ![t] = "joined"]
    /\ since' = [since EXCEPT ![t] = emitted]
    /\ unheard' = [unheard EXCEPT ![t] = IF flying THEN {emitted} ELSE {}]
    /\ UNCHANGED <<emitted, flying, beatRows, answer, channel, shown, clearing, clearAnswer, early>>

(* A query that is refused leaves the tab here: in the room, with no list, *)
(* until it logs in again or loses its connection.                         *)
HistoryRead(t) ==
    /\ tab[t] = "joined"
    /\ tab' = [tab EXCEPT ![t] = "read"]
    /\ answer' = [answer EXCEPT ![t] = Newest(beatRows)]
    /\ early' = [early EXCEPT ![t] = @ \cup (since[t] + 1 .. emitted)]
    /\ UNCHANGED <<emitted, flying, beatRows, channel, shown, clearing, clearAnswer, since,
                   unheard>>

HistorySent(t) ==
    /\ tab[t] = "read"
    /\ tab' = [tab EXCEPT ![t] = "in"]
    /\ channel' = [channel EXCEPT ![t] = Append(@, History(answer[t]))]
    /\ answer' = [answer EXCEPT ![t] = <<>>]
    /\ UNCHANGED <<emitted, flying, beatRows, shown, clearing, clearAnswer, since, unheard, early>>

Disconnects(t) ==
    /\ tab[t] # "away"
    /\ tab' = [tab EXCEPT ![t] = "away"]
    /\ answer' = [answer EXCEPT ![t] = <<>>] /\ channel' = [channel EXCEPT ![t] = <<>>]
    /\ since' = [since EXCEPT ![t] = 0]
    /\ unheard' = [unheard EXCEPT ![t] = {}] /\ early' = [early EXCEPT ![t] = {}]
    /\ UNCHANGED <<emitted, flying, beatRows, shown, clearing, clearAnswer>>

(* Bug: the list replaces the beats that have come before it.              *)
Merged_over(message, list) ==
    CASE message.kind = "beat" -> LET longer == list \o message.beats
                                  IN IF Len(longer) >= Full THEN Tail(longer) ELSE longer
      [] OTHER -> message.beats

(* What a tab makes of a message.                                          *)
Merged(message, list) ==
    CASE message.kind = "beat" -> LET longer == list \o message.beats
                                  IN IF Len(longer) >= Full THEN Tail(longer) ELSE longer
      [] message.kind = "list" -> message.beats \o list
      [] message.kind = "overwrite" -> message.beats

Receives(t) ==
    /\ channel[t] # <<>>
    /\ shown' = [shown EXCEPT ![t] = Merged(Head(channel[t]), @)]
    /\ channel' = [channel EXCEPT ![t] = Tail(@)]
    /\ UNCHANGED <<emitted, flying, beatRows, tab, answer, clearing, clearAnswer, since, unheard,
                   early>>

-----------------------------------------------------------------------------
(* "clearHeartbeats": the rows go, and every tab is sent what there is.    *)
BeatsDeleted ==
    /\ clearing = "idle" /\ beatRows # <<>>
    /\ clearing' = "deleted" /\ beatRows' = <<>>
    /\ UNCHANGED <<emitted, flying, tab, answer, channel, shown, clearAnswer, since, unheard,
                   early>>

RestRead ==
    /\ clearing = "deleted"
    /\ clearing' = "read" /\ clearAnswer' = Newest(beatRows)
    /\ UNCHANGED <<emitted, flying, beatRows, tab, answer, channel, shown, since, unheard, early>>

RestSent ==
    /\ clearing = "read"
    /\ clearing' = "idle" /\ clearAnswer' = <<>>
    /\ ToRoom(Replaced(clearAnswer))
    /\ unheard' = [t \in Tabs |-> IF InRoom(t) THEN unheard[t] \cup (Emitted \ ToSet(clearAnswer))
                                 ELSE unheard[t]]
    /\ early' = [t \in Tabs |-> IF tab[t] \in {"joined", "read"}
                                THEN early[t] \cup ToSet(clearAnswer) ELSE early[t]]
    /\ UNCHANGED <<emitted, flying, beatRows, tab, answer, shown, since>>

ClearFails ==
    /\ clearing # "idle"
    /\ clearing' = "idle" /\ clearAnswer' = <<>>
    /\ UNCHANGED <<emitted, flying, beatRows, tab, answer, channel, shown, since, unheard, early>>

BeatsCrash ==
    /\ flying' = FALSE /\ clearing' = "idle" /\ clearAnswer' = <<>>
    /\ tab' = [t \in Tabs |-> "away"]
    /\ answer' = [t \in Tabs |-> <<>>] /\ channel' = [t \in Tabs |-> <<>>]
    /\ since' = [t \in Tabs |-> 0] /\ unheard' = [t \in Tabs |-> {}] /\ early' = [t \in Tabs |-> {}]
    /\ UNCHANGED <<emitted, beatRows, shown>>

BeatsNext ==
    \/ BeatEmitted \/ BeatStored \/ BeatRefused
    \/ \E t \in Tabs : \/ Connects(t) \/ Joins(t) \/ HistoryRead(t) \/ HistorySent(t)
                       \/ Disconnects(t) \/ Receives(t)
    \/ BeatsDeleted \/ RestRead \/ RestSent \/ ClearFails
    \/ BeatsCrash

BeatsSpec == BeatsInit /\ [][BeatsNext]_beatsVars

-----------------------------------------------------------------------------
UpToDate(t) == tab[t] = "in" /\ channel[t] = <<>>

(* The beats a full list has room for, next to those it shows twice.       *)
Recent(t) == {b \in Emitted : b > emitted - (Full - 1 - Cardinality(early[t]))}

(* A tab that has logged in and received all there is shows the newest     *)
(* rows: none falls between what it was sent and what it heard.  Except    *)
(* the beat that was sent to the room just before the tab joined and was   *)
(* stored after the query, and beats that a clearing has overwritten.      *)
NoBeatMissed ==
    \A t \in Tabs : UpToDate(t) =>
        ToSet(Newest(beatRows)) \cap Recent(t) \subseteq ToSet(shown[t]) \cup unheard[t]

(* And it shows none twice, over any number of connections, but those that *)
(* came after the tab had joined and before its query was answered.        *)
ShownOnce ==
    \A t \in Tabs : UpToDate(t) =>
        \A i, j \in DOMAIN shown[t] : shown[t][i] = shown[t][j] /\ i # j => shown[t][i] \in early[t]

(* So a tab shows the history there is, through live beats, logins, lost   *)
(* connections and clearings.                                              *)
TabShowsHistory == NoBeatMissed /\ ShownOnce
=============================================================================
