--------------------------- MODULE PropertyRanking ---------------------------
(***************************************************************************)
(* PropertyRanking (relay/PropertyRanking.cpp): the tracks under a prefix, *)
(* ranked by a property of their objects, and groups of sessions that      *)
(* asked for the N best.  Sessions that publish none of the ranked tracks  *)
(* (viewers) follow the shared selection of their group; a session that    *)
(* does (a publisher) has a selection of its own, without its own tracks.  *)
(*                                                                         *)
(* The methods are operators on a group, given the ranked tracks.  got is  *)
(* what the callbacks have added up to: the tracks the relay now delivers  *)
(* to each session of a group on account of this ranking.                  *)
(***************************************************************************)
EXTENDS Naturals, Sequences, FiniteSets, Functions

CONSTANTS
    Tracks,
    Sessions,       \* the sessions that may ask for the N best
    PubOf,          \* the session that publishes each track
    Values,         \* values of the property
    Ns,             \* the numbers of tracks sessions ask for
    maxDeselected,  \* maxDeselected_
    MaxSeq,         \* bound: tracks registered
    MaxSweeps       \* bound: sweeps that find idle tracks; 0 when idleTimeout_ is zero

ASSUME RankingAssumption ==
    /\ DOMAIN PubOf = Tracks
    /\ Values \subseteq Nat /\ Ns \subseteq Nat \ {0}
    /\ maxDeselected \in Nat /\ MaxSeq \in Nat /\ MaxSweeps \in Nat

VARIABLES
    ranked,         \* rankedTracks_, by track
    groups,         \* topNGroups_
    nextSeq,        \* nextSeq_
    sweeps          \* how often sweepIdle found idle tracks (ghost)

vars == <<ranked, groups, nextSeq, sweeps>>

RankKey == [value : Values, seq : 0 .. MaxSeq - 1]

\* trackStates is sel (Selected) and des (Deselected); selected is selectedTracks.
TopNGroup ==
    [sessions : SUBSET Sessions,
     selected : [Sessions -> SUBSET Tracks],
     sel      : SUBSET Tracks,
     des      : SUBSET Tracks,
     queue    : Seq(Tracks),
     got      : [Sessions -> SUBSET Tracks]]

\* The state is of its type, and no two tracks share an arrival number, which
\* makes rankedTracks_ a map and the ranks a total order.
TypeOK ==
    /\ DOMAIN ranked \subseteq Tracks /\ \A t \in DOMAIN ranked : ranked[t] \in RankKey
    /\ \A t, u \in DOMAIN ranked : ranked[t].seq = ranked[u].seq => t = u
    /\ DOMAIN groups \subseteq Ns /\ \A n \in DOMAIN groups : groups[n] \in TopNGroup
    /\ nextSeq \in 0 .. MaxSeq
    /\ sweeps \in 0 .. MaxSweeps
-----------------------------------------------------------------------------
(***************************************************************************)
(* Ranks, among the ranked tracks K.                                       *)
(***************************************************************************)
Better(a, b) == a.value > b.value \/ (a.value = b.value /\ a.seq < b.seq)

\* How many tracks of T are ranked above t.
RankIn(K, T, t) == Cardinality({u \in T : Better(K[u], K[t])})
getCachedRank(K, t) == RankIn(K, DOMAIN K, t)

TopN(K, n) == {t \in DOMAIN K : getCachedRank(K, t) < n}
AtRank(K, k) == {t \in DOMAIN K : getCachedRank(K, t) = k}

Others(K, s) == {t \in DOMAIN K : PubOf[t] # s}
isPublisher(K, s) == \E t \in DOMAIN K : PubOf[t] = s
TrackCount(K, s) == Cardinality({t \in DOMAIN K : PubOf[t] = s})

\* The tracks of others at or above the waterline of session s.
Personal(K, s, n) == {t \in Others(K, s) : RankIn(K, Others(K, s), t) < n}

Publishers(K, G) == {s \in G.sessions : isPublisher(K, s)}
Viewers(K, G) == {s \in G.sessions : ~ isPublisher(K, s)}
-----------------------------------------------------------------------------
(***************************************************************************)
(* The selections of a group G of maxSelected n.                           *)
(***************************************************************************)
\* For the publishers S of the group.
reconcilePublisherSelection(K, G, n, S) ==
    [G EXCEPT !.selected = [s \in Sessions |-> IF s \in S THEN Personal(K, s, n) ELSE @[s]],
              !.got = [s \in Sessions |->
                  IF s \in S
                  THEN LET was == G.selected[s]
                           now == Personal(K, s, n)
                       IN (@[s] \ (was \ now)) \cup (now \ was)
                  ELSE @[s]]]

Deliver(G, S, T) == [G EXCEPT !.got = [s \in Sessions |-> IF s \in S THEN @[s] \cup T ELSE @[s]]]

notifyTrackSelected(K, G, n, t) ==
    Deliver(reconcilePublisherSelection(K, G, n, Publishers(K, G)), Viewers(K, G), {t})

removeFromDeselectedQueue(G, t) ==
    IF t \in Range(G.queue) THEN [G EXCEPT !.queue = SelectSeq(@, LAMBDA u : u # t)] ELSE G

Select(G, t) == [G EXCEPT !.sel = @ \cup {t}, !.des = @ \ {t}]

\* Faulty form: the sessions are not told of the evictions.
trimDeselectedQueue_silent(G) ==
    LET excess == IF Len(G.queue) > maxDeselected THEN Len(G.queue) - maxDeselected ELSE 0
        evicted == {G.queue[i] : i \in 1 .. excess}
    IN [G EXCEPT !.queue = SubSeq(@, excess + 1, Len(@)), !.sel = @ \ evicted, !.des = @ \ evicted]

\* Whatever does not fit in the queue is forgotten, and taken from every
\* session of the group.
trimDeselectedQueue(G) ==
    LET excess == IF Len(G.queue) > maxDeselected THEN Len(G.queue) - maxDeselected ELSE 0
        evicted == {G.queue[i] : i \in 1 .. excess}
    IN [G EXCEPT !.queue = SubSeq(@, excess + 1, Len(@)),
                 !.sel = @ \ evicted,
                 !.des = @ \ evicted,
                 !.got = [s \in Sessions |-> IF s \in G.sessions THEN @[s] \ evicted ELSE @[s]]]

demoteTrack(G, t) ==
    trimDeselectedQueue([G EXCEPT !.sel = @ \ {t}, !.des = @ \cup {t}, !.queue = Append(@, t)])

\* At most one track has a rank.
demoteTrackAtRank(K, G, n) ==
    LET at == AtRank(K, n) \cap G.sel
    IN IF at = {} THEN G ELSE demoteTrack(G, CHOOSE t \in at : TRUE)

\* The track of T, if there is one, is selected.
Promoted(K, G, n, T) ==
    LET u == CHOOSE t \in T : TRUE
    IN IF T = {} THEN G
       ELSE notifyTrackSelected(K, removeFromDeselectedQueue(Select(G, u), u), n, u)

\* The best of the tracks that are not selected, other than t.
promoteNextAvailableTrack(K, G, n, t) ==
    LET free == DOMAIN K \ (G.sel \cup {t})
    IN Promoted(K, G, n, {u \in free : \A v \in free \ {u} : Better(K[u], K[v])})
-----------------------------------------------------------------------------
(***************************************************************************)
(* Tracks.  A method goes through the groups, each on its own.             *)
(***************************************************************************)
Registered(t, value) ==
    [u \in DOMAIN ranked \cup {t} |-> IF u = t THEN [value |-> value, seq |-> nextSeq] ELSE ranked[u]]

\* reconcilePublisherInAllGroups for the session that publishes a new track.
reconcileNewPublisher(K, G, n, s) ==
    LET seeded == [G EXCEPT !.selected[s] = IF @ = {} THEN TopN(K, n) ELSE @]
    IN IF s \in G.sessions THEN reconcilePublisherSelection(K, seeded, n, {s}) ELSE G

\* What registering track t does to a group.
Joins(K, G, n, t) ==
    IF getCachedRank(K, t) < n
    THEN demoteTrackAtRank(K, notifyTrackSelected(K, Select(G, t), n, t), n)
    ELSE reconcilePublisherSelection(K, G, n, Publishers(K, G))

registerTrack(t, value) ==
    LET K == Registered(t, value)
    IN /\ t \notin DOMAIN ranked /\ nextSeq < MaxSeq
       /\ ranked' = K
       /\ groups' = [n \in DOMAIN groups |-> Joins(K, reconcileNewPublisher(K, groups[n], n, PubOf[t]), n, t)]
       /\ nextSeq' = nextSeq + 1
       /\ UNCHANGED sweeps

\* Faulty form: a threshold at the lower rank itself does not count.
crossesThreshold_strict(K, old, new) ==
    \E n \in DOMAIN groups : (old < n /\ n < new) \/ (new < n /\ n < old)

\* A rank is below one of two maxima (updateSelectionThreshold and
\* updatePublisherExtendedThreshold keep them up to date) if it is below one of
\* the numbers that each is the maximum of.
crossesThreshold(K, old, new) ==
    LET N == DOMAIN groups
        extended == UNION {{n + TrackCount(K, s) : s \in Publishers(K, groups[n])} : n \in N}
        below(k, T) == \E m \in T : k < m + maxDeselected
    IN /\ below(old, N \cup extended) \/ below(new, N \cup extended)
       /\ \/ below(old, N) # below(new, N)
          \/ \E n \in N : (old < n /\ n <= new) \/ (new < n /\ n <= old)
          \/ DOMAIN K # {} /\ \E m \in N \cup extended : old < m \/ new < m

\* What recomputeTopNGroups does to a group when track t has moved.
Moved(K, G, n, t, old, new) ==
    LET enters == old >= n /\ new < n
        leaves == old < n /\ new >= n
        state == IF enters THEN removeFromDeselectedQueue(Select(G, t), t)
                 ELSE IF leaves THEN demoteTrack(G, t)
                 ELSE G
        told == Deliver(reconcilePublisherSelection(K, state, n, Publishers(K, state) \ {PubOf[t]}),
                        IF enters THEN Viewers(K, state) ELSE {}, {t})
    IN IF enters THEN demoteTrackAtRank(K, told, n)
       ELSE IF leaves THEN Promoted(K, told, n, AtRank(K, n - 1) \ told.sel)
       ELSE told

\* The tracks in order are those found idle, in the order the hash map gives
\* them; it is empty when the sweep is throttled.
sweepIdle(K, Gs, order) ==
    LET one(G, n) ==
            LET after[i \in 0 .. Len(order)] ==
                    IF i = 0 THEN G
                    ELSE IF order[i] \notin G.sel THEN after[i - 1]
                    ELSE promoteNextAvailableTrack(K, demoteTrack(after[i - 1], order[i]), n, order[i])
            IN after[Len(order)]
    IN IF order = <<>> THEN Gs ELSE [n \in DOMAIN Gs |-> one(Gs[n], n)]

\* Track t, an object of which has just arrived, is not idle.
Idle(t) == IF sweeps = MaxSweeps THEN {<<>>}
           ELSE UNION {Bijection(1 .. Cardinality(S), S) : S \in SUBSET (DOMAIN ranked \ {t})}

updateSortValue(t, value, order) ==
    LET K == [ranked EXCEPT ![t].value = value]
        old == getCachedRank(ranked, t)
        new == getCachedRank(K, t)
    IN /\ t \in DOMAIN ranked /\ value # ranked[t].value
       /\ ranked' = K
       /\ IF crossesThreshold(K, old, new)
          THEN /\ groups' = sweepIdle(K, [n \in DOMAIN groups |-> Moved(K, groups[n], n, t, old, new)], order)
               /\ sweeps' = sweeps + (IF order = <<>> THEN 0 ELSE 1)
          ELSE UNCHANGED <<groups, sweeps>>
       /\ UNCHANGED nextSeq

\* The observer of track t.
onActivity(t, order) ==
    /\ t \in DOMAIN ranked
    /\ groups' = sweepIdle(ranked, groups, order)
    /\ sweeps' = sweeps + (IF order = <<>> THEN 0 ELSE 1)
    /\ UNCHANGED <<ranked, nextSeq>>

\* What removing track t does to a group: the first of the queue takes its
\* place, or the next in rank.
Leaves(K, G, n, t) ==
    LET gone == removeFromDeselectedQueue([G EXCEPT !.sel = @ \ {t}, !.des = @ \ {t}], t)
        first == Head(gone.queue)
    IN IF t \in G.sel
       THEN IF gone.queue = <<>> THEN promoteNextAvailableTrack(K, gone, n, t)
            ELSE notifyTrackSelected(K, Select([gone EXCEPT !.queue = Tail(@)], first), n, first)
       ELSE IF t \in G.des THEN gone
       ELSE G

\* PUBLISH_DONE ends the track for those that were getting it.
Ended(G, t) == [G EXCEPT !.got = [s \in Sessions |-> @[s] \ {t}]]

removeTrack(t) ==
    LET K == [u \in DOMAIN ranked \ {t} |-> ranked[u]]
    IN /\ t \in DOMAIN ranked
       /\ ranked' = K
       /\ groups' = [n \in DOMAIN groups |-> Leaves(K, Ended(groups[n], t), n, t)]
       /\ UNCHANGED <<nextSeq, sweeps>>
-----------------------------------------------------------------------------
(***************************************************************************)
(* Sessions.  A session is in one group at a time: it has one subscription *)
(* to the prefix.                                                          *)
(***************************************************************************)
getOrCreateTopNGroup(n) ==
    IF n \in DOMAIN groups THEN groups[n]
    ELSE [sessions |-> {}, selected |-> [s \in Sessions |-> {}], sel |-> TopN(ranked, n), des |-> {},
          queue |-> <<>>, got |-> [s \in Sessions |-> {}]]

addSessionToTopNGroup(n, s) ==
    LET G == [getOrCreateTopNGroup(n) EXCEPT !.sessions = @ \cup {s}, !.selected[s] = {}]
        told == IF isPublisher(ranked, s) THEN reconcilePublisherSelection(ranked, G, n, {s})
                ELSE Deliver(G, {s}, TopN(ranked, n))
    IN /\ \A m \in DOMAIN groups : s \notin groups[m].sessions
       /\ groups' = [m \in DOMAIN groups \cup {n} |-> IF m = n THEN told ELSE groups[m]]
       /\ UNCHANGED <<ranked, nextSeq, sweeps>>

removeSessionFromTopNGroup(n, s) ==
    LET left == groups[n].sessions \ {s}
    IN /\ s \in groups[n].sessions
       /\ groups' = IF left = {} THEN [m \in DOMAIN groups \ {n} |-> groups[m]]
                    ELSE [groups EXCEPT ![n] = [@ EXCEPT !.sessions = left, !.selected[s] = {}, !.got[s] = {}]]
       /\ UNCHANGED <<ranked, nextSeq, sweeps>>

Init ==
    /\ ranked = <<>>
    /\ groups = <<>>
    /\ nextSeq = 0
    /\ sweeps = 0

Next ==
    \/ \E t \in Tracks, v \in Values : registerTrack(t, v)
    \/ \E t \in Tracks, v \in Values : \E order \in Idle(t) : updateSortValue(t, v, order)
    \/ \E t \in Tracks : \E order \in Idle(t) : onActivity(t, order)
    \/ \E t \in Tracks : removeTrack(t)
    \/ \E n \in Ns, s \in Sessions : addSessionToTopNGroup(n, s)
    \/ \E n \in DOMAIN groups, s \in Sessions : removeSessionFromTopNGroup(n, s)

Spec == Init /\ [][Next]_vars
-----------------------------------------------------------------------------
(***************************************************************************)
(* Properties.                                                             *)
(***************************************************************************)
\* The shared selection of a group, kept up to date step by step and skipped
\* by the fast path of updateSortValue, is the N best tracks, as long as no
\* idle track was put aside.
SelectionIsTopN ==
    sweeps = 0 => \A n \in DOMAIN groups : groups[n].sel = TopN(ranked, n)

\* A session that never publishes gets the tracks of its group, those waiting
\* for reselection included.
ViewersFollow ==
    sweeps = 0 => \A n \in DOMAIN groups : \A s \in groups[n].sessions \ {PubOf[t] : t \in Tracks} :
        groups[n].got[s] = groups[n].sel \cup groups[n].des

\* A publisher gets the N best tracks of the others.  (The code does not keep
\* this: trimDeselectedQueue evicts for publishers too.)
PersonalTopN ==
    \A n \in DOMAIN groups : \A s \in Publishers(ranked, groups[n]) : groups[n].got[s] = Personal(ranked, s, n)

\* A group tracks at most N selected tracks and a full queue.  (The code does
\* not keep this after an idle eviction.)
GroupIsBounded ==
    \A n \in DOMAIN groups :
        Cardinality(groups[n].sel \cup groups[n].des) <= n + maxDeselected
=============================================================================
