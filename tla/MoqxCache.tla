----------------------------- MODULE MoqxCache -----------------------------
(***************************************************************************)
(* The object cache (MoqxCache.h, MoqxCache.cpp) as a record, and its      *)
(* methods as operators from cache to cache.                               *)
(*                                                                         *)
(* A CacheTrack and a CacheGroup are held by shared_ptr and outlive their  *)
(* removal from the cache while something writes to them, so they have     *)
(* identities: map is cache_ (track name -> track), trk and grp are the    *)
(* objects that are alive.  A payload is its length, and time is left out: *)
(* whether an entry has expired is an input of the lookup that asks.       *)
(***************************************************************************)
EXTENDS CacheRanges, TLC

CONSTANTS
    Names,                  \* track names
    maxCachedTracks,        \* maxCachedTracks_
    maxCachedGroups,        \* maxCachedGroupsPerTrack_
    maxCachedBytes,         \* maxCachedBytes_
    minEvictionBytes,       \* minEvictionBytes_
    maxGapIntervals         \* kMaxGapIntervalsPerTrack

ASSUME CacheAssumption ==
    /\ {maxCachedTracks, maxCachedGroups, maxCachedBytes, minEvictionBytes} \subseteq Nat
    /\ maxGapIntervals \in Nat \ {0}

kMaxGapValidation == 100

EmptyMap == [x \in {} |-> x]
Without(f, x) == [y \in DOMAIN f \ {x} |-> f[y]]
Remove1(s, x) == SelectSeq(s, LAMBDA y : y # x)
Fresh(f) == Min({i \in 1 .. Cardinality(DOMAIN f) + 1 : i \notin DOMAIN f})

\* The state of a default-constructed CacheTrack, CacheGroup and MoqxCache.
NewTrack(n) ==
    [name |-> n, groups |-> EmptyMap, gaps |-> {}, content |-> {}, live |-> 0, eot |-> FALSE,
     largest |-> None, inProgress |-> <<>>, lru |-> FALSE, groupLRU |-> <<>>,
     noCache |-> FALSE, evicted |-> FALSE]
NewGroup ==
    [objects |-> EmptyMap, maxObj |-> 0, eog |-> FALSE, seenGap |-> None, bytes |-> 0,
     pins |-> 0, lru |-> FALSE]
NewCache == [map |-> EmptyMap, trk |-> EmptyMap, grp |-> EmptyMap, trackLRU |-> <<>>,
             globalLRU |-> <<>>, total |-> 0]

canEvict(t) == t.live = 0 /\ t.inProgress = <<>>
isJoinPoint(t, g) == t.live > 0 /\ t.largest # None /\ GroupOf(t.largest) = g
shouldSkipCaching(t) == t.evicted \/ t.noCache
HasGroup(c, id, g) == g \in DOMAIN c.trk[id].groups

\* What the iterator sees of a group of the track.
GroupFacts(c, gid) == [has |-> TRUE, eog |-> c.grp[gid].eog, maxObj |-> c.grp[gid].maxObj]
GroupIn(c, id, g) == IF HasGroup(c, id, g) THEN GroupFacts(c, c.trk[id].groups[g]) ELSE NoGroup
-----------------------------------------------------------------------------
(***************************************************************************)
(* Known gaps of a track.                                                  *)
(***************************************************************************)
enforceGapLimit(t) ==
    LET starts == Starts(t.gaps)
        kept == CHOOSE l \in starts : Cardinality({m \in starts : m >= l}) = maxGapIntervals
        forgotten == {l \in t.gaps : l < kept}
    IN  IF Cardinality(starts) <= maxGapIntervals THEN t
        ELSE [t EXCEPT !.gaps = @ \ forgotten, !.content = @ \ forgotten]

insertGap(t, locs) ==
    IF locs = {} THEN t
    ELSE enforceGapLimit([t EXCEPT !.gaps = @ \cup locs, !.content = @ \cup locs])
forgetRange(t, locs) == enforceGapLimit([t EXCEPT !.gaps = @ \ locs, !.content = @ \ locs])

\* [ok, t]: a track that has ended takes no object past its end, and its end
\* is its Largest.
updateLargest(t, l, eot) ==
    IF l > t.largest
    THEN IF t.eot THEN [ok |-> FALSE, t |-> t]
         ELSE [ok |-> TRUE, t |-> [t EXCEPT !.eot = eot, !.largest = l]]
    ELSE [ok |-> ~eot \/ l = t.largest, t |-> [t EXCEPT !.eot = @ \/ (eot /\ l = t.largest)]]

\* The End Location and the end-of-track flag of FETCH_OK.
fetchOkEnd(t, start, exclusiveEnd) ==
    LET trackEnd == OrElse(nextLoc(t.largest), kLocationMax)
        asked == [end |-> exclusiveEnd, eot |-> FALSE]
    IN  IF t.largest = None \/ exclusiveEnd < trackEnd THEN asked
        ELSE IF trackEnd <= start THEN [end |-> start, eot |-> FALSE]
        ELSE IF ~t.eot /\ t.live = 0 THEN asked
        ELSE [end |-> trackEnd, eot |-> t.eot]
-----------------------------------------------------------------------------
(***************************************************************************)
(* LRU lists and pins.  A list's head is its newest entry.                 *)
(***************************************************************************)
addTrackToLRU(c, id) ==
    IF c.trk[id].lru THEN c
    ELSE [c EXCEPT !.trk[id].lru = TRUE, !.trackLRU = <<c.trk[id].name>> \o @]
removeTrackFromLRU(c, id) ==
    IF c.trk[id].lru
    THEN [c EXCEPT !.trk[id].lru = FALSE, !.trackLRU = Remove1(@, c.trk[id].name)]
    ELSE c

\* By name: the track of that name now, whichever track the caller wrote to.
onTrackBecameEvictable(c, n) ==
    IF n \in DOMAIN c.map /\ canEvict(c.trk[c.map[n]]) THEN addTrackToLRU(c, c.map[n]) ELSE c

\* Without the check that the track still has this group.
addGroupToLRU_anyway(c, id, g, gid) ==
    IF c.grp[gid].lru THEN c
    ELSE [c EXCEPT !.trk[id].groupLRU = <<g>> \o @, !.globalLRU = <<<<c.trk[id].name, g>>>> \o @,
                   !.grp[gid].lru = TRUE]

addGroupToLRU(c, id, g, gid) ==
    LET t == c.trk[id]
        held == ~t.evicted /\ g \in DOMAIN t.groups /\ t.groups[g] = gid
    IN  IF c.grp[gid].lru \/ ~held THEN c
        ELSE [c EXCEPT !.trk[id].groupLRU = <<g>> \o @, !.globalLRU = <<<<t.name, g>>>> \o @,
                       !.grp[gid].lru = TRUE]
removeGroupFromLRU(c, id, g, gid) ==
    IF c.grp[gid].lru
    THEN [c EXCEPT !.trk[id].groupLRU = Remove1(@, g), !.grp[gid].lru = FALSE,
                   !.globalLRU = Remove1(@, <<c.trk[id].name, g>>)]
    ELSE c
pinGroup(c, id, g, gid) ==
    LET d == [c EXCEPT !.grp[gid].pins = @ + 1]
    IN  IF c.grp[gid].pins = 0 THEN removeGroupFromLRU(d, id, g, gid) ELSE d
unpinGroup(c, id, g, gid) ==
    LET d == [c EXCEPT !.grp[gid].pins = @ - 1]
    IN  IF d.grp[gid].pins = 0 THEN addGroupToLRU(d, id, g, gid) ELSE d
-----------------------------------------------------------------------------
(***************************************************************************)
(* Eviction.                                                               *)
(***************************************************************************)
evictGroup_keepsContent(c, id, g) ==
    LET gid == c.trk[id].groups[g]
    IN  IF ~HasGroup(c, id, g) THEN c
        ELSE [removeGroupFromLRU(c, id, g, gid) EXCEPT !.trk[id].groups = Without(@, g),
                                                      !.total = @ - c.grp[gid].bytes]

\* With the entries freed at once.
evictGroup_clears(c, id, g) ==
    LET gid == c.trk[id].groups[g]
        own == Loc(g, 0) .. Loc(g, MaxObject)
        d == removeGroupFromLRU(c, id, g, gid)
    IN  IF ~HasGroup(c, id, g) THEN c
        ELSE [d EXCEPT !.trk[id] = [forgetRange(@, own) EXCEPT !.groups = Without(@, g)],
                       !.grp[gid].objects = EmptyMap, !.grp[gid].bytes = 0, !.total = @ - c.grp[gid].bytes]

evictGroup(c, id, g) ==
    LET t == c.trk[id]
        gid == t.groups[g]
        seen == c.grp[gid].seenGap
        own == Loc(g, 0) .. Loc(g, MaxObject)
        prior == IF seen > 0 THEN Loc(g - seen, 0) .. Loc(g, 0) - 1 ELSE {}
        d == removeGroupFromLRU(c, id, g, gid)
    IN  IF ~HasGroup(c, id, g) THEN c
        ELSE [d EXCEPT !.trk[id] = [forgetRange(forgetRange(@, own), prior) EXCEPT !.groups = Without(@, g)],
                       !.total = @ - c.grp[gid].bytes]

evictTrack(c, n) ==
    LET id == c.map[n]
        d == [removeTrackFromLRU(c, id) EXCEPT !.trk[id].evicted = TRUE]
        e == FoldSet(LAMBDA g, x : evictGroup(x, id, g), d, DOMAIN c.trk[id].groups)
    IN  IF n \in DOMAIN c.map THEN [e EXCEPT !.map = Without(@, n)] ELSE c

evictOldestTrackIfNeeded(c) ==
    IF maxCachedTracks = 0 \/ Cardinality(DOMAIN c.map) < maxCachedTracks \/ c.trackLRU = <<>> THEN c
    ELSE evictTrack(c, Last(c.trackLRU))

evictOldestGroupsIfNeeded(c, id) ==
    LET step(d, g) == IF Cardinality(DOMAIN d.trk[id].groups) > maxCachedGroups
                      THEN evictGroup(d, id, g) ELSE d
    IN  IF maxCachedGroups = 0 THEN c ELSE FoldLeft(step, c, Reverse(c.trk[id].groupLRU))

\* Stops at a join point, where it should go on to the next group.
evictForByteLimitIfNeeded_stops(c) ==
    LET e == Last(c.globalLRU)
    IN  IF maxCachedBytes = 0 \/ c.total <= maxCachedBytes \/ c.globalLRU = <<>> THEN c
        ELSE IF isJoinPoint(c.trk[c.map[e[1]]], e[2]) THEN c
        ELSE evictGroup(c, c.map[e[1]], e[2])

\* One pass over the evictable groups, oldest first, down to the low watermark;
\* an idle track goes with its last group.
evictForByteLimitIfNeeded(c) ==
    LET target == Max({maxCachedBytes - minEvictionBytes, 0})
        step(d, e) ==
            LET id == d.map[e[1]]
                x == evictGroup(d, id, e[2])
            IN  IF d.total <= target \/ e[1] \notin DOMAIN d.map THEN d
                ELSE IF isJoinPoint(d.trk[id], e[2]) THEN d
                ELSE IF DOMAIN x.trk[id].groups = {} /\ canEvict(x.trk[id]) THEN evictTrack(x, e[1])
                ELSE x
    IN  IF maxCachedBytes = 0 \/ c.total <= maxCachedBytes THEN c
        ELSE FoldLeft(step, c, Reverse(c.globalLRU))

purge(c, names) == FoldSet(LAMBDA n, x : evictTrack(x, n), c, names \cap DOMAIN c.map)
-----------------------------------------------------------------------------
(***************************************************************************)
(* Tracks and groups are created on demand.                                *)
(***************************************************************************)
AddTrack(c, n) ==
    LET id == Fresh(c.trk)
    IN  [c EXCEPT !.trk = (id :> NewTrack(n)) @@ @, !.map = (n :> id) @@ @]
AddGroup(c, id, g) ==
    LET gid == Fresh(c.grp)
    IN  [c EXCEPT !.grp = (gid :> NewGroup) @@ @, !.trk[id].groups = (g :> gid) @@ @]

\* A new track starts in the LRU.
getOrCreateTrack(c, n) ==
    IF n \in DOMAIN c.map THEN c ELSE LET d == AddTrack(c, n) IN addTrackToLRU(d, d.map[n])

getOrCreateGroup(c, id, g) == IF HasGroup(c, id, g) THEN c ELSE AddGroup(c, id, g)

getOrCreateGroupWithEviction(c, id, g) ==
    LET d == AddGroup(evictOldestGroupsIfNeeded(c, id), id, g)
    IN  IF HasGroup(c, id, g) THEN c ELSE addGroupToLRU(d, id, g, d.trk[id].groups[g])

\* Duration (0 means: do not cache), Largest and extensions of SUBSCRIBE_OK.
setTrackState(c, n, noCache, largest) ==
    LET d == getOrCreateTrack(c, n)
        id == d.map[n]
        e == [d EXCEPT !.trk[id].noCache = noCache]
    IN  IF largest = None THEN e ELSE [e EXCEPT !.trk[id] = updateLargest(@, largest, FALSE).t]
-----------------------------------------------------------------------------
(***************************************************************************)
(* Writing an object.  An extension is None or the size of the gap before  *)
(* the object, in groups (group) or in objects (object).  Operators that   *)
(* can fail return [ok, c]; what they changed before they failed stays.    *)
(***************************************************************************)
NoExtensions == [group |-> None, object |-> None]

Fail(c) == [ok |-> FALSE, c |-> c]
Done(c) == [ok |-> TRUE, c |-> c]

priorGroupIdGap(c, id, g, gap) ==
    LET d == getOrCreateGroup(c, id, g)
        gid == d.trk[id].groups[g]
        seen == d.grp[gid].seenGap
        e == [d EXCEPT !.grp[gid].seenGap = gap]
        checked == g - Min({gap, kMaxGapValidation}) .. g - 1
        taken == \E h \in checked : HasGroup(c, id, h) /\ DOMAIN c.grp[c.trk[id].groups[h]].objects # {}
    IN  IF gap > g THEN Fail(c)
        ELSE IF seen # None THEN IF seen = gap THEN Done(d) ELSE Fail(d)
        ELSE IF gap > 0 /\ taken THEN Fail(e)
        ELSE Done([e EXCEPT !.trk[id] = insertGap(@, Loc(g - gap, 0) .. Loc(g, 0) - 1)])

priorObjectIdGap(c, id, g, o, gap) ==
    LET d == getOrCreateGroup(c, id, g)
        checked == o - Min({gap, kMaxGapValidation}) .. o - 1
    IN  IF gap > o THEN Fail(c)
        ELSE IF gap = 0 THEN Done(c)
        ELSE IF checked \cap DOMAIN d.grp[d.trk[id].groups[g]].objects # {} THEN Fail(d)
        ELSE Done([d EXCEPT !.trk[id] = insertGap(@, Loc(g, o - gap) .. Loc(g, o) - 1)])

\* r is what became of the group gap.
thenObjectGap(r, id, g, o, gap) == IF r.ok /\ gap # None THEN priorObjectIdGap(r.c, id, g, o, gap) ELSE r

processGapExtensions(c, id, g, o, ext) ==
    thenObjectGap(IF ext.group = None THEN Done(c) ELSE priorGroupIdGap(c, id, g, ext.group), id, g, o, ext.object)

\* END_OF_GROUP and END_OF_TRACK leave nothing after them.
markEnd(c, id, gid, g, o, st) ==
    LET rest == Loc(g, o) + 1 .. Loc(g, MaxObject)
        later == IF st = "endOfTrack" THEN Loc(g + 1, 0) .. kLocationMax ELSE {}
    IN  IF st = "normal" THEN c
        ELSE [c EXCEPT !.trk[id] = insertGap(insertGap(@, rest), later), !.grp[gid].eog = TRUE]

\* w is the object written: its group g and object o, status st, extensions
\* ext, the bytes of this chunk and their offset, whether the chunk ends the
\* object, and whether it came as a datagram.
NewEntry(w) == [st |-> w.st, size |-> w.bytes, done |-> w.done, datagram |-> w.datagram]

Conflicts(w, e) ==
    \/ w.st # e.st
    \/ w.st = "normal" /\ w.offset = 0 /\ w.done /\ e.done /\ w.bytes # e.size
    \/ w.datagram # e.datagram

\* Only the bytes past the ones the entry has are new.
Extended(w, e) ==
    LET last == w.offset + w.bytes
        size == IF ~e.done /\ w.offset <= e.size /\ last > e.size THEN last ELSE e.size
    IN  [e EXCEPT !.size = size, !.done = @ \/ (w.done /\ size = last)]

storeObject(c, id, gid, w) ==
    LET grp == c.grp[gid]
        known == w.o \in DOMAIN grp.objects
        old == grp.objects[w.o]
        new == IF known THEN Extended(w, old) ELSE NewEntry(w)
        ends == new.done /\ (known => ~old.done)
        added == new.size - (IF known THEN old.size ELSE 0)
        stored == [c EXCEPT !.grp[gid].objects = (w.o :> new) @@ @, !.grp[gid].bytes = @ + added]
        listed == IF ends THEN [stored EXCEPT !.trk[id].content = @ \cup {Loc(w.g, w.o)}] ELSE stored
    IN  IF ~known /\ w.offset > 0 THEN Done(c)
        ELSE IF known /\ Conflicts(w, old) THEN Fail(c)
        ELSE IF ends \/ ~known
             THEN Done([listed EXCEPT !.grp[gid].maxObj = Max({@, w.o})])
             ELSE Done(stored)

\* r is what became of the extensions.
thenStore(r, id, gid, w) ==
    IF r.ok THEN storeObject(markEnd(r.c, id, gid, w.g, w.o, w.st), id, gid, w) ELSE r

cacheObject(c, id, gid, w) ==
    IF Loc(w.g, w.o) \in c.trk[id].gaps THEN Fail(c)
    ELSE thenStore(processGapExtensions(c, id, w.g, w.o, w.ext), id, gid, w)

\* r is what became of the object, in a group that had so many bytes before.
\* This one counts the whole object for every chunk of it.
thenCount_whole(r, gid, before, w) ==
    IF r.ok THEN Done(evictForByteLimitIfNeeded([r.c EXCEPT !.total = @ + w.offset + w.bytes])) ELSE r

thenCount(r, gid, before, w) ==
    IF r.ok THEN Done(evictForByteLimitIfNeeded([r.c EXCEPT !.total = @ + r.c.grp[gid].bytes - before])) ELSE r

cacheObjectAndUpdateBytes(c, id, gid, w) == thenCount(cacheObject(c, id, gid, w), gid, c.grp[gid].bytes, w)

\* [hit, c]: an entry older than the cache duration is dropped.
getCachedObjectMaybe(c, id, l, expired) ==
    LET gid == c.trk[id].groups[GroupOf(l)]
        e == c.grp[gid].objects[ObjectOf(l)]
        dropped == [c EXCEPT !.grp[gid].objects = Without(@, ObjectOf(l)), !.grp[gid].bytes = @ - e.size,
                             !.total = @ - e.size, !.trk[id].content = @ \ {l}]
    IN  IF ~HasGroup(c, id, GroupOf(l)) THEN [hit |-> FALSE, c |-> c]
        ELSE IF ObjectOf(l) \notin DOMAIN c.grp[gid].objects THEN [hit |-> FALSE, c |-> c]
        ELSE IF expired THEN [hit |-> FALSE, c |-> dropped]
        ELSE [hit |-> e.done, c |-> c]
=============================================================================
