---------------------------- MODULE CacheWriters ----------------------------
(***************************************************************************)
(* What writes to the cache outside a FETCH, and what takes from it: the   *)
(* SubscribeWriteback of a live track, the SubgroupWritebacks of its open  *)
(* subgroups, purges, and the expiry of entries when they are looked up.   *)
(* Writers keep the track and the group they write to, and live on when    *)
(* these are evicted.  The publisher may send anything, well-formed or     *)
(* not.                                                                    *)
(***************************************************************************)
EXTENDS MoqxCache

CONSTANTS
    Subs,           \* SubscribeWritebacks
    Streams,        \* SubgroupWritebacks
    Groups,         \* groups the publisher writes to
    Objects,        \* objects the publisher writes
    Statuses,       \* statuses of single objects
    Extensions,     \* gap extensions of objects
    Datagrams,      \* whether single objects are datagrams
    Durations,      \* whether SUBSCRIBE_OK's cache duration is zero
    Largests,       \* the Largest of SUBSCRIBE_OK, or None
    ObjectLength    \* bytes of an object; one arrives with beginObject

ASSUME WritersAssumption == ObjectLength \in Nat \ {0}

VARIABLES
    c,              \* the cache
    subs,           \* the track of each SubscribeWriteback, 0 when there is none
    streams,        \* the state of each SubgroupWriteback
    holds           \* the tracks (ids) and groups (gids) that fetches hold

vars == <<c, subs, streams, holds>>

Closed == [id |-> 0, g |-> 0, gid |-> 0, o |-> 0, offset |-> 0, length |-> 0, caching |-> FALSE]

\* Tracks and groups live as long as something holds them.
Kept(d, ss, us, h) ==
    LET trk == Range(d.map) \cup Range(ss) \cup {us[u].id : u \in DOMAIN us} \cup h.ids
        keptTrk == trk \cap DOMAIN d.trk
        grp == (UNION {Range(d.trk[i].groups) : i \in keptTrk}) \cup {us[u].gid : u \in DOMAIN us} \cup h.gids
    IN  [d EXCEPT !.trk = [i \in keptTrk |-> @[i]], !.grp = [i \in grp \cap DOMAIN @ |-> @[i]]]

\* Nothing but a fetch reads what an evicted track or its groups hold: a writer
\* that finds its track evicted only passes objects on.
Forgotten(d, h) ==
    LET gone == {i \in DOMAIN d.trk : d.trk[i].evicted} \ h.ids
        held == (UNION {Range(d.trk[i].groups) : i \in DOMAIN d.trk \ gone}) \cup h.gids
    IN  [d EXCEPT !.trk = [i \in DOMAIN @ |-> IF i \in gone
                               THEN [NewTrack(@[i].name) EXCEPT !.evicted = TRUE, !.live = d.trk[i].live]
                               ELSE @[i]],
                  !.grp = [i \in DOMAIN @ |-> IF i \in held THEN @[i]
                                              ELSE [NewGroup EXCEPT !.pins = d.grp[i].pins]]]

Settled(d, ss, us, h) == Forgotten(Kept(d, ss, us, h), h)

Step(d, ss, us) ==
    /\ c' = Settled(d, ss, us, holds)
    /\ subs' = ss
    /\ streams' = us
    /\ UNCHANGED holds

WritersInit ==
    /\ c = NewCache
    /\ subs = [s \in Subs |-> 0]
    /\ streams = [u \in Streams |-> Closed]
    /\ holds = [ids |-> {}, gids |-> {}]
-----------------------------------------------------------------------------
(***************************************************************************)
(* SubscribeWriteback.                                                     *)
(***************************************************************************)
\* The constructor and the destructor, for track id.
Attach(d, id) == [removeTrackFromLRU(d, id) EXCEPT !.trk[id].live = @ + 1]
Detach(d, id) == onTrackBecameEvictable([d EXCEPT !.trk[id].live = @ - 1], d.trk[id].name)

getSubscribeWriteback(s, n) ==
    LET d == IF n \in DOMAIN c.map THEN c ELSE AddTrack(evictOldestTrackIfNeeded(c), n)
    IN  /\ subs[s] = 0
        /\ Step(Attach(d, d.map[n]), [subs EXCEPT ![s] = d.map[n]], streams)

DropSubscribeWriteback(s) ==
    /\ subs[s] # 0
    /\ Step(Detach(c, subs[s]), [subs EXCEPT ![s] = 0], streams)

\* One object in a call of its own.
WriteSingle(d, id, w) ==
    LET t == updateLargest(d.trk[id], Loc(w.g, w.o), w.st = "endOfTrack")
        e == getOrCreateGroupWithEviction([d EXCEPT !.trk[id] = t.t], id, w.g)
    IN  IF shouldSkipCaching(d.trk[id]) THEN d
        ELSE IF ~t.ok THEN [d EXCEPT !.trk[id] = t.t]
        ELSE cacheObjectAndUpdateBytes(e, id, e.trk[id].groups[w.g], w).c

Single(g, o, st, ext, datagram) ==
    [g |-> g, o |-> o, st |-> st, ext |-> ext, offset |-> 0, done |-> TRUE, datagram |-> datagram,
     bytes |-> IF st = "normal" THEN ObjectLength ELSE 0]

\* objectStream, or datagram.
WriteObject(s, g, o, st, ext, datagram) ==
    /\ subs[s] # 0
    /\ Step(WriteSingle(c, subs[s], Single(g, o, st, ext, datagram)), subs, streams)

beginSubgroup(s, u, g) ==
    LET id == subs[s]
        d == getOrCreateGroupWithEviction(c, id, g)
        gid == d.trk[id].groups[g]
    IN  /\ id # 0 /\ streams[u] = Closed
        /\ ~isGroupNonExistent(c.trk[id].gaps, g)
        /\ ~shouldSkipCaching(c.trk[id])
        /\ Step(pinGroup(d, id, g, gid), subs, [streams EXCEPT ![u] = [Closed EXCEPT !.id = id, !.g = g, !.gid = gid]])
-----------------------------------------------------------------------------
(***************************************************************************)
(* SubgroupWriteback.                                                      *)
(***************************************************************************)
\* [ok, c]: a write of stream x to its own group.
WriteIn(d, x, w) ==
    LET t == updateLargest(d.trk[x.id], Loc(x.g, w.o), w.st = "endOfTrack")
        e == [d EXCEPT !.trk[x.id] = t.t]
    IN  IF t.ok THEN cacheObjectAndUpdateBytes(e, x.id, x.gid, w) ELSE Fail(e)

Open(u) == streams[u] # Closed

\* object, endOfGroup and endOfTrackAndGroup.
StreamObject(u, o, st, ext) ==
    LET x == streams[u]
    IN  /\ Open(u) /\ ~shouldSkipCaching(c.trk[x.id])
        /\ Step(WriteIn(c, x, Single(x.g, o, st, ext, FALSE)).c, subs, streams)

\* The first byte of an object whose other bytes follow.
beginObject(u, o, ext) ==
    LET x == streams[u]
        skip == shouldSkipCaching(c.trk[x.id])
        w == [Single(x.g, o, "normal", ext, FALSE) EXCEPT !.bytes = 1, !.done = (1 = ObjectLength)]
        r == WriteIn(c, x, w)
        begun == IF r.ok THEN [x EXCEPT !.o = o, !.offset = 1, !.length = ObjectLength, !.caching = TRUE]
                 ELSE [x EXCEPT !.caching = TRUE]
    IN  /\ Open(u)
        /\ IF skip THEN Step(c, subs, [streams EXCEPT ![u].caching = FALSE])
           ELSE Step(r.c, subs, [streams EXCEPT ![u] = begun])

\* More bytes of it, up to its length.
objectPayload(u, n) ==
    LET x == streams[u]
        w == [Single(x.g, x.o, "normal", NoExtensions, FALSE) EXCEPT
                  !.offset = x.offset, !.bytes = n, !.done = (x.offset + n = x.length)]
        r == cacheObjectAndUpdateBytes(c, x.id, x.gid, w)
    IN  /\ Open(u) /\ x.offset + n <= x.length
        /\ x.caching /\ ~c.trk[x.id].evicted
        /\ Step(r.c, subs, IF r.ok THEN [streams EXCEPT ![u].offset = @ + n] ELSE streams)

DropSubgroupWriteback(u) ==
    LET x == streams[u]
    IN  /\ Open(u)
        /\ Step(unpinGroup(c, x.id, x.g, x.gid), subs, [streams EXCEPT ![u] = Closed])
-----------------------------------------------------------------------------
(***************************************************************************)
(* The other entries to the cache.                                         *)
(***************************************************************************)
SetTrackState(n, noCache, largest) == Step(setTrackState(c, n, noCache, largest), subs, streams)

Purge(names) ==
    /\ names \cap DOMAIN c.map # {}
    /\ Step(purge(c, names), subs, streams)

\* A FETCH looks at a location whose entry has expired.
Expire(n, l) ==
    LET r == getCachedObjectMaybe(c, c.map[n], l, TRUE)
    IN  /\ n \in DOMAIN c.map /\ r.c # c
        /\ Step(r.c, subs, streams)

Write ==
    \/ \E s \in Subs, g \in Groups, o \in Objects, st \in Statuses, ext \in Extensions, d \in Datagrams :
           WriteObject(s, g, o, st, ext, d)
    \/ \E u \in Streams, o \in Objects, ext \in Extensions :
           (\E st \in Statuses : StreamObject(u, o, st, ext)) \/ beginObject(u, o, ext)
    \/ \E u \in Streams, n \in 1 .. ObjectLength : objectPayload(u, n)

WritersNext ==
    \/ Write
    \/ \E s \in Subs : (\E n \in Names : getSubscribeWriteback(s, n)) \/ DropSubscribeWriteback(s)
    \/ \E s \in Subs, u \in Streams, g \in Groups : beginSubgroup(s, u, g)
    \/ \E u \in Streams : DropSubgroupWriteback(u)
    \/ \E n \in Names, noCache \in Durations, l \in Largests : SetTrackState(n, noCache, l)
    \/ \E names \in {{n} : n \in Names} \cup {Names} : Purge(names)
    \/ \E n \in Names, g \in Groups, o \in Objects : Expire(n, Loc(g, o))

WritersSpec == WritersInit /\ [][WritersNext]_vars
-----------------------------------------------------------------------------
(***************************************************************************)
(* Properties.                                                             *)
(***************************************************************************)
Cached == Range(c.map)
GroupIds(id) == Range(c.trk[id].groups)

\* totalCachedBytes_ is what the groups in the cache hold, and a group's
\* totalBytes what its entries hold, whatever was evicted, purged or expired
\* while writers were at work: evictGroup's check of the total cannot fail.
BytesAgree ==
    /\ c.total = MapThenSumSet(LAMBDA gid : c.grp[gid].bytes, UNION {GroupIds(id) : id \in Cached})
    /\ \A gid \in DOMAIN c.grp :
           c.grp[gid].bytes = MapThenSumSet(LAMBDA o : c.grp[gid].objects[o].size, DOMAIN c.grp[gid].objects)

\* The groups that nothing writes to, and they alone, are in the lists that
\* eviction takes from, once each; the lists have no entry for a track or a
\* group that is gone (the "stale entry" errors are never reached).  Every track
\* that nobody writes to or fetches any more can be evicted to make room, and
\* only those can.
ListsAgree ==
    /\ \A id \in Cached :
           LET t == c.trk[id]
           IN  /\ ToSet(t.groupLRU) = {g \in DOMAIN t.groups : c.grp[t.groups[g]].pins = 0}
               /\ Len(t.groupLRU) = Cardinality(ToSet(t.groupLRU))
               /\ \A g \in DOMAIN t.groups : c.grp[t.groups[g]].lru <=> g \in ToSet(t.groupLRU)
    /\ ToSet(c.globalLRU) = UNION {{<<c.trk[id].name, g>> : g \in ToSet(c.trk[id].groupLRU)} : id \in Cached}
    /\ Len(c.globalLRU) = Cardinality(ToSet(c.globalLRU))
    /\ {n \in DOMAIN c.map : c.trk[c.map[n]].live = 0 /\ c.map[n] \notin holds.ids} \subseteq ToSet(c.trackLRU)
    /\ \A n \in ToSet(c.trackLRU) : n \in DOMAIN c.map /\ canEvict(c.trk[c.map[n]])
    /\ Len(c.trackLRU) = Cardinality(ToSet(c.trackLRU))

\* cachedContent is what the header says it is: the complete objects and the
\* known gaps.
ContentIsUnion ==
    \A id \in Cached :
        LET t == c.trk[id]
            complete == {Loc(g, o) : g \in DOMAIN t.groups, o \in Objects}
        IN  t.content = t.gaps \cup
                {l \in complete : LET e == c.grp[t.groups[GroupOf(l)]].objects
                                  IN  ObjectOf(l) \in DOMAIN e /\ e[ObjectOf(l)].done}

\* A write leaves the cache within its bytes, or else every group left is being
\* written or is the newest of a live track.
LimitIsKept ==
    [][Write /\ c'.total > c.total /\ maxCachedBytes > 0 /\ c'.total > maxCachedBytes =>
           \A id \in Range(c'.map) : \A g \in DOMAIN c'.trk[id].groups :
               c'.grp[c'.trk[id].groups[g]].pins > 0 \/ isJoinPoint(c'.trk[id], g)]_vars
=============================================================================
