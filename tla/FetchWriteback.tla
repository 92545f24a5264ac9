--------------------------- MODULE FetchWriteback ---------------------------
(***************************************************************************)
(* FetchWriteback: what an upstream FETCH writes to the cache while it     *)
(* passes the objects on.  A method is an operator on [c, w, ok]: the      *)
(* cache, the writeback, and whether the upstream's call succeeded.        *)
(*                                                                         *)
(* w.post is set when a method posts inProgress_: the lookups that wait on *)
(* the writeback are then resumed.  The pending gaps are one set, and the  *)
(* writeback's entry in fetchesInProgress is the one with its fetch f.     *)
(***************************************************************************)
EXTENDS CacheWriters

(***************************************************************************)
(* The iterator remembers the last group it looked up, also when the track *)
(* did not have it, and keeps the group alive.                             *)
(***************************************************************************)
NoMemo == [g |-> None, gid |-> 0]
NoIterator == [memo |-> NoMemo, endMemo |-> NoMemo, cur |-> None, max |-> None, valid |-> FALSE]

Remembered(d, id, memo, g) ==
    IF memo.g = g THEN memo
    ELSE [g |-> g, gid |-> IF HasGroup(d, id, g) THEN d.trk[id].groups[g] ELSE 0]

Facts(d, memo) == IF memo.gid = 0 THEN NoGroup ELSE GroupFacts(d, memo.gid)

newIterator(d, id, start, last, order) ==
    FetchRangeIterator(start, last, order, d.trk[id], GroupIn(d, id, GroupOf(start)))
        @@ [memo |-> NoMemo, endMemo |-> NoMemo]

iteratorNext(d, id, it) ==
    LET stays == ~it.valid \/ it.cur = it.end \/ GroupOf(it.cur) = GroupOf(it.max)
        memo == IF stays THEN it.memo ELSE Remembered(d, id, it.memo, GroupOf(it.cur))
    IN  [next(it, d.trk[id], Facts(d, memo)) EXCEPT !.memo = memo]

iteratorEnd(d, id, it) ==
    LET t == d.trk[id]
        stays == \/ ~it.valid \/ ~Descending(it)
                 \/ t.eot /\ it.cur > t.largest
                 \/ GroupOf(it.end) = GroupOf(it.max)
        memo == IF stays THEN it.endMemo ELSE Remembered(d, id, it.endMemo, GroupOf(it.end))
    IN  [end(it, t, Facts(d, memo)) EXCEPT !.endMemo = memo]
-----------------------------------------------------------------------------
(***************************************************************************)
(* fetchesInProgress: a multimap, as a sequence in the order of its keys.  *)
(***************************************************************************)
Emplaced(s, e) == InsertAt(s, Cardinality({i \in DOMAIN s : s[i].key <= e.key}) + 1, e)

findFetchInProgress(t, l) ==
    LET s == t.inProgress
        over == {i \in DOMAIN s : s[i].key <= l /\ l >= s[i].progress /\ l < s[i].end}
    IN  IF over = {} THEN None ELSE s[Max(over)].f

emplaceAndPinGroup(x, l, progress) ==
    LET id == x.w.id
        g == GroupOf(l)
        entry == [f |-> x.w.f, key |-> l, progress |-> progress, end |-> x.w.it.max]
        d == [x.c EXCEPT !.trk[id].inProgress = Emplaced(@, entry)]
        e == IF HasGroup(d, id, g) THEN d ELSE AddGroup(evictOldestGroupsIfNeeded(d, id), id, g)
        gid == e.trk[id].groups[g]
    IN  [x EXCEPT !.c = pinGroup(e, id, g, gid), !.w.key = l, !.w.pinned = gid]

eraseAndMakeGroupEvictable(x) ==
    LET id == x.w.id
        d == [x.c EXCEPT !.trk[id].inProgress = SelectSeq(@, LAMBDA e : e.f # x.w.f)]
    IN  IF x.w.key = None THEN x
        ELSE [x EXCEPT !.c = unpinGroup(d, id, GroupOf(x.w.key), x.w.pinned),
                       !.w.key = None, !.w.pinned = 0]

\* The entry follows the cursor, into another group too, until the range ends.
updateInProgress(x) ==
    LET id == x.w.id
        cur == x.w.it.cur
        posted == [x EXCEPT !.w.post = TRUE]
        moved == [posted EXCEPT !.c.trk[id].inProgress =
                     [i \in DOMAIN @ |-> IF @[i].f = x.w.f THEN [@[i] EXCEPT !.progress = cur] ELSE @[i]]]
        erased == eraseAndMakeGroupEvictable(moved)
    IN  IF x.w.key = None THEN posted
        ELSE IF ~x.w.it.valid THEN erased
        ELSE IF GroupOf(cur) <= GroupOf(x.w.key) THEN moved
        ELSE IF cur < x.w.it.max THEN emplaceAndPinGroup(erased, cur, cur) ELSE erased

\* What a closed writeback is, and the constructor and the destructor.
Nothing == [f |-> None, id |-> 0, it |-> NoIterator, proxyFin |-> FALSE, caching |-> FALSE, key |-> None,
            pinned |-> 0, post |-> FALSE, upstreamEnd |-> None, largestReceived |-> None,
            pending |-> {}, accepted |-> FALSE, offset |-> 0, complete |-> FALSE, wasReset |-> FALSE]

newWriteback(d, f, id, start, last, order, proxyFin) ==
    LET caching == ~shouldSkipCaching(d.trk[id])
        w == [Nothing EXCEPT !.f = f, !.id = id, !.it = newIterator(d, id, start, last, order),
                             !.proxyFin = proxyFin, !.caching = caching]
        x == [c |-> removeTrackFromLRU(d, id), w |-> w, ok |-> TRUE]
    IN  IF caching THEN emplaceAndPinGroup(x, start, start) ELSE x

dropWriteback(x) ==
    LET y == eraseAndMakeGroupEvictable(x)
    IN  [y EXCEPT !.c = onTrackBecameEvictable(@, @.trk[x.w.id].name), !.w.post = TRUE]
-----------------------------------------------------------------------------
(***************************************************************************)
(* Gaps.  An upstream that skips a position shows that nothing is there,   *)
(* but only below the End Location of its FETCH_OK: until it is known, the *)
(* part above the largest object received is held back.                    *)
(***************************************************************************)
skipCaching(x) == ~x.w.caching \/ x.c.trk[x.w.id].evicted

\* Without waiting for the End Location of FETCH_OK.
recordGap_early(x, locs) == [x EXCEPT !.c.trk[x.w.id] = insertGap(@, locs)]

recordGap(x, locs) ==
    LET bound == IF x.w.upstreamEnd = None THEN x.w.largestReceived ELSE x.w.upstreamEnd
        known == {l \in locs : l < bound}
        y == [x EXCEPT !.c.trk[x.w.id] = insertGap(@, known)]
    IN  IF x.w.upstreamEnd = None THEN [y EXCEPT !.w.pending = @ \cup (locs \ known)] ELSE y

markNonExistentTo(x, l) ==
    LET it == x.w.it
        y == recordGap(x, getGapRanges(it.cur, l, it.order, it.min, it.max))
    IN  IF it.cur = l THEN x
        ELSE [y EXCEPT !.w.it = advanceTo(it, l, y.c.trk[x.w.id])]

finishRange(x) ==
    LET it == iteratorEnd(x.c, x.w.id, x.w.it)
        y == markNonExistentTo([x EXCEPT !.w.it = it], it.end)
    IN  [y EXCEPT !.w.it = invalidate(@)]

setUpstreamEnd(x, last) ==
    recordGap([x EXCEPT !.w.upstreamEnd = last, !.w.pending = {}], x.w.pending)

onFetchStreamEnd(x) ==
    LET y == IF skipCaching(x) THEN [x EXCEPT !.w.it = invalidate(@)] ELSE finishRange(x)
    IN  [updateInProgress(y) EXCEPT !.w.complete = TRUE]
-----------------------------------------------------------------------------
(***************************************************************************)
(* The calls of the upstream session.                                      *)
(***************************************************************************)
moveOn(x) == [x EXCEPT !.w.it = iteratorNext(x.c, x.w.id, @)]

\* An object at l that was stored, x.ok, or refused: the cursor passes one that
\* is complete.
passObject(x, l, w, fin) ==
    LET t == updateLargest(x.c.trk[x.w.id], l, w.st = "endOfTrack")
        y == [x EXCEPT !.c.trk[x.w.id] = t.t]
        passed == updateInProgress(moveOn(y))
    IN  IF ~x.ok THEN updateInProgress(x)
        ELSE IF ~t.ok THEN [updateInProgress(y) EXCEPT !.ok = FALSE]
        ELSE IF ~w.done THEN y
        ELSE IF fin THEN [updateInProgress(finishRange(passed)) EXCEPT !.w.complete = TRUE]
        ELSE passed

\* What became of the object is r; nothing is between the cursor and it.
received(x, r, l) ==
    markNonExistentTo([x EXCEPT !.c = r.c, !.ok = r.ok, !.w.largestReceived = Max({@, l})], l)

\* Writes w to its group, which is in d.
cacheIn(d, id, w) == cacheObjectAndUpdateBytes(d, id, d.trk[id].groups[w.g], w)

cacheImpl(x, w, fin) ==
    LET l == Loc(w.g, w.o)
        r == cacheIn(getOrCreateGroupWithEviction(x.c, x.w.id, w.g), x.w.id, w)
    IN  passObject(received(x, r, l), l, w, fin)

checkInRange(x, l) == x.w.it.min <= l /\ l < x.w.it.max

writebackReset(x) ==
    updateInProgress([x EXCEPT !.w.wasReset = TRUE, !.w.complete = TRUE, !.w.it = invalidate(@)])

\* object, endOfGroup or endOfTrackAndGroup, by the status; the last of these
\* ends the stream.
writebackObject(x, l, st, fin) ==
    LET w == Single(GroupOf(l), ObjectOf(l), st, NoExtensions, FALSE)
        last == fin \/ st = "endOfTrack"
    IN  IF ~checkInRange(x, l) THEN [x EXCEPT !.ok = FALSE]
        ELSE IF ~skipCaching(x) THEN cacheImpl(x, w, last)
        ELSE IF last THEN onFetchStreamEnd(x) ELSE x

writebackBegin(x, l) ==
    LET w == [Single(GroupOf(l), ObjectOf(l), "normal", NoExtensions, FALSE) EXCEPT
                  !.bytes = 1, !.done = (1 = ObjectLength)]
        y == [x EXCEPT !.w.accepted = checkInRange(x, l)]
        offset(r) == [r EXCEPT !.w.offset = IF r.ok THEN 1 ELSE @]
    IN  IF ~checkInRange(x, l) THEN [y EXCEPT !.ok = FALSE]
        ELSE IF skipCaching(x) THEN y ELSE offset(cacheImpl(y, w, FALSE))

\* Leaves the cursor on the completed object.
writebackPayload_stays(x, n, fin) ==
    LET l == x.w.it.cur
        w == [Single(GroupOf(l), ObjectOf(l), "normal", NoExtensions, FALSE) EXCEPT
                  !.offset = x.w.offset, !.bytes = n, !.done = (x.w.offset + n = ObjectLength)]
        r == cacheObjectAndUpdateBytes(x.c, x.w.id, x.c.trk[x.w.id].groups[w.g], w)
    IN  updateInProgress([x EXCEPT !.c = r.c, !.w.offset = @ + n])

\* The bytes go to the object at the cursor; one that is complete, or the end
\* of the fetch, moves the cursor.
writebackPayload(x, n, fin) ==
    LET l == x.w.it.cur
        done == x.w.offset + n = ObjectLength
        w == [Single(GroupOf(l), ObjectOf(l), "normal", NoExtensions, FALSE) EXCEPT
                  !.offset = x.w.offset, !.bytes = n, !.done = done]
        added(r) == [x EXCEPT !.c = r.c, !.ok = r.ok, !.w.offset = IF r.ok THEN @ + n ELSE @]
        moved(y) == IF ~y.ok \/ ~(done \/ fin) THEN y
                    ELSE updateInProgress(IF fin THEN finishRange(moveOn(y)) ELSE moveOn(y))
    IN  IF ~x.w.accepted THEN [x EXCEPT !.ok = FALSE]
        ELSE IF skipCaching(x) THEN IF fin THEN onFetchStreamEnd(x) ELSE x
        ELSE IF x.w.offset + n > ObjectLength THEN [writebackReset(x) EXCEPT !.ok = FALSE]
        ELSE moved(added(IF HasGroup(x.c, x.w.id, w.g) THEN cacheIn(x.c, x.w.id, w) ELSE Done(x.c)))

\* The upstream does not know what is up to l: nothing is recorded about it.
endOfUnknownRange(x, l, fin) ==
    LET y == [x EXCEPT !.w.it = advanceTo(@, l, x.c.trk[x.w.id])]
        z == updateInProgress(moveOn(y))
    IN  IF fin THEN [z EXCEPT !.w.complete = TRUE] ELSE z
=============================================================================
