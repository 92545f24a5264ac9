----------------------------- MODULE CacheFetch -----------------------------
(***************************************************************************)
(* FETCH through the cache: MoqxCache::fetch, fetchImpl and fetchUpstream, *)
(* several at a time, with the upstream that answers their misses and the  *)
(* live subscription that also writes to the cache.                        *)
(*                                                                         *)
(* All run on one executor.  A coroutine runs alone (running) until it     *)
(* awaits something: another fetch's progress, the upstream's FETCH_OK,    *)
(* the end of an upstream's stream, or a consumer that is BLOCKED.  The    *)
(* upstream is well-formed: it has the objects of Truth up to edge, sends  *)
(* what it has of a range in order, and its FETCH_OK may come before,      *)
(* between or after the objects.                                           *)
(***************************************************************************)
EXTENDS FetchWriteback

CONSTANTS
    Fetches,        \* the FETCH requests of downstream
    Requests,       \* what each may ask: name, start, end (as on the wire), order
    Truth,          \* the objects the publisher will ever have, with their status
    FirstEdge,      \* the last of them it has at first
    Scenarios       \* sets of what else may happen: see the actions

ASSUME FetchAssumption ==
    /\ FirstEdge \in DOMAIN Truth
    /\ \A f \in Fetches : \A r \in Requests[f] : r.name \in Names /\ r.order \in Orders /\ r.start < toExclusiveEnd(r.end)
    /\ Scenarios \subseteq SUBSET {"fetch", "writers", "purge", "live", "chunks", "fin", "payloadFin", "unknown", "reset", "error",
                                  "cancel", "blocked", "expire"}

VARIABLES
    fetches,        \* the fetch coroutines, with what their consumers got
    wbs,            \* the FetchWriteback of each, if any
    ups,            \* the upstream's answer to each
    edge,           \* the last object the publisher has published
    running,        \* the coroutine that is running, or None
    options         \* the scenario

fetchVars == <<c, subs, streams, holds, fetches, wbs, ups, edge, running, options>>

NoHit == [gid |-> 0, l |-> None]
NoRequest == [name |-> None, start |-> None, end |-> None, order |-> None]

(***************************************************************************)
(* pc: idle, starting (scheduled), loop, waiting (in waitFor), hit (about  *)
(* to publish), asked (awaits FETCH_OK), complete (awaits the end of the   *)
(* upstream's stream), blocked, over.  answer is the consumer's stream:    *)
(* open, fin, reset (or the request refused), or twice when it was ended   *)
(* again.                                                                  *)
(***************************************************************************)
IdleFetch == [pc |-> "idle", req |-> NoRequest, id |-> 0, end |-> None, it |-> NoIterator, miss |-> None,
              ivs |-> <<>>, tail |-> FALSE, held |-> NoHit, flush |-> FALSE, on |-> None,
              woken |-> FALSE, gone |-> FALSE, last |-> FALSE, served |-> FALSE, handle |-> FALSE,
              cancelled |-> FALSE, ok |-> None, got |-> <<>>, due |-> {},
              answer |-> "open", refused |-> FALSE]

NoUpstream == [open |-> FALSE, due |-> <<>>, partial |-> FALSE, answered |-> FALSE, end |-> None, eot |-> FALSE]

FetchInit ==
    /\ WritersInit
    /\ fetches = [f \in Fetches |-> IdleFetch]
    /\ wbs = [f \in Fetches |-> Nothing]
    /\ ups = [f \in Fetches |-> NoUpstream]
    /\ edge = FirstEdge
    /\ running = None
    /\ options \in Scenarios
-----------------------------------------------------------------------------
(***************************************************************************)
(* A step ends with the waiting lookups resumed that a writeback posted,   *)
(* and the tracks and groups freed that nothing holds.  Dropped writebacks *)
(* are Nothing again.                                                      *)
(***************************************************************************)
GroupsHeld(F, w) ==
    {F.it.memo.gid, F.it.endMemo.gid, w.it.memo.gid, w.it.endMemo.gid, w.pinned, F.held.gid}

Put(d, fs, ws) ==
    LET resumed(F) == F.pc = "waiting" /\ ws[F.on].post
        awake == [f \in Fetches |-> IF resumed(fs[f])
                                    THEN [fs[f] EXCEPT !.woken = TRUE, !.gone = @ \/ ws[fs[f].on].f = None]
                                    ELSE fs[f]]
        quiet == [f \in Fetches |-> [ws[f] EXCEPT !.post = FALSE]]
        h == [ids |-> UNION {{awake[f].id, quiet[f].id} : f \in Fetches},
              gids |-> UNION {GroupsHeld(awake[f], quiet[f]) : f \in Fetches}]
    IN  /\ fetches' = awake
        /\ wbs' = quiet
        /\ c' = Settled(d, subs', streams, h)
        /\ holds' = h
        /\ UNCHANGED <<streams, options>>

\* Fetch f goes on as F, with cache d and writeback w.
Go(f, d, F, w) == Put(d, [fetches EXCEPT ![f] = F], [wbs EXCEPT ![f] = w])
GoWith(f, x, F) == Go(f, x.c, F, x.w)

\* What is left of a coroutine that has returned.
Over(F) == [IdleFetch EXCEPT !.pc = "over", !.req = F.req, !.ok = F.ok, !.got = F.got, !.due = F.due,
                             !.answer = F.answer, !.refused = F.refused]

\* The consumer gets the object at l, or the news that l is unknown; one that
\* was reset takes nothing.
Got(F, l) == IF F.answer = "reset" THEN F ELSE [F EXCEPT !.got = Append(@, l)]

\* endOfFetch, or a fin.
Ended(F) == [F EXCEPT !.answer = CASE @ = "open" -> "fin" [] @ = "reset" -> "reset" [] OTHER -> "twice"]
Reset(F) == [F EXCEPT !.answer = IF @ = "open" THEN "reset" ELSE @]

\* Without the post in the destructor.
Dropped_silent == Nothing

Dropped == [Nothing EXCEPT !.post = TRUE]
Pair(f) == [c |-> c, w |-> wbs[f], ok |-> TRUE]

\* The objects of a range the upstream has, in the order it sends them.
Sent(first, last, order) ==
    LET has == {l \in DOMAIN Truth : first <= l /\ l < last /\ l <= edge}
        before(a, b) == IF order = "newestFirst" /\ GroupOf(a) # GroupOf(b) THEN a > b ELSE a < b
    IN  SetToSortSeq(has, before)

Upstream(first, last, order) ==
    LET ends == last > edge
    IN  [NoUpstream EXCEPT !.open = TRUE, !.due = Sent(first, last, order),
             !.end = IF first > edge THEN None ELSE IF ends THEN edge + 1 ELSE last,
             !.eot = ends /\ Truth[edge] = "endOfTrack"]

\* How far the relay knows a track: what the publisher has, or on a live track
\* the Largest it was told.
Horizon(n) ==
    IF n \in DOMAIN c.map /\ c.trk[c.map[n]].live > 0 /\ c.trk[c.map[n]].largest # None
    THEN c.trk[c.map[n]].largest ELSE edge

\* fetchUpstream up to its co_await: the first of the intervals left.  Those
\* that waited for the writeback of the interval before are done with waiting.
Ask(f, d, F) ==
    LET iv == Head(F.ivs)
        proxyFin == F.tail /\ Len(F.ivs) = 1
        x == newWriteback(d, f, F.id, iv[1], iv[2], F.req.order, proxyFin)
        released == [g \in Fetches |-> IF fetches[g].pc = "waiting" /\ fetches[g].on = f
                                       THEN [fetches[g] EXCEPT !.woken = TRUE, !.gone = TRUE] ELSE fetches[g]]
    IN  /\ Put(x.c, [released EXCEPT ![f] = [F EXCEPT !.pc = "asked"]], [wbs EXCEPT ![f] = x.w])
        /\ ups' = [ups EXCEPT ![f] = Upstream(iv[1], iv[2], F.req.order)]
        /\ running' = None
-----------------------------------------------------------------------------
(***************************************************************************)
(* fetch: a track that is not in the cache is asked of upstream as it is;  *)
(* one that is live, or known up to the end of the range, is answered with *)
(* FETCH_OK at once and fetchImpl is scheduled; else fetchImpl runs first. *)
(***************************************************************************)
fetch(f, r) ==
    LET end_ == toExclusiveEnd(r.end)
        F == [IdleFetch EXCEPT !.req = r, !.end = end_,
                  !.due = {l \in DOMAIN Truth : r.start <= l /\ l < end_ /\ l <= Horizon(r.name)}]
        id == c.map[r.name]
        t == c.trk[id]
        added == AddTrack(c, r.name)
        newId == added.map[r.name]
        listed == addTrackToLRU(evictOldestTrackIfNeeded(added), newId)
        x == newWriteback(listed, f, newId, r.start, end_, r.order, TRUE)
        okEnd == fetchOkEnd(t, r.start, end_).end
        now == t.largest # None /\ (t.live > 0 \/ end_ - 1 <= t.largest)
    IN  /\ running = None /\ fetches[f].pc = "idle" /\ "fetch" \in options
        /\ UNCHANGED <<edge, subs>>
        /\ IF r.name \notin DOMAIN c.map
           THEN /\ GoWith(f, x, [F EXCEPT !.pc = "asked", !.id = newId, !.tail = TRUE,
                                          !.ivs = <<<<r.start, end_>>>>])
                /\ ups' = [ups EXCEPT ![f] = Upstream(r.start, end_, r.order)]
                /\ UNCHANGED running
           ELSE IF now
           THEN /\ Go(f, c, [F EXCEPT !.pc = "starting", !.id = id, !.end = okEnd, !.ok = okEnd,
                                      !.handle = TRUE], Nothing)
                /\ UNCHANGED <<ups, running>>
           ELSE /\ Go(f, c, [F EXCEPT !.pc = "loop", !.id = id,
                                      !.it = newIterator(c, id, r.start, end_, r.order)], Nothing)
                /\ running' = f
                /\ UNCHANGED ups

Start(f) ==
    LET F == fetches[f]
    IN  /\ running = None /\ F.pc = "starting"
        /\ UNCHANGED <<ups, edge, subs>>
        /\ Go(f, c, [F EXCEPT !.pc = "loop", !.it = newIterator(c, F.id, F.req.start, F.end, F.req.order)],
              wbs[f])
        /\ running' = f

\* The loop is left: a miss that is still open goes upstream to the end.
Leave(f, F) ==
    LET ivs == getFetchIntervals(F.it.min, F.it.max, F.miss, F.it.cur, F.req.order, TRUE)
        G == IF F.last /\ F.served THEN F ELSE Ended(F)
        ok == IF F.handle THEN F.ok ELSE fetchOkEnd(c.trk[F.id], F.req.start, F.end).end
    IN  IF F.miss # None THEN Ask(f, c, [F EXCEPT !.ivs = ivs, !.tail = TRUE])
        ELSE /\ Go(f, c, Over([G EXCEPT !.ok = ok]), wbs[f])
             /\ running' = None
             /\ UNCHANGED ups

\* The rest of an iteration, once no fetch in progress is waited for.
Lookup(f, d, F, expired) ==
    LET cur == F.it.cur
        r == IF F.flush THEN [hit |-> FALSE, c |-> d] ELSE getCachedObjectMaybe(d, F.id, cur, expired)
        t == r.c.trk[F.id]
        missed == ~F.flush /\ ~r.hit /\ cur \notin t.gaps
        G == [F EXCEPT !.held = IF r.hit THEN [gid |-> t.groups[GroupOf(cur)], l |-> cur] ELSE NoHit]
        goOn == CASE missed -> [F EXCEPT !.miss = OrElse(@, cur), !.it = skipUncached(@, t)]
                  [] r.hit  -> [G EXCEPT !.pc = "hit"]
                  [] OTHER  -> [G EXCEPT !.it = skipGaps(@, t)]
        ivs == getFetchIntervals(F.it.min, F.it.max, F.miss, cur, F.req.order, FALSE)
    IN  IF missed \/ F.miss = None
        THEN Go(f, r.c, goOn, wbs[f]) /\ running' = f /\ UNCHANGED ups
        ELSE Ask(f, r.c, [G EXCEPT !.ivs = ivs, !.tail = FALSE])

\* After waitFor: a gap may have come to the position.
Resumed(f, F, expired) ==
    LET it == skipGaps(F.it, c.trk[F.id])
        G == [F EXCEPT !.pc = "loop", !.it = it, !.on = None, !.woken = FALSE, !.gone = FALSE]
    IN  IF it.cur # F.it.cur
        THEN Go(f, c, G, wbs[f]) /\ running' = f /\ UNCHANGED ups
        ELSE Lookup(f, c, G, expired)

mustWait(l, w) == l < w.it.max /\ w.it.valid /\ l >= w.it.cur

\* One iteration of fetchImpl's loop, up to its first co_await.
Loop(f, expired) ==
    LET F == [fetches[f] EXCEPT !.it = iteratorEnd(c, fetches[f].id, @), !.flush = FALSE]
        cur == F.it.cur
        on == findFetchInProgress(c.trk[F.id], cur)
    IN  /\ running = f /\ F.pc = "loop"
        /\ UNCHANGED <<edge, subs>>
        /\ IF F.cancelled \/ cur = F.it.end THEN ~expired /\ Leave(f, F)
           ELSE IF on = None THEN Lookup(f, c, F, expired)
           ELSE IF F.miss # None THEN ~expired /\ Lookup(f, c, [F EXCEPT !.flush = TRUE], FALSE)
           ELSE IF mustWait(cur, wbs[on])
           THEN /\ ~expired
                /\ Go(f, c, [F EXCEPT !.pc = "waiting", !.on = on], wbs[f])
                /\ running' = None
                /\ UNCHANGED ups
           ELSE Resumed(f, F, expired)

\* waitFor is resumed, and goes on or waits again.
Wake(f, expired) ==
    LET F == fetches[f]
    IN  /\ running = None /\ F.pc = "waiting" /\ F.woken
        /\ UNCHANGED <<edge, subs>>
        /\ IF ~F.gone /\ mustWait(F.it.cur, wbs[F.on])
           THEN ~expired /\ Go(f, c, [F EXCEPT !.woken = FALSE], wbs[f]) /\ UNCHANGED <<ups, running>>
           ELSE Resumed(f, F, expired)

(***************************************************************************)
(* publish HIT, and the three answers of the consumer.                     *)
(***************************************************************************)
\* The consumer took the object, and the iterator goes on to it.
Served(F, it) ==
    LET last == it.cur = it.end
        G == [Got(F, F.held.l) EXCEPT !.it = it, !.held = NoHit, !.last = last, !.served = TRUE]
    IN  IF last \/ Truth[F.held.l] = "endOfTrack" THEN Ended(G) ELSE G

Publish(f, result) ==
    LET F == fetches[f]
        H == Served(F, iteratorEnd(c, F.id, iteratorNext(c, F.id, F.it)))
    IN  /\ running = f /\ F.pc = "hit"
        /\ F.answer = "reset" => result = "error"
        /\ UNCHANGED <<ups, edge, subs>>
        /\ CASE result = "done"    -> Go(f, c, [H EXCEPT !.pc = "loop"], wbs[f]) /\ running' = f
             [] result = "blocked" -> Go(f, c, [H EXCEPT !.pc = "blocked"], wbs[f]) /\ running' = None
             [] result = "error"   -> Go(f, c, Over(Reset(F)), wbs[f]) /\ running' = None

\* handleBlocked returns: the consumer takes more, or it has failed.
Unblocked(f, failed) ==
    LET F == fetches[f]
    IN  /\ running = None /\ F.pc = "blocked"
        /\ UNCHANGED <<ups, edge, subs>>
        /\ IF failed THEN Go(f, c, Over(Reset(F)), wbs[f]) /\ UNCHANGED running
           ELSE Go(f, c, [F EXCEPT !.pc = "loop"], wbs[f]) /\ running' = f

\* fetchCancel, by the holder of the FetchHandle.
fetchCancel(f) ==
    LET F == Reset(fetches[f])
    IN  /\ running = None /\ "cancel" \in options
        /\ F.ok # None /\ fetches[f].answer = "open"
        /\ UNCHANGED <<ups, edge, subs, running>>
        /\ Go(f, c, IF F.pc = "over" THEN F ELSE [F EXCEPT !.cancelled = TRUE], wbs[f])
-----------------------------------------------------------------------------
(***************************************************************************)
(* fetchUpstream goes on.                                                  *)
(***************************************************************************)
\* The track was new: fetch hands on the upstream's answer, without fetchImpl.
Direct(F) == F.it = NoIterator

\* FETCH_OK.  The last request of a fetch needs no more of the coroutine, and
\* the stream goes on without it.
UpstreamOk(f) ==
    LET F == fetches[f]
        u == ups[f]
        x == setUpstreamEnd(Pair(f), u.end)
        d == IF u.eot THEN [x.c EXCEPT !.trk[F.id] = updateLargest(@, u.end - 1, TRUE).t] ELSE x.c
        lastOne == F.tail /\ Len(F.ivs) = 1
        ok == IF F.handle THEN F.ok
              ELSE IF F.req.order = "newestFirst" /\ ~Direct(F) THEN fetchOkEnd(d.trk[F.id], F.req.start, F.end).end
              ELSE u.end
        y == dropWriteback([x EXCEPT !.c = d])
        G == [F EXCEPT !.pc = "complete"]
        H == Over([F EXCEPT !.ok = ok])
    IN  /\ running = None /\ F.pc = "asked" /\ u.end # None
        /\ UNCHANGED <<edge, subs, running>>
        /\ ups' = [ups EXCEPT ![f].answered = TRUE]
        /\ IF ~lastOne THEN Go(f, d, G, x.w)
           ELSE IF u.open THEN Go(f, d, H, x.w) ELSE Go(f, y.c, H, Dropped)

UpstreamError(f) ==
    LET F == fetches[f]
        y == dropWriteback(Pair(f))
    IN  /\ running = None /\ F.pc = "asked"
        /\ ups[f].end = None \/ ("error" \in options /\ wbs[f].largestReceived = None)
        /\ UNCHANGED <<edge, subs, running>>
        /\ ups' = [ups EXCEPT ![f] = NoUpstream]
        /\ Go(f, y.c, Over(Reset(F)), Dropped)

\* complete() returns: the next interval, or the boundary that was met.
StreamComplete(f) ==
    LET F == fetches[f]
        y == dropWriteback(Pair(f))
        G == [F EXCEPT !.pc = "loop", !.ivs = <<>>, !.miss = None]
        goOn == CASE F.flush       -> G
                  [] F.held = NoHit -> [G EXCEPT !.it = skipGaps(@, y.c.trk[F.id])]
                  [] OTHER         -> [G EXCEPT !.pc = "hit"]
    IN  /\ running = None /\ F.pc = "complete" /\ wbs[f].complete
        /\ UNCHANGED <<edge, subs>>
        /\ IF wbs[f].wasReset
           THEN Go(f, y.c, Over(F), Dropped) /\ UNCHANGED running /\ ups' = [ups EXCEPT ![f] = NoUpstream]
           ELSE IF Len(F.ivs) > 1 THEN Ask(f, y.c, [F EXCEPT !.ivs = Tail(@)])
           ELSE Go(f, y.c, goOn, Dropped) /\ running' = f /\ ups' = [ups EXCEPT ![f] = NoUpstream]
-----------------------------------------------------------------------------
(***************************************************************************)
(* The upstream's stream.                                                  *)
(***************************************************************************)
\* The writeback passes the call on as F, unless it refused it; once the
\* stream is over, the session lets go of the writeback.
Delivered(f, x, F, u) ==
    LET held == fetches[f].pc \in {"asked", "complete"}
        y == IF x.ok THEN x ELSE writebackReset(x)
        G == IF x.ok THEN F ELSE Reset([fetches[f] EXCEPT !.refused = TRUE])
        over == ~u.open \/ ~x.ok
    IN  /\ running = None
        /\ UNCHANGED <<edge, subs, running>>
        /\ ups' = [ups EXCEPT ![f] = IF over THEN [u EXCEPT !.open = FALSE, !.due = <<>>] ELSE u]
        /\ GoWith(f, IF over /\ ~held THEN [dropWriteback(y) EXCEPT !.w = Dropped] ELSE y, G)

Streaming(f) == ups[f].open

\* object, endOfGroup and endOfTrackAndGroup.
UpstreamObject(f, fin) ==
    LET u == ups[f]
        l == Head(u.due)
        ends == fin \/ Truth[l] = "endOfTrack"
        F == Got(fetches[f], l)
        fins == (fin /\ wbs[f].proxyFin) \/ Truth[l] = "endOfTrack"
    IN  /\ Streaming(f) /\ u.due # <<>> /\ ~u.partial
        /\ fin => "fin" \in options /\ Len(u.due) = 1
        /\ Delivered(f, writebackObject(Pair(f), l, Truth[l], fin), IF fins THEN Ended(F) ELSE F,
                     [u EXCEPT !.due = Tail(@), !.open = ~ends])

UpstreamBegin(f) ==
    LET u == ups[f]
        l == Head(u.due)
    IN  /\ Streaming(f) /\ u.due # <<>> /\ ~u.partial /\ "chunks" \in options /\ Truth[l] = "normal"
        /\ Delivered(f, writebackBegin(Pair(f), l), fetches[f], [u EXCEPT !.partial = TRUE])

UpstreamPayload(f, fin) ==
    LET u == ups[f]
        F == Got(fetches[f], Head(u.due))
    IN  /\ Streaming(f) /\ u.partial
        /\ fin => "payloadFin" \in options /\ Len(u.due) = 1
        /\ Delivered(f, writebackPayload(Pair(f), ObjectLength - 1, fin),
                     IF fin /\ wbs[f].proxyFin THEN Ended(F) ELSE F,
                     [u EXCEPT !.due = Tail(@), !.partial = FALSE, !.open = ~fin])

UpstreamUnknown(f) ==
    LET u == ups[f]
        l == Head(u.due)
    IN  /\ Streaming(f) /\ u.due # <<>> /\ ~u.partial /\ "unknown" \in options
        /\ Delivered(f, endOfUnknownRange(Pair(f), l, FALSE), Got(fetches[f], l), [u EXCEPT !.due = Tail(@)])

endOfFetch(f) ==
    LET F == fetches[f]
    IN  /\ Streaming(f) /\ ups[f].due = <<>> /\ ups[f].end # None
        /\ Delivered(f, onFetchStreamEnd(Pair(f)), IF wbs[f].proxyFin THEN Ended(F) ELSE F,
                     [ups[f] EXCEPT !.open = FALSE])

UpstreamReset(f) ==
    /\ Streaming(f) /\ ups[f].end # None
    /\ "reset" \in options \/ fetches[f].answer = "reset"
    /\ Delivered(f, writebackReset(Pair(f)), Reset(fetches[f]),
                 [ups[f] EXCEPT !.open = FALSE, !.due = <<>>, !.partial = FALSE])
-----------------------------------------------------------------------------
(***************************************************************************)
(* The publisher, and the live subscription to it.                         *)
(***************************************************************************)
Unpublished == {l \in DOMAIN Truth : l > edge}

PublishNext ==
    /\ running = None /\ Unpublished # {}
    /\ edge' = Min(Unpublished)
    /\ UNCHANGED <<c, subs, streams, holds, fetches, wbs, ups, running, options>>

\* getSubscribeWriteback, and the Largest of SUBSCRIBE_OK.
Subscribe(s, n) ==
    LET d == IF n \in DOMAIN c.map THEN c ELSE AddTrack(evictOldestTrackIfNeeded(c), n)
        id == d.map[n]
    IN  /\ running = None /\ subs[s] = 0 /\ "live" \in options
        /\ subs' = [subs EXCEPT ![s] = id]
        /\ Put(setTrackState(Attach(d, id), n, FALSE, edge), fetches, wbs)
        /\ UNCHANGED <<ups, edge, running>>

Unsubscribe(s) ==
    /\ running = None /\ subs[s] # 0 /\ "live" \in options
    /\ subs' = [subs EXCEPT ![s] = 0]
    /\ Put(Detach(c, subs[s]), fetches, wbs)
    /\ UNCHANGED <<ups, edge, running>>

LiveObject(s, l) ==
    LET w == Single(GroupOf(l), ObjectOf(l), Truth[l], NoExtensions, FALSE)
    IN  /\ running = None /\ subs[s] # 0 /\ "live" \in options /\ l = edge
        /\ UNCHANGED <<subs, ups, edge, running>>
        /\ Put(WriteSingle(c, subs[s], w), fetches, wbs)
-----------------------------------------------------------------------------
Expiries == IF "expire" \in options THEN BOOLEAN ELSE {FALSE}
Results == {"done"} \cup (IF "blocked" \in options THEN {"blocked"} ELSE {})
                    \cup (IF "error" \in options THEN {"error"} ELSE {})

Coroutine(f) ==
    \/ Start(f) \/ StreamComplete(f)
    \/ \E e \in Expiries : Loop(f, e) \/ Wake(f, e)
    \/ \E r \in Results \cup {"error"} : (r = "error" => r \in Results \/ fetches[f].answer = "reset") /\ Publish(f, r)
    \/ \E failed \in {r = "error" : r \in Results} : Unblocked(f, failed)

UpstreamStep(f) ==
    \/ UpstreamOk(f) \/ UpstreamError(f)
    \/ \E fin \in BOOLEAN : UpstreamObject(f, fin) \/ UpstreamPayload(f, fin)
    \/ UpstreamBegin(f) \/ UpstreamUnknown(f) \/ endOfFetch(f) \/ UpstreamReset(f)

Publisher ==
    \/ PublishNext
    \/ \E s \in Subs : (\E n \in Names : Subscribe(s, n)) \/ Unsubscribe(s)
    \/ \E s \in Subs, l \in DOMAIN Truth : LiveObject(s, l)

\* The writers of CacheWriters, or its purges alone, between the steps of the
\* fetches.
Writers ==
    /\ running = None
    /\ \/ "writers" \in options /\ WritersNext
       \/ "purge" \in options /\ \E n \in Names : Purge({n})
    /\ UNCHANGED <<fetches, wbs, ups, edge, running, options>>

FetchNext ==
    \/ \E f \in Fetches : (\E r \in Requests[f] : fetch(f, r)) \/ fetchCancel(f) \/ Coroutine(f) \/ UpstreamStep(f)
    \/ Publisher
    \/ Writers

FetchSpec == FetchInit /\ [][FetchNext]_fetchVars
-----------------------------------------------------------------------------
(***************************************************************************)
(* Properties.                                                             *)
(***************************************************************************)
\* What the cache records as not existing never comes to exist: a FETCH that
\* ends short, a FETCH_OK that comes late, and a live edge that moves meanwhile
\* never make a gap of an object of the publisher.
GapsAreTrue == \A id \in DOMAIN c.trk : c.trk[id].gaps \cap DOMAIN Truth = {}

\* No object of a well-formed upstream is refused.
NothingRefused == \A f \in Fetches : ~fetches[f].refused

\* The entry a fetch is about to publish is there.
HeldEntryLives ==
    \A f \in Fetches :
        LET h == fetches[f].held
        IN  h # NoHit => ObjectOf(h.l) \in DOMAIN c.grp[h.gid].objects

(***************************************************************************)
(* The refinement of FetchService.  Fetches in descending order stay idle  *)
(* there: CompleteAnswer says what they may lack.                          *)
(***************************************************************************)
Ascends(f) == fetches[f].pc # "idle" /\ fetches[f].req.order = "oldestFirst"
Asked(r) == [start |-> r.start, end |-> toExclusiveEnd(r.end)]

\* v where f is an ascending fetch, else what an idle client has.
IfAscends(f, v, idle) == IF Ascends(f) THEN v ELSE idle

ServiceState(answer) == CASE answer = "open" -> "open" [] answer = "fin" -> "done" [] OTHER -> "failed"

Promise == INSTANCE FetchService WITH
    Clients <- Fetches,
    Questions <- {Asked(r) : r \in UNION Range(Requests)},
    Published <- DOMAIN Truth,
    horizon <- Horizon(CHOOSE n \in Names : TRUE),
    question <- [f \in Fetches |-> IF Ascends(f) THEN Asked(fetches[f].req) ELSE [start |-> -1, end |-> -1]],
    due <- [f \in Fetches |-> IfAscends(f, fetches[f].due, {})],
    heard <- [f \in Fetches |-> IfAscends(f, fetches[f].got, <<>>)],
    state <- [f \in Fetches |-> IfAscends(f, ServiceState(fetches[f].answer), "idle")]

\* Whatever mix of hits, gaps, waits for another fetch's progress and upstream
\* requests serves it, an ascending FETCH is the stream FetchService promises:
\* objects of the range in order, none twice, none left out that was due, ended
\* once and not before all were sent.
Implements == Promise!Service

\* A FETCH whose stream was ended got all the objects up to the end that
\* FETCH_OK gave, in either order.
CompleteAnswer ==
    \A f \in Fetches :
        LET F == fetches[f]
        IN  F.answer = "fin" /\ F.ok # None =>
                {l \in F.due : l < F.ok} \subseteq ToSet(F.got)

\* Every fetch is answered and its coroutine returns: a fetch that waits for
\* another one's progress is resumed when that one gets there, ends short of
\* it, is reset, or goes.
FetchEnds == \A f \in Fetches : fetches[f].pc # "idle" ~> fetches[f].answer # "open" /\ fetches[f].pc = "over"

(***************************************************************************)
(* Fairness: the executor runs a coroutine that can go on, and an upstream *)
(* answers, sends what it has and ends its stream.  Ready says when fetch  *)
(* f can take such a step.                                                 *)
(***************************************************************************)
Ready(f) ==
    LET F == fetches[f]
    IN  \/ running = f
        \/ /\ running = None
           /\ \/ F.pc \in {"starting", "asked", "blocked"}
              \/ F.pc = "waiting" /\ F.woken
              \/ F.pc = "complete" /\ wbs[f].complete
              \/ ups[f].open

Moves(f) == fetches'[f] # fetches[f] \/ ups'[f] # ups[f]

FetchFairness == \A f \in Fetches : []<>~Ready(f) \/ []<><<Moves(f)>>_fetchVars

FetchFairSpec == FetchSpec /\ FetchFairness
=============================================================================
