---------------------------- MODULE CacheRanges ----------------------------
(***************************************************************************)
(* Locations, interval sets and the FetchRangeIterator of MoqxCache.       *)
(*                                                                         *)
(* An AbsoluteLocation {group, object} is one number, group * Width +      *)
(* object: the order is the lexicographic one and next() steps from        *)
(* {g, MAX} to {g + 1, 0}, as in moxygen.  Object Width - 1 stands for     *)
(* kLocationMax.object and the last group for kLocationMax.group; no real  *)
(* object has either.  A LocationIntervalSet is the set of its locations;  *)
(* its intervals are the maximal runs.                                     *)
(***************************************************************************)
EXTENDS Integers, Sequences, FiniteSets, FiniteSetsExt, SequencesExt

CONSTANTS
    NumGroups,      \* groups, the sentinel included
    Width           \* objects of a group, the sentinel included

ASSUME RangesAssumption == NumGroups \in Nat \ {0} /\ Width \in Nat \ {0, 1}

kLocationMax == NumGroups * Width - 1
Locations == 0 .. kLocationMax
MaxObject == Width - 1

None == -1          \* std::nullopt, for locations, groups and objects

Loc(g, o) == g * Width + o
GroupOf(l) == l \div Width
ObjectOf(l) == l % Width

Orders == {"oldestFirst", "newestFirst"}
-----------------------------------------------------------------------------
(***************************************************************************)
(* AbsoluteLocation: steps that leave the range return None.               *)
(***************************************************************************)
nextLoc(l) == IF l = kLocationMax THEN None ELSE l + 1
prevLoc(l) == l - 1
nextGroup(l) == IF GroupOf(l) = NumGroups - 1 THEN None ELSE Loc(GroupOf(l) + 1, 0)
prevGroup(l) == IF GroupOf(l) = 0 THEN None ELSE Loc(GroupOf(l) - 1, 0)
prevGroupEnd(l) == IF GroupOf(l) = 0 THEN None ELSE Loc(GroupOf(l) - 1, MaxObject)

\* value_or
OrElse(l, other) == IF l = None THEN other ELSE l

(***************************************************************************)
(* LocationIntervalSet: adjacent intervals are one.                        *)
(***************************************************************************)
IntervalStart(S, l) == Min({a \in S : a .. l \subseteq S})
IntervalEnd(S, l) == Max({b \in S : l .. b \subseteq S})
Starts(S) == {l \in S : l - 1 \notin S}
After(S, l) == {a \in S : a > l}
Before(S, l) == {a \in S : a < l}
-----------------------------------------------------------------------------
(***************************************************************************)
(* The helpers of MoqxCache.cpp's anonymous namespace.                     *)
(***************************************************************************)
\* On the wire, an end object of 0 asks for the whole end group.
toExclusiveEnd(wireEnd) ==
    IF ObjectOf(wireEnd) # 0 THEN wireEnd ELSE OrElse(nextGroup(wireEnd), kLocationMax)

\* Where a descending walk goes on below a gap that starts at gapStart.
computeDescendingAfterGap(cur, gapStart, minLoc) ==
    LET clamped(l) == IF l # None /\ GroupOf(l) = GroupOf(minLoc) THEN minLoc ELSE l
    IN  IF ObjectOf(gapStart) > 0 /\ GroupOf(gapStart) # GroupOf(cur)
        THEN clamped(Loc(GroupOf(gapStart), 0))
        ELSE clamped(prevGroup(gapStart))

\* Asks for the rest of the range at every miss.
getFetchIntervals_toEnd(start, end, miss, hit, order, isTail) == <<<<miss, end>>>>

\* The upstream requests, as <<first, end>> with the end exclusive, that fill
\* the cache miss from miss up to hit.
getFetchIntervals(start, end, miss, hit, order, isTail) ==
    LET between == GroupOf(miss) - GroupOf(hit) - 1
        missEnd == IF GroupOf(miss) = GroupOf(end) THEN end ELSE OrElse(nextGroup(miss), end)
        first   == IF between > 0 /\ ObjectOf(miss) = 0
                   THEN Max({start, Loc(GroupOf(miss) - between, 0)})
                   ELSE miss
        midStart == IF GroupOf(start) = GroupOf(hit) + 1 THEN start ELSE Loc(GroupOf(hit) + 1, 0)
        middle  == IF between > 0 /\ ObjectOf(miss) # 0
                   THEN <<<<midStart, Loc(GroupOf(miss), 0)>>>> ELSE <<>>
        lastStart == IF GroupOf(start) = GroupOf(hit) THEN start ELSE Loc(GroupOf(hit), 0)
        last    == IF ObjectOf(hit) # 0 /\ lastStart < hit THEN <<<<lastStart, hit>>>> ELSE <<>>
    IN  IF order # "newestFirst" THEN <<<<miss, IF isTail THEN end ELSE hit>>>>
        ELSE IF GroupOf(miss) = GroupOf(hit)
             THEN <<<<miss, IF isTail THEN OrElse(nextGroup(miss), end) ELSE hit>>>>
             ELSE <<<<first, missEnd>>>> \o middle \o last

\* The positions from start up to end, in the order of the walk, which a fetch
\* that jumps over them shows not to exist.
getGapRanges(start, end, order, fetchStart, fetchEnd) ==
    LET gs == GroupOf(start)
        ge == GroupOf(end)
        top == IF gs = GroupOf(fetchEnd) THEN fetchEnd - 1 ELSE Loc(gs, MaxObject)
        bottom == IF ge = GroupOf(fetchStart) THEN fetchStart ELSE Loc(ge, 0)
    IN  IF order # "newestFirst" \/ gs = ge THEN start .. end - 1
        ELSE IF gs < ge THEN {}
        ELSE start .. top \cup Loc(ge + 1, 0) .. Loc(gs, 0) - 1 \cup bottom .. end - 1

\* Every location of the group is in a gap.
isGroupNonExistent(gaps, g) ==
    Loc(g, 0) \in gaps /\ IntervalEnd(gaps, Loc(g, 0)) >= Loc(g, MaxObject)
-----------------------------------------------------------------------------
(***************************************************************************)
(* FetchRangeIterator.  t is the track: its gaps, cachedContent, end and   *)
(* Largest.  g is what findGroupEndMaybe sees of a group: the group in the *)
(* track, or the one the iterator remembers (cachedGroupPtr_).             *)
(***************************************************************************)
NoGroup == [has |-> FALSE, eog |-> FALSE, maxObj |-> 0]

Descending(it) == it.order = "newestFirst"

skipGaps(it, t) ==
    LET goOn[l \in Locations] ==
            IF l \notin t.gaps THEN l
            ELSE LET after == IF Descending(it)
                              THEN computeDescendingAfterGap(l, IntervalStart(t.gaps, l), it.min)
                              ELSE nextLoc(IntervalEnd(t.gaps, l))
                     inRange == after # None /\ (IF Descending(it) THEN after >= it.min ELSE after < it.end)
                 IN  IF inRange THEN goOn[after] ELSE it.end
    IN  IF it.valid THEN [it EXCEPT !.cur = goOn[it.cur]] ELSE it

\* The constructor; g is the group of the first location.
FetchRangeIterator(start, end, order, t, g) ==
    LET twoGroups == order = "newestFirst" /\ GroupOf(start) # GroupOf(end)
        top == IF ObjectOf(end) = 0 THEN GroupOf(end) - 1 ELSE GroupOf(end)
        first == IF ObjectOf(end) = 0 /\ top = GroupOf(start) THEN start ELSE Loc(top, 0)
        last == IF g.has /\ g.eog /\ g.maxObj < MaxObject
                THEN Loc(GroupOf(start), g.maxObj + 1) ELSE Loc(GroupOf(start), MaxObject)
    IN  skipGaps([min |-> start, max |-> end, order |-> order, valid |-> TRUE,
                  cur |-> IF twoGroups THEN first ELSE start,
                  end |-> IF twoGroups THEN last ELSE end], t)

invalidate(it) == [it EXCEPT !.cur = it.max, !.valid = FALSE]

advanceTo(it, l, t) ==
    LET passed == IF Descending(it) THEN l < it.min ELSE l > it.max
    IN  IF passed THEN [it EXCEPT !.cur = l, !.valid = FALSE]
        ELSE skipGaps([it EXCEPT !.cur = l], t)

\* The last object the walk visits in a group before it leaves the group.
findGroupEndMaybe(it, grp, g) ==
    LET first == grp = GroupOf(it.min)
        last  == grp = GroupOf(it.max)
        past  == Min({g.maxObj + 1, MaxObject})
        past2 == Min({past + 1, MaxObject})
    IN  IF last THEN IF Descending(it) /\ ~first
                     THEN (ObjectOf(it.max) - 1) % Width ELSE ObjectOf(it.max)
        ELSE IF ~g.has THEN None
        ELSE IF first /\ Descending(it) THEN IF g.eog THEN past ELSE past2
        ELSE IF g.eog THEN g.maxObj ELSE past

advanceOne(it, g) ==
    LET grp == GroupOf(it.cur)
        groupEnd == findGroupEndMaybe(it, grp, g)
    IN  IF ~it.valid \/ it.cur = it.end THEN it
        ELSE IF groupEnd # None /\ ObjectOf(it.cur) < groupEnd THEN [it EXCEPT !.cur = @ + 1]
        ELSE IF Descending(it)
             THEN IF grp = 0 THEN [it EXCEPT !.valid = FALSE]
                  ELSE [it EXCEPT !.cur = IF grp - 1 = GroupOf(it.min) THEN it.min ELSE Loc(grp - 1, 0)]
        ELSE IF grp = GroupOf(it.max) THEN [it EXCEPT !.cur = it.end]
        ELSE [it EXCEPT !.cur = Loc(grp + 1, 0)]

next(it, t, g) == IF it.valid THEN skipGaps(advanceOne(it, g), t) ELSE it

\* Descending: the first cached position of the nearest lower group that has one.
findPrevGroupCachedPosition(it, t) ==
    LET below == prevGroupEnd(it.cur)
        known == Before(t.content, below + 1)
        prevEnd == IF below \in known THEN IntervalEnd(t.content, below) ELSE Max(known)
        grp == Min({GroupOf(prevEnd), GroupOf(below)})
        target == Max({Loc(grp, 0), it.min})
    IN  IF below = None \/ known = {} THEN None
        ELSE IF prevEnd < it.min THEN None
        ELSE IF target \in t.content THEN target ELSE Min(After(t.content, target))

skipUncached(it, t) ==
    LET ahead == After(t.content, it.cur)
        lower == findPrevGroupCachedPosition(it, t)
    IN  IF ~it.valid \/ it.cur = it.end \/ it.cur \in t.content THEN it
        ELSE IF ~Descending(it)
             THEN [it EXCEPT !.cur = IF ahead = {} THEN it.end ELSE Min({Min(ahead), it.end})]
        ELSE IF ahead # {} /\ GroupOf(Min(ahead)) = GroupOf(it.cur) THEN [it EXCEPT !.cur = Min(ahead)]
        ELSE IF lower = None THEN [it EXCEPT !.cur = 0, !.valid = FALSE]
        ELSE [it EXCEPT !.cur = lower]

\* end() brings the end up to date; g is the group the end is in.
end(it, t, g) ==
    LET groupEnd == findGroupEndMaybe(it, GroupOf(it.end), g)
    IN  IF (t.eot /\ it.cur > t.largest) \/ ~it.valid THEN [it EXCEPT !.end = it.cur]
        ELSE IF Descending(it) /\ groupEnd # None
             THEN [it EXCEPT !.end = Loc(GroupOf(it.end), groupEnd)]
             ELSE it
=============================================================================
