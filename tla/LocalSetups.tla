---------------------------- MODULE LocalSetups ----------------------------
(***************************************************************************)
(* One iothread of the relay in LocalForwarder mode: its forwarder table   *)
(* and everything in MoqxRelay.cpp that runs on the thread and uses it.    *)
(* A coroutine that hops to another executor is two or more actions; what  *)
(* the other executors do meanwhile, and what they answer, is left open.   *)
(*                                                                         *)
(* Kinds of forwarder:                                                     *)
(*   "subscriber"  made by subscribeFromSubscriberExec under a claim that  *)
(*                 stays open until its setup is back                      *)
(*   "fanout"      made by acquireLocalForwarder for a PUBLISH passed on   *)
(*   "upstream"    a publisher forwarder, installed by the first           *)
(*                 subscriber under a claim that waits for the upstream    *)
(*   "publish"     a publisher forwarder, installed by PUBLISH             *)
(***************************************************************************)
EXTENDS LocalForwarderRegistry

CONSTANTS
    Subscribers,   \* subscriber sessions of this thread
    Channels       \* other threads, as channel subscribers of our forwarders

ASSUME SetupsAssumption ==
    /\ Tracks # {}
    /\ Subscribers \cap Channels = {}

AnyTrack == CHOOSE t \in Tracks : TRUE

VARIABLES
    loc,      \* this thread's LocalForwarderRegistry
    last,     \* number of the newest forwarder
    fwd,      \* the forwarders
    claim,    \* the Claim made with each forwarder: none, open or resolved
    stated,   \* forwarders that have had their initial track state applied
    ticket,   \* unredeemed park tickets
    req       \* what each subscriber session is doing

vars == <<loc, last, fwd, claim, stated, ticket, req>>

Kinds == {"none", "subscriber", "fanout", "upstream", "publish"}

\* "wired" says that PendingForwarderCallback has given way to the final one,
\* "done" that publishDone was called, after which nobody can be added.
LocalForwarder == [track : Tracks, kind : Kinds, wired : BOOLEAN, done : BOOLEAN,
                   subs : SUBSET (Subscribers \cup Channels)]

\* A request: idle, "setup" (its claim is open and the relay hop is out),
\* "upstream" (the hop waits for the upstream on this thread), "back" or
\* "failed" (the hop is answered), waiting for a promise, served or over.
\* "at" is its forwarder, or the promise it waits for; "direct" is the
\* publisher forwarder of this same thread it was added to.
Phases == {"idle", "setup", "upstream", "back", "failed", "waiting", "served", "over"}

InSetup == {"setup", "upstream", "back", "failed"}

Request == [phase : Phases, track : Tracks, at : 0 .. MaxForwarder,
            direct : 0 .. MaxForwarder]

Init ==
    /\ loc = EmptyLocalRegistry
    /\ last = 0
    /\ fwd = [f \in Forwarders |-> [track |-> AnyTrack, kind |-> "none", wired |-> FALSE,
                                    done |-> FALSE, subs |-> {}]]
    /\ claim = [f \in Forwarders |-> "none"]
    /\ stated = {}
    /\ ticket = {}
    /\ req = [s \in Subscribers |-> [phase |-> "idle", track |-> AnyTrack,
                                     at |-> 0, direct |-> 0]]
-----------------------------------------------------------------------------
(* MoQForwarder and its callbacks: PendingForwarderCallback until the       *)
(* forwarder is wired, then LocalForwarderCallback.                         *)

\* onEmpty.  Only a PUBLISH's forwarder stays in the table when it is empty.
OnEmpty(L, F, f) == IF F[f].kind = "publish" THEN L ELSE remove(L, F[f].track, f)

\* The registry after x has left f.
AfterLeave(L, F, f, x) == IF F[f].subs = {x} THEN OnEmpty(L, F, f) ELSE L

WithSub(F, f, x) == [F EXCEPT ![f].subs = @ \cup {x}]

WithoutSub(F, f, x) == [F EXCEPT ![f].subs = @ \ {x}]

\* publishDone: onPublishDone, which PendingForwarderCallback does not
\* override, then the drain, which open subgroups put off.
AfterDone(L, F, f, late) ==
    LET vacated == IF F[f].wired THEN remove(L, F[f].track, f) ELSE L
    IN  IF late \/ F[f].subs = {} THEN vacated ELSE OnEmpty(vacated, F, f)

Drained(F, f, late) ==
    [F EXCEPT ![f] = [track |-> F[f].track, kind |-> F[f].kind, wired |-> F[f].wired,
                      done |-> TRUE, subs |-> IF late THEN F[f].subs ELSE {}]]

\* The requests after the subscribers S have left f.
Over(f, S) ==
    [s \in Subscribers |->
        IF req[s].phase = "served" /\ req[s].at = f /\ s \in S
        THEN [phase |-> "over", track |-> req[s].track, at |-> f, direct |-> 0]
        ELSE req[s]]

NewForwarder(f, t, kind, wired, subs) ==
    /\ f = last + 1
    /\ f \in Forwarders
    /\ last' = f
    /\ fwd' = [fwd EXCEPT ![f] = [track |-> t, kind |-> kind, wired |-> wired,
                                  done |-> FALSE, subs |-> subs]]

Becomes(s, phase, t, at, direct) ==
    req' = [req EXCEPT ![s] = [phase |-> phase, track |-> t, at |-> at, direct |-> direct]]
-----------------------------------------------------------------------------
(* subscribeFromSubscriberExec up to the relay hop *)

SubscribeClaims(s, t, f) ==
    /\ req[s].phase = "idle"
    /\ IsAbsent(loc, t)
    /\ NewForwarder(f, t, "subscriber", FALSE, {s})
    /\ loc' = join(loc, t, f)
    /\ claim' = [claim EXCEPT ![f] = "open"]
    /\ Becomes(s, "setup", t, f, 0)
    /\ UNCHANGED <<stated, ticket>>

SubscribeWaits(s, t) ==
    /\ req[s].phase = "idle"
    /\ IsPending(loc, t)
    /\ Becomes(s, "waiting", t, loc.entry[t].ready, 0)
    /\ UNCHANGED <<loc, last, fwd, claim, stated, ticket>>

\* attachSubscriber to the forwarder f that is ready under t.
Attach(s, t, f) ==
    /\ f = getIfReady(loc, t)
    /\ f # 0
    /\ IF fwd[f].done
       THEN Becomes(s, "over", t, f, 0) /\ UNCHANGED fwd
       ELSE Becomes(s, "served", t, f, 0) /\ fwd' = WithSub(fwd, f, s)

\* A SUBSCRIBE, or a PUBLISH passed on to s, that finds a ready forwarder.
SubscribeJoins(s, t, f) ==
    /\ req[s].phase = "idle"
    /\ Attach(s, t, f)
    /\ UNCHANGED <<loc, last, claim, stated, ticket>>

Settled(s) == req[s].phase = "waiting" /\ loc.promise[req[s].at] \in {"value", "exception"}

\* The loop around co_awaitTry: the entry is looked up again, by name.
WaiterResumes(s, f) ==
    /\ Settled(s)
    /\ LET t == req[s].track
       IN  \/ Attach(s, t, f)
           \/ /\ IsPending(loc, t)
              /\ f = loc.entry[t].ready
              /\ Becomes(s, "waiting", t, f, 0)
              /\ UNCHANGED fwd
           \/ /\ IsAbsent(loc, t)
              /\ f = 0
              /\ Becomes(s, "over", t, f, 0)
              /\ UNCHANGED fwd
    /\ UNCHANGED <<loc, last, claim, stated, ticket>>
-----------------------------------------------------------------------------
(* The publisherExec sortie of attachNewLocalForwarderOnRelayExec, when the *)
(* publisher's thread is this one.  x is a subscriber of this thread whose  *)
(* setup is out, or another thread's channel.                               *)

InSortie(x, t) == x \in Channels \/ (x \in Subscribers /\ req[x].phase = "setup" /\ req[x].track = t)

FirstSortie(x, t, g) ==
    /\ InSortie(x, t)
    /\ getIfReady(loc, t) = 0
    /\ NewForwarder(g, t, "upstream", TRUE, {x})
    /\ loc' = replaceImpl(loc, t, g, FALSE)
    /\ claim' = [claim EXCEPT ![g] = "open"]
    /\ IF x \in Channels THEN UNCHANGED req ELSE Becomes(x, "upstream", t, req[x].at, g)
    /\ UNCHANGED <<stated, ticket>>

LaterSortie(x, t, g) ==
    /\ InSortie(x, t)
    /\ g = getIfReady(loc, t)
    /\ g # 0
    /\ ~ fwd[g].done
    /\ fwd' = WithSub(fwd, g, x)
    /\ IF x \in Channels THEN UNCHANGED req ELSE Becomes(x, "back", t, req[x].at, g)
    /\ UNCHANGED <<loc, last, claim, stated, ticket>>

\* The upstream answers the SUBSCRIBE made under the claim of g.  "replaced":
\* it accepted, and the relay finds its own entry replaced.
AfterAnswer(g, phase) ==
    [s \in Subscribers |->
        IF req[s].phase = "upstream" /\ req[s].direct = g
        THEN [phase |-> phase, track |-> req[s].track, at |-> req[s].at, direct |-> g]
        ELSE req[s]]

UpstreamAccepts(g, replaced) ==
    /\ claim[g] = "open"
    /\ fwd[g].kind = "upstream"
    /\ loc' = markReady(loc, fwd[g].track, g)
    /\ stated' = stated \cup {g}
    /\ claim' = [claim EXCEPT ![g] = "resolved"]
    /\ req' = AfterAnswer(g, IF replaced THEN "failed" ELSE "back")
    /\ UNCHANGED <<last, fwd, ticket>>

UpstreamRefuses(g) ==
    /\ claim[g] = "open"
    /\ fwd[g].kind = "upstream"
    /\ loc' = fail(loc, fwd[g].track, g)
    /\ claim' = [claim EXCEPT ![g] = "resolved"]
    /\ req' = AfterAnswer(g, "failed")
    /\ UNCHANGED <<last, fwd, stated, ticket>>
-----------------------------------------------------------------------------
(* The tail of subscribeFromSubscriberExec *)

\* directPublisherSub->unsubscribe() of a setup that did not succeed.
DirectLeft(L, s) ==
    IF req[s].direct = 0 \/ s \notin fwd[req[s].direct].subs THEN L
    ELSE AfterLeave(L, fwd, req[s].direct, s)

DirectRemoved(s) ==
    IF req[s].direct = 0 THEN fwd ELSE WithoutSub(fwd, req[s].direct, s)

\* sawOnEmpty_: PendingForwarderCallback has already removed the entry.
SetupAbandoned(s) ==
    LET f == req[s].at
    IN  /\ req[s].phase \in {"setup", "back", "failed"}
        /\ fwd[f].subs = {}
        /\ loc' = fail(DirectLeft(loc, s), req[s].track, f)
        /\ fwd' = DirectRemoved(s)
        /\ claim' = [claim EXCEPT ![f] = "resolved"]
        /\ Becomes(s, "over", req[s].track, f, 0)
        /\ UNCHANGED <<last, stated, ticket>>

\* attach.error: teardownLocalForwarderOnFailure drains the local forwarder,
\* then the claim is dropped.
SetupFails(s, late) ==
    LET f == req[s].at
    IN  /\ req[s].phase \in {"setup", "failed"}
        /\ fwd[f].subs # {}
        /\ loc' = fail(AfterDone(DirectLeft(loc, s), fwd, f, late), req[s].track, f)
        /\ fwd' = Drained(DirectRemoved(s), f, late)
        /\ claim' = [claim EXCEPT ![f] = "resolved"]
        /\ Becomes(s, "over", req[s].track, f, 0)
        /\ UNCHANGED <<last, stated, ticket>>

\* The publisher is on another thread and the channel is wired.
SetupSucceeds(s) ==
    LET f == req[s].at
    IN  /\ req[s].phase = "setup"
        /\ fwd[f].subs # {}
        /\ stated' = stated \cup {f}
        /\ fwd' = [fwd EXCEPT ![f].wired = TRUE]
        /\ loc' = markReady(loc, req[s].track, f)
        /\ claim' = [claim EXCEPT ![f] = "resolved"]
        /\ Becomes(s, "served", req[s].track, f, 0)
        /\ UNCHANGED <<last, ticket>>

\* The publisher is on this thread: s stays on its forwarder, and the local
\* forwarder, left by its only subscriber, is given up.
SetupSucceedsDirect(s) ==
    LET f == req[s].at
    IN  /\ req[s].phase = "back"
        /\ fwd[f].subs # {}
        /\ stated' = stated \cup {f}
        /\ fwd' = WithoutSub(fwd, f, s)
        /\ loc' = markReady(AfterLeave(loc, fwd, f, s), req[s].track, f)
        /\ claim' = [claim EXCEPT ![f] = "resolved"]
        /\ Becomes(s, "served", req[s].track, req[s].direct, 0)
        /\ UNCHANGED <<last, ticket>>
-----------------------------------------------------------------------------
(* publishFromPublisherExec, and the end of its relay hop *)

Publish(t, f) ==
    /\ NewForwarder(f, t, "publish", TRUE, {})
    /\ loc' = markReady(replaceImpl(loc, t, f, TRUE), t, f)
    /\ stated' = stated \cup {f}
    /\ claim' = [claim EXCEPT ![f] = "resolved"]
    /\ ticket' = IF IsAbsent(loc, t) THEN ticket
                 ELSE ticket \cup {[track |-> t, key |-> loc.entry[t].fwd]}
    /\ UNCHANGED req

PublishRegistered(k) ==
    /\ k \in ticket
    /\ loc' = takeDisplaced(loc, k.track, k.key)
    /\ ticket' = ticket \ {k}
    /\ UNCHANGED <<last, fwd, claim, stated, req>>
-----------------------------------------------------------------------------
(* addSubscriberAndPublishViaLocalForwarder when the track has no entry; it *)
(* joins a ready entry and gives up on a pending one.                       *)

\* "ok" is whether startPublish could start the PUBLISH towards s.
FanoutClaims(s, t, f, ok) ==
    LET L == markReady(join(loc, t, f), t, f)
    IN  /\ req[s].phase = "idle"
        /\ IsAbsent(loc, t)
        /\ NewForwarder(f, t, "fanout", FALSE, IF ok THEN {s} ELSE {})
        /\ loc' = IF ok THEN L ELSE remove(L, t, f)
        /\ stated' = stated \cup {f}
        /\ claim' = [claim EXCEPT ![f] = "resolved"]
        /\ Becomes(s, IF ok THEN "served" ELSE "over", t, f, 0)
        /\ UNCHANGED ticket

FanoutWired(f) ==
    /\ fwd[f].kind = "fanout" /\ ~ fwd[f].wired
    /\ fwd[f].subs # {}
    /\ fwd' = [fwd EXCEPT ![f].wired = TRUE]
    /\ UNCHANGED <<loc, last, claim, stated, ticket, req>>

\* The publisher went away first, or every subscriber left.
FanoutFails(f, late) ==
    /\ fwd[f].kind = "fanout" /\ ~ fwd[f].wired /\ ~ fwd[f].done
    /\ loc' = AfterDone(loc, fwd, f, late)
    /\ fwd' = Drained(fwd, f, late)
    /\ req' = Over(f, IF late THEN {} ELSE fwd[f].subs)
    /\ UNCHANGED <<last, claim, stated, ticket>>
-----------------------------------------------------------------------------
(* Events of the forwarders *)

RemoveSubscriber(f, x) ==
    /\ x \in fwd[f].subs
    /\ loc' = AfterLeave(loc, fwd, f, x)
    /\ fwd' = WithoutSub(fwd, f, x)
    /\ req' = Over(f, {x})
    /\ UNCHANGED <<last, claim, stated, ticket>>

\* The source of f ends, or the relay ends f because another publisher took
\* over.  A local forwarder hears of it through its channel, which one that
\* is being given up for a publisher of this thread does not have.
PublishDone(f, late) ==
    /\ fwd[f].kind # "none" /\ ~ fwd[f].done
    /\ \A s \in Subscribers : req[s].phase \in InSetup /\ req[s].direct # 0 => req[s].at # f
    /\ loc' = AfterDone(loc, fwd, f, late)
    /\ fwd' = Drained(fwd, f, late)
    /\ req' = Over(f, IF late THEN {} ELSE fwd[f].subs)
    /\ UNCHANGED <<last, claim, stated, ticket>>
-----------------------------------------------------------------------------
Resumes ==
    \/ \E s \in Subscribers, f \in 0 .. MaxForwarder : WaiterResumes(s, f)
    \/ \E s \in Subscribers : SetupAbandoned(s) \/ SetupSucceeds(s) \/ SetupSucceedsDirect(s)
    \/ \E s \in Subscribers, late \in BOOLEAN : SetupFails(s, late)
    \/ \E g \in Forwarders, replaced \in BOOLEAN : UpstreamAccepts(g, replaced)
    \/ \E g \in Forwarders : UpstreamRefuses(g)

Next ==
    \/ \E s \in Subscribers, t \in Tracks, f \in Forwarders :
          SubscribeClaims(s, t, f) \/ SubscribeJoins(s, t, f)
    \/ \E s \in Subscribers, t \in Tracks : SubscribeWaits(s, t)
    \/ Resumes
    \/ \E x \in Subscribers \cup Channels, t \in Tracks, g \in Forwarders :
          FirstSortie(x, t, g) \/ LaterSortie(x, t, g)
    \/ \E t \in Tracks, f \in Forwarders : Publish(t, f)
    \/ \E k \in ticket : PublishRegistered(k)
    \/ \E s \in Subscribers, t \in Tracks, f \in Forwarders, ok \in BOOLEAN :
          FanoutClaims(s, t, f, ok)
    \/ \E f \in Forwarders : FanoutWired(f)
    \/ \E f \in Forwarders, late \in BOOLEAN : FanoutFails(f, late) \/ PublishDone(f, late)
    \/ \E f \in Forwarders, x \in Subscribers \cup Channels : RemoveSubscriber(f, x)

Spec == Init /\ [][Next]_vars

(***************************************************************************)
(* A relay hop comes back, since every executor runs what is posted to it  *)
(* and the session answers or fails every upstream SUBSCRIBE.              *)
(***************************************************************************)
FairSpec ==
    /\ Spec
    /\ \A s \in Subscribers : WF_vars(
          \/ \E f \in 0 .. MaxForwarder : WaiterResumes(s, f)
          \/ SetupAbandoned(s) \/ SetupSucceeds(s) \/ SetupSucceedsDirect(s)
          \/ \E late \in BOOLEAN : SetupFails(s, late))
    /\ \A g \in Forwarders : WF_vars(
          \/ \E replaced \in BOOLEAN : UpstreamAccepts(g, replaced)
          \/ UpstreamRefuses(g))
-----------------------------------------------------------------------------
\* Everything is where the code's types put it; parked tickets name forwarders
\* that exist.
TypeOK ==
    /\ loc \in LocalRegistry
    /\ last \in 0 .. MaxForwarder
    /\ fwd \in [Forwarders -> LocalForwarder]
    /\ claim \in [Forwarders -> {"none", "open", "resolved"}]
    /\ stated \subseteq Forwarders
    /\ ticket \subseteq [track : Tracks, key : Forwarders]
    /\ req \in [Subscribers -> Request]

\* A pending entry is owned by a claim that is still open, so somebody will
\* resolve it: "Exactly one Claim owns the entry and owes a resolution", and
\* ~LocalForwarderRegistry finds no pending entry once the coroutines are gone.
PendingIsClaimed ==
    \A t \in Tracks : IsPending(loc, t) =>
        /\ \E f \in Forwarders : f = loc.entry[t].fwd /\ claim[f] = "open"
        /\ loc.promise[loc.entry[t].ready] = "pending"

\* Nobody waits for a promise no one can reach: it is settled, or it is the
\* promise of the entry of the waiter's track, whichever forwarder holds that
\* entry by now, and the claim on that forwarder is still open.
NoStrandedWaiter ==
    \A s \in Subscribers : req[s].phase = "waiting" =>
        \/ loc.promise[req[s].at] \in {"value", "exception"}
        \/ /\ loc.entry[req[s].track].ready = req[s].at
           /\ \E f \in Forwarders : f = loc.entry[req[s].track].fwd /\ claim[f] = "open"

\* No promise is settled twice, whatever the order in which claims, removals
\* and replacements arrive.
SettledOnce == \A p \in Forwarders : loc.promise[p] # "twice"

\* Whoever is served, other than the subscriber whose own setup is running,
\* is on a forwarder that had its largest and extensions set.
ServedWithState == \A s \in Subscribers : req[s].phase = "served" => req[s].at \in stated

\* The tickets out are exactly the parked forwarders: each can be redeemed,
\* once, and ~LocalForwarderRegistry finds nothing parked.
TicketsMatchParked ==
    ticket = {k \in [track : Tracks, key : Forwarders] : k.key \in loc.displaced[k.track]}

\* An entry is vacated only on account of its own forwarder: it ended, it is
\* empty, or its claim was dropped.  What an older forwarder of the track does
\* never reaches a newer one.
OnlyItsOwn ==
    [][\A t \in Tracks, f \in Forwarders :
          loc.entry[t].fwd = f /\ loc'.entry[t].fwd = 0 =>
              fwd'[f].done \/ fwd'[f].subs = {} \/ (claim[f] = "open" /\ claim'[f] = "resolved")]_vars

\* Everybody waiting for a local forwarder is released in the end.
WaitersReleased ==
    \A s \in Subscribers : req[s].phase = "waiting" ~> req[s].phase # "waiting"
=============================================================================
