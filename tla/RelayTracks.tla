---------------------------- MODULE RelayTracks ----------------------------
(***************************************************************************)
(* Track subscriptions of MoqxRelay in the SingleThread and RelayExec      *)
(* modes: SUBSCRIBE, PUBLISH, PUBLISH_DONE, the forwarder callbacks, the   *)
(* namespace route SUBSCRIBE follows, and the sessions that receive every  *)
(* published track because they subscribed to the namespace.               *)
(*                                                                         *)
(* All relay state is touched on one executor, so a handler is atomic up   *)
(* to its next co_await; the interleavings are those of the suspended      *)
(* coroutines with each other and with network events.  In RelayExec mode  *)
(* the sessions live on other executors, so a publisher's publishDone and  *)
(* the relay's unsubscribe are messages that are some time under way.      *)
(*                                                                         *)
(* Every registry entry is created together with a forwarder and an        *)
(* upstream subscription (a SUBSCRIBE the relay sent, or the publisher's   *)
(* PUBLISH), so all three are numbered by the entry's epoch.               *)
(***************************************************************************)
EXTENDS SubscriptionRegistry, FiniteSets

CONSTANTS
    Subscribers,  \* sessions that SUBSCRIBE to tracks
    Watchers,     \* sessions that SUBSCRIBE_NAMESPACE with PUBLISH delivery
    Hop,          \* RelayExec mode: sessions run on executors of their own
    Takeover,     \* a PUBLISH or PUBLISH_NAMESPACE may replace a live one
    LateDrain     \* subgroups may still be open when publishDone arrives

ASSUME RelayAssumption ==
    /\ {Hop, Takeover, LateDrain} \subseteq BOOLEAN
    /\ Subscribers \cap Watchers = {}

VARIABLES
    reg,       \* registry_
    fwd,       \* the MoQForwarder created with each epoch
    up,        \* the upstream subscription that feeds it
    req,       \* the SUBSCRIBE each subscriber has open
    watching,  \* the namespace subscribers
    route,     \* namespaceTree_: the session that announced the namespace
    tree       \* namespaceTree_: publishes_, the publisher of each track

vars == <<reg, fwd, up, req, watching, route, tree>>

Sinks == Subscribers \cup Watchers

Forwarder == [track : Tracks \cup {None}, subs : SUBSET Sinks, draining : BOOLEAN]

(***************************************************************************)
(* An upstream subscription: asked (SUBSCRIBE sent), live, ending (the     *)
(* publisher's publishDone is under way to the relay), ended, refused, or  *)
(* cancelled by unsubscribe.  "cancel" marks an unsubscribe under way;     *)
(* "forward" is what the relay last asked the publisher to do.             *)
(***************************************************************************)
UpstreamStates == {"none", "asked", "live", "ending", "ended", "refused", "cancelled"}

Upstream == [session : Publishers \cup {None}, st : UpstreamStates,
             cancel : BOOLEAN, forward : BOOLEAN]

(***************************************************************************)
(* A subscriber's request: in subscribeImpl awaiting the upstream OK       *)
(* ("upstream"), in awaitSubsequent on the promise of an epoch             *)
(* ("waiting"), or answered with SUBSCRIBE_OK ("attached").                *)
(***************************************************************************)
Request == [pc : {"idle", "upstream", "waiting", "attached"},
            track : Tracks \cup {None}, epoch : 0 .. MaxEpoch]

Idle == [pc |-> "idle", track |-> None, epoch |-> 0]

\* The state is of its type, epochs are drawn in order, and a promise exists
\* exactly for the epochs drawn.
TypeOK ==
    /\ reg \in Registry
    /\ \A e \in Epochs : reg.gate[e] = "none" <=> e > reg.epoch
    /\ \A t \in Tracks : reg.entry[t].epoch <= reg.epoch
    /\ fwd \in [Epochs -> Forwarder]
    /\ up \in [Epochs -> Upstream]
    /\ req \in [Subscribers -> Request]
    /\ watching \subseteq Watchers
    /\ route \in Publishers \cup {None}
    /\ tree \in [Tracks -> Publishers \cup {None}]

Init ==
    /\ reg = EmptyRegistry
    /\ fwd = [e \in Epochs |-> [track |-> None, subs |-> {}, draining |-> FALSE]]
    /\ up = [e \in Epochs |-> [session |-> None, st |-> "none",
                               cancel |-> FALSE, forward |-> FALSE]]
    /\ req = [r \in Subscribers |-> Idle]
    /\ watching = {}
    /\ route = None
    /\ tree = [t \in Tracks |-> None]

-----------------------------------------------------------------------------
(***************************************************************************)
(* The forwarder callbacks.  The forwarder calls them by pointer, the      *)
(* relay keeps only the track name and acts on the entry the registry has  *)
(* under that name.                                                        *)
(***************************************************************************)

\* handle->unsubscribe(): inline, or posted to the publisher's executor.
unsubscribe(U, h) ==
    [U EXCEPT ![h].cancel = Hop,
              ![h].st = IF ~ Hop /\ @ = "live" THEN "cancelled" ELSE @]

\* The registry and the upstream subscriptions after onEmptyImpl(t).
OnEmptyRegistry(R, t) ==
    IF R.entry[t].handle # 0 /\ R.entry[t].isPublish THEN R ELSE remove(R, t)

OnEmptyUpstream(R, U, t) ==
    LET h == R.entry[t].handle IN
    IF h = 0 THEN U
    ELSE IF R.entry[t].isPublish THEN [U EXCEPT ![h].forward = FALSE]
    ELSE unsubscribe(U, h)

\* The upstream subscriptions after forwardChangedImpl(t, true); in the faulty
\* form the entry is taken for one that is not ready.
ForwardChanged_ignored(R, U, t) == U

ForwardChanged(R, U, t) ==
    LET h == R.entry[t].handle IN
    IF h = 0 \/ ~ IsReady(R, t) THEN U ELSE [U EXCEPT ![h].forward = TRUE]

\* The subscribers in D leave forwarder e.
LeavesEmpty(e, D) == fwd[e].subs # {} /\ fwd[e].subs \ D = {}

Answered(D, e) ==
    [r \in Subscribers |-> IF r \in D /\ req[r].pc = "attached" /\ req[r].epoch = e
                           THEN Idle ELSE req[r]]

\* What forwarder e may drop at once when its publishDone is called: all its
\* subscribers, except those with a subgroup still open.
DrainedAtOnce(e) ==
    IF LateDrain THEN SUBSET fwd[e].subs ELSE {fwd[e].subs}

-----------------------------------------------------------------------------
(***************************************************************************)
(* SUBSCRIBE                                                               *)
(***************************************************************************)

\* subscribeImpl of the first subscriber, up to the upstream SUBSCRIBE.
SubscribeFirst(r, t) ==
    /\ req[r].pc = "idle"
    /\ ~ exists(reg, t)
    /\ route # None
    /\ reg.epoch < MaxEpoch
    /\ LET e == reg.epoch + 1 IN
       /\ reg' = CreateFromSubscribe(reg, t)
       /\ fwd' = [fwd EXCEPT ![e] = [track |-> t, subs |-> {r}, draining |-> FALSE]]
       /\ up' = [up EXCEPT ![e] = [session |-> route, st |-> "asked",
                                   cancel |-> FALSE, forward |-> TRUE]]
       /\ req' = [req EXCEPT ![r] = [pc |-> "upstream", track |-> t, epoch |-> e]]
    /\ UNCHANGED <<watching, route, tree>>

\* attachSubscriber on the forwarder of the entry t has now: refused while the
\* forwarder drains.
Attach(r, t) ==
    LET e == reg.entry[t].epoch IN
    IF fwd[e].draining
    THEN /\ req' = [req EXCEPT ![r] = Idle]
         /\ UNCHANGED <<fwd, up>>
    ELSE /\ req' = [req EXCEPT ![r] = [pc |-> "attached", track |-> t, epoch |-> e]]
         /\ fwd' = [fwd EXCEPT ![e].subs = @ \cup {r}]
         /\ up' = IF fwd[e].subs = {} THEN ForwardChanged(reg, up, t) ELSE up

\* subscribeImpl of a later subscriber whose promise is fulfilled already.
SubscribeJoin(r, t) ==
    /\ req[r].pc = "idle"
    /\ IsReady(reg, t)
    /\ Attach(r, t)
    /\ UNCHANGED <<reg, watching, route, tree>>

\* subscribeImpl of a later subscriber, suspended on the promise.
SubscribeWait(r, t) ==
    /\ req[r].pc = "idle"
    /\ exists(reg, t)
    /\ ~ IsReady(reg, t)
    /\ req' = [req EXCEPT ![r] = [pc |-> "waiting", track |-> t, epoch |-> reg.entry[t].epoch]]
    /\ UNCHANGED <<reg, fwd, up, watching, route, tree>>

\* awaitSubsequent and the rest of subscribeImpl, once the promise is settled.
ResumeWaiter(r) ==
    LET t == req[r].track IN
    /\ req[r].pc = "waiting"
    /\ reg.gate[req[r].epoch] # "pending"
    /\ IF reg.gate[req[r].epoch] = "ready" /\ exists(reg, t)
       THEN Attach(r, t)
       ELSE /\ req' = [req EXCEPT ![r] = Idle]
            /\ UNCHANGED <<fwd, up>>
    /\ UNCHANGED <<reg, watching, route, tree>>

\* The upstream session answers the relay's SUBSCRIBE.
UpstreamAnswers(e) ==
    /\ up[e].st = "asked"
    /\ \E st \in {"live", "refused"} : up' = [up EXCEPT ![e].st = st]
    /\ UNCHANGED <<reg, fwd, req, watching, route, tree>>

\* subscribeImpl of the first subscriber, from the upstream answer to its end.
\* Events of the new subscription may have been handled before it resumes.
ResumeFirst(r) ==
    LET t == req[r].track
        e == req[r].epoch
    IN
    /\ req[r].pc = "upstream"
    /\ up[e].st # "asked"
    /\ IF up[e].st = "refused"
       THEN /\ reg' = failAndRemove(reg, t, e)
            /\ req' = [req EXCEPT ![r] = Idle]
       ELSE /\ reg' = completeSubscription(reg, t, e, e, up[e].session)
            /\ req' = [req EXCEPT ![r] = IF Completes(reg, t, e) /\ r \in fwd[e].subs
                                         THEN [@ EXCEPT !.pc = "attached"] ELSE Idle]
    /\ UNCHANGED <<fwd, up, watching, route, tree>>

\* A subscriber unsubscribes (or a watcher gives up the track), or the last
\* subgroup of one that is being drained closes.
RemoveSubscriber(x, e) ==
    LET t == fwd[e].track
        gone == LeavesEmpty(e, {x})
    IN
    /\ x \in fwd[e].subs
    /\ \/ fwd[e].draining
       \/ x \in Watchers
       \/ x \in Subscribers /\ req[x].pc = "attached" /\ req[x].epoch = e
    /\ fwd' = [fwd EXCEPT ![e].subs = @ \ {x}]
    /\ req' = Answered({x}, e)
    /\ reg' = IF gone THEN OnEmptyRegistry(reg, t) ELSE reg
    /\ up' = IF gone THEN OnEmptyUpstream(reg, up, t) ELSE up
    /\ UNCHANGED <<watching, route, tree>>

-----------------------------------------------------------------------------
(***************************************************************************)
(* PUBLISH and PUBLISH_DONE                                                *)
(***************************************************************************)

\* publish and publishWithSession.  An evicted entry that still has a handle is
\* unsubscribed and its forwarder drained; D are the subscribers the drain drops
\* at once.  A drain that empties the old forwarder calls onEmptyImpl by name,
\* which finds the new entry and tells its publisher to hold the objects back.
\* The answer to the PUBLISH comes last: it asks for objects iff a namespace
\* subscriber was added.
Publish(s, t) ==
    LET old == reg.entry[t]
        e == reg.epoch + 1
        evicts == old.handle # 0
        reg1 == createFromPublish(reg, t, s)
        up1 == [(IF evicts THEN unsubscribe(up, old.handle) ELSE up) EXCEPT
                  ![e] = [session |-> s, st |-> "live", cancel |-> FALSE, forward |-> TRUE]]
    IN
    /\ reg.epoch < MaxEpoch
    /\ Takeover \/ ~ exists(reg, t)
    /\ \E D \in IF evicts THEN DrainedAtOnce(old.epoch) ELSE {{}} :
       LET empties == evicts /\ LeavesEmpty(old.epoch, D) IN
       /\ fwd' = [x \in Epochs |->
                    IF x = e THEN [track |-> t, subs |-> watching, draining |-> FALSE]
                    ELSE IF evicts /\ x = old.epoch
                    THEN [track |-> t, subs |-> fwd[x].subs \ D, draining |-> TRUE]
                    ELSE fwd[x]]
       /\ req' = IF evicts THEN Answered(D, old.epoch) ELSE req
       /\ reg' = IF empties THEN OnEmptyRegistry(reg1, t) ELSE reg1
       /\ up' = [(IF empties THEN OnEmptyUpstream(reg1, up1, t) ELSE up1)
                   EXCEPT ![e].forward = watching # {}]
    /\ tree' = [tree EXCEPT ![t] = s]
    /\ UNCHANGED <<watching, route>>

\* The tree after unpublishTrack, which onPublishDone calls for an entry made by
\* PUBLISH.
Unpublished(R, t) == IF R.entry[t].isPublish THEN [tree EXCEPT ![t] = None] ELSE tree

\* RelayIngestFilter::publishDone of upstream subscription e on the relay's
\* executor: onPublishDone, by name, and then the drain of forwarder e.
PublishDoneHandler(e) ==
    LET t == fwd[e].track
        cur == reg.entry[t]
        empty == exists(reg, t) /\ \E c \in Epochs : c = cur.epoch /\ fwd[c].subs = {}
        reg1 == onPublisherTerminated(reg, t, empty)
    IN
    /\ tree' = Unpublished(reg, t)
    /\ \E D \in DrainedAtOnce(e) :
       /\ fwd' = [fwd EXCEPT ![e] = [track |-> t, subs |-> @.subs \ D, draining |-> TRUE]]
       /\ req' = Answered(D, e)
       /\ reg' = IF LeavesEmpty(e, D) THEN OnEmptyRegistry(reg1, t) ELSE reg1
       /\ up' = [(IF LeavesEmpty(e, D) THEN OnEmptyUpstream(reg1, up, t) ELSE up)
                   EXCEPT ![e].st = "ended"]
    /\ UNCHANGED <<watching, route>>

\* The publisher ends the track, or its session closes.
PublisherEnds(e) ==
    /\ up[e].st = "live"
    /\ IF Hop
       THEN /\ up' = [up EXCEPT ![e].st = "ending"]
            /\ UNCHANGED <<reg, fwd, req, watching, route, tree>>
       ELSE PublishDoneHandler(e)

DeliverPublishDone(e) ==
    /\ up[e].st = "ending"
    /\ PublishDoneHandler(e)

\* The unsubscribe posted by runOnSessionExec runs; the session calls the
\* consumer no more.
RunUnsubscribe(e) ==
    /\ up[e].cancel
    /\ up' = [up EXCEPT ![e].cancel = FALSE,
                        ![e].st = IF @ = "live" THEN "cancelled" ELSE @]
    /\ UNCHANGED <<reg, fwd, req, watching, route, tree>>

-----------------------------------------------------------------------------
(***************************************************************************)
(* Namespaces.  All tracks are in one namespace with at most one plain     *)
(* (non-cluster) route; the tree itself is the NamespaceTree module's.     *)
(***************************************************************************)

\* doPublishNamespace: a plain route replaces the one there is, also its own,
\* and then dropSubscriptionsFrom drops every entry fed by the replaced session.
PublishNamespace(s) ==
    /\ Takeover \/ route = None
    /\ route' = s
    /\ reg' = IF route = None THEN reg ELSE removeIf(reg, Tracks, route)
    /\ UNCHANGED <<fwd, up, req, watching, tree>>

\* doPublishNamespaceDone.  The faulty form drops the subscriptions fed by the
\* session, the way a replaced route does.
PublishNamespaceDone_drops ==
    /\ route # None
    /\ route' = None
    /\ reg' = removeIf(reg, Tracks, route)
    /\ UNCHANGED <<fwd, up, req, watching, tree>>

PublishNamespaceDone ==
    /\ route # None
    /\ route' = None
    /\ UNCHANGED <<reg, fwd, up, req, watching, tree>>

\* subscribeNamespaceImpl: the tracks published now are published to w too,
\* through the forwarders the registry has under their names.
SubscribeNamespace(w) ==
    LET matches == {t \in Tracks : tree[t] # None /\ exists(reg, t)}
        joined(e) == ~ fwd[e].draining /\ \E t \in matches : reg.entry[t].epoch = e
        woken(e) == joined(e) /\ fwd[e].subs = {} /\ IsReady(reg, fwd[e].track)
                    /\ reg.entry[fwd[e].track].handle = e
    IN
    /\ w \notin watching
    /\ watching' = watching \cup {w}
    /\ fwd' = [e \in Epochs |-> IF joined(e) THEN [fwd[e] EXCEPT !.subs = @ \cup {w}]
                                ELSE fwd[e]]
    /\ up' = [e \in Epochs |-> IF woken(e) THEN [up[e] EXCEPT !.forward = TRUE] ELSE up[e]]
    /\ UNCHANGED <<reg, req, route, tree>>

\* unsubscribeNamespace: the tracks already published to w stay.
UnsubscribeNamespace(w) ==
    /\ w \in watching
    /\ watching' = watching \ {w}
    /\ UNCHANGED <<reg, fwd, up, req, route, tree>>

-----------------------------------------------------------------------------
Next ==
    \/ \E r \in Subscribers, t \in Tracks :
          SubscribeFirst(r, t) \/ SubscribeJoin(r, t) \/ SubscribeWait(r, t)
    \/ \E r \in Subscribers : ResumeWaiter(r) \/ ResumeFirst(r)
    \/ \E x \in Sinks, e \in Epochs : RemoveSubscriber(x, e)
    \/ \E s \in Publishers, t \in Tracks : Publish(s, t)
    \/ \E e \in Epochs : UpstreamAnswers(e) \/ PublisherEnds(e)
                         \/ DeliverPublishDone(e) \/ RunUnsubscribe(e)
    \/ \E s \in Publishers : PublishNamespace(s)
    \/ PublishNamespaceDone
    \/ \E w \in Watchers : SubscribeNamespace(w) \/ UnsubscribeNamespace(w)

Spec == Init /\ [][Next]_vars

\* Sessions answer what they were asked, and executors run what is queued.
Fairness ==
    /\ \A e \in Epochs : WF_vars(UpstreamAnswers(e)) /\ WF_vars(DeliverPublishDone(e))
                         /\ WF_vars(RunUnsubscribe(e))
    /\ \A r \in Subscribers : WF_vars(ResumeWaiter(r)) /\ WF_vars(ResumeFirst(r))

FairSpec == Spec /\ Fairness

-----------------------------------------------------------------------------
(***************************************************************************)
(* Properties                                                              *)
(***************************************************************************)

\* The relay never aborts: no promise is set twice (PromiseAlreadySatisfied
\* escapes from a destructor), and onEmptyImpl and forwardChangedImpl never
\* find a handle without the upstream session whose executor they XCHECK.
NoAbort ==
    /\ \A e \in Epochs : reg.gate[e] # "aborted"
    /\ \A t \in Tracks : reg.entry[t].handle # 0 => reg.entry[t].upstream # None

\* A subscriber suspended in awaitSubsequent is never stranded: while its
\* promise is pending, the entry is in the registry and the first subscriber
\* that will settle the promise is still in subscribeImpl.
WaitersServed ==
    \A r \in Subscribers :
        req[r].pc = "waiting" /\ reg.gate[req[r].epoch] = "pending" =>
            /\ reg.entry[req[r].track].epoch = req[r].epoch
            /\ \E q \in Subscribers : req[q].pc = "upstream" /\ req[q].epoch = req[r].epoch

\* The handle of an entry controls the entry's own upstream subscription, held
\* by the session the entry names: a reconnecting publisher's entry never gets
\* the handle of the SUBSCRIBE it replaced.
OwnHandle ==
    \A t \in Tracks : reg.entry[t].handle # 0 =>
        /\ reg.entry[t].handle = reg.entry[t].epoch
        /\ up[reg.entry[t].handle].session = reg.entry[t].upstream

\* A subscriber that got SUBSCRIBE_OK is on a forwarder whose upstream OK has
\* been applied, so the Largest it was told is upstream's.
AttachedIsReady ==
    \A r \in Subscribers : req[r].pc = "attached" => reg.gate[req[r].epoch] = "ready"

\* onEmptyImpl: "Handle is null - publisher terminated via FilterConsumer".  A
\* fulfilled entry without a handle is one whose own publisher is done.
NullHandleMeansEnded ==
    \A t \in Tracks :
        IsReady(reg, t) /\ reg.entry[t].handle = 0 => up[reg.entry[t].epoch].st = "ended"

\* onEmptyImpl: "Handle exists - just last subscriber left".  The relay cancels
\* an upstream subscription, or stops its objects, only when no subscriber of
\* that subscription's own forwarder is left, or when a PUBLISH evicts it.
Released(u) == u.cancel \/ u.st = "cancelled" \/ ~ u.forward

LastSubscriberLeft ==
    [][\A e \in Epochs : Released(up'[e]) /\ ~ Released(up[e])
          => fwd'[e].subs = {} \/ fwd'[e].draining]_vars

\* Nobody is left on a silent track: as long as a forwarder has subscribers and
\* is not being drained, its upstream subscription is under way, live and asked
\* for objects, or its end is about to be delivered.
SubscribersAreFed ==
    \A e \in Epochs : fwd[e].subs # {} /\ ~ fwd[e].draining =>
        \/ up[e].st \in {"refused", "ending"}
        \/ up[e].st \in {"asked", "live"} /\ ~ Released(up[e])

\* Every subscriber suspended behind another one is answered.
WaitersAnswered ==
    \A r \in Subscribers : req[r].pc = "waiting" ~> req[r].pc # "waiting"
=============================================================================
