--------------------------- MODULE NamespaceRoutes ---------------------------
(***************************************************************************)
(* The namespace side of MoqxRelay (MoqxRelay.cpp): namespaces announced   *)
(* with PUBLISH_NAMESPACE, or with NAMESPACE by a peer relay, are routes   *)
(* of the NamespaceTree, and each SUBSCRIBE_NAMESPACE is told of the best  *)
(* route it may use, of every namespace below its prefix, and of each      *)
(* change.  All of it runs on the relay executor, one handler at a time.   *)
(***************************************************************************)
EXTENDS NamespaceTree

CONSTANTS
    Announcers,   \* sessions that announce namespaces
    Listeners,    \* sessions that subscribe to them
    HopOf,        \* each session's peer hop ID, 0 if it declared none
    PeerOf,       \* each session's relay ID as a peer, 0 if it is none
    LocalHop,     \* relayHopID_
    Allowed,      \* allowedNamespacePrefix_
    Prefixes,     \* the prefixes listeners subscribe to
    MaxMatches,   \* kMaxNamespaceMatches
    MaxActive     \* bound: the count of active children on a node

ASSUME RoutesAssumption ==
    /\ Announcers \subseteq Sessions /\ Listeners \subseteq Sessions
    /\ HopOf \in [Sessions -> Nat] /\ PeerOf \in [Sessions -> Nat]
    /\ LocalHop \in Nat \ {0} /\ MaxMatches \in Nat /\ MaxActive \in Nat
    /\ Allowed \in Namespaces /\ Prefixes \subseteq Namespaces

VARIABLES
    tree,         \* namespaceTree_
    handles,      \* the NamespaceRouteHandles their sessions hold
    bridged,      \* activeNamespaces_ of the peers' MoqxRelayNamespaceHandles
    subscribed,   \* the namespace subscriptions that are open
    told          \* the namespaces each of them has been told of and not told are done

vars == <<tree, handles, bridged, subscribed, told>>

OpenSubscription == [sub : Subscription, prefix : Namespaces]

Told == [to : OpenSubscription, ns : Namespaces, seq : 1 .. MaxSeq, offer : Offers \cup {Plain}]

\* The tree, its book of advertisements and the sessions' handles are of their
\* type: no count of active children drops below zero.
TypeOK ==
    /\ tree \in Tree
    /\ handles \subseteq [session : Sessions, ns : Namespaces, req : Nat]
    /\ bridged \subseteq Sessions \X Namespaces
    /\ subscribed \subseteq OpenSubscription
    /\ told \subseteq Told
-----------------------------------------------------------------------------
(***************************************************************************)
(* Advertising.                                                            *)
(***************************************************************************)
\* A peer must not be told of a path through itself, or of its own route.
shouldForwardNamespace(r, sub) ==
    /\ r.session # sub.session
    /\ sub.wants
    /\ ~ Contains(r.offer.path, HopOf[sub.session])
    /\ HopOf[sub.session] = 0 \/ HopOf[sub.session] # LocalHop

\* The route subscription sub is to be told of at node n, as a set of at most one.
advertisableRoute(T, n, sub) ==
    selectRoute({r \in T.routes[n] : (sub.peer = 0 \/ r.peer # sub.peer) /\ shouldForwardNamespace(r, sub)})

SamePublisher(a, r) ==
    a.seq = r.seq \/ (a.offer.path[1] # 0 /\ a.offer.path[1] = r.offer.path[1])

\* The book's entry for open subscription o at node n.
Sent(T, n, o) == {a \in T.ads[n] : a.session = o.sub.session /\ a.depth = Len(o.prefix)}

\* Faulty form: nothing is sent as long as the publisher is the same.
Kept_samePublisher(T, n, o) ==
    {a \in Sent(T, n, o) : \E r \in advertisableRoute(T, n, o.sub) : SamePublisher(a, r)}

\* It stands when the publisher is the same and either nothing changed or the
\* subscriber has no use for paths.
Kept(T, n, o) ==
    {a \in Sent(T, n, o) : \E r \in advertisableRoute(T, n, o.sub) :
        SamePublisher(a, r) /\ (o.sub.session \notin Cluster \/ a.offer = r.offer)}

\* The NAMESPACE that is sent otherwise.
NewlySent(T, n, o) ==
    {[session |-> o.sub.session, depth |-> Len(o.prefix), seq |-> r.seq, offer |-> r.offer] :
        r \in {q \in advertisableRoute(T, n, o.sub) : Kept(T, n, o) = {}}}

\* reconcileAdvertisement for the open subscriptions O at node n: the book ...
Reconciled(T, n, O) ==
    [T EXCEPT !.ads[n] = (@ \ UNION {Sent(T, n, o) : o \in O})
                         \cup UNION {Kept(T, n, o) \cup NewlySent(T, n, o) : o \in O}]

\* ... and the messages, for the nodes N: a NAMESPACE_DONE when an entry goes,
\* a NAMESPACE for a new one.
TellAll(T, N, O) ==
    LET changed(t) == Kept(T, t.ns, t.to) = {} /\ Sent(T, t.ns, t.to) \cup NewlySent(T, t.ns, t.to) # {}
    IN {t \in told : t.to \in O /\ t.ns \in N => ~ changed(t)}
       \cup UNION {{[to |-> o, ns |-> n, seq |-> a.seq, offer |-> a.offer] : a \in NewlySent(T, n, o)} :
                    o \in O, n \in N}

\* The subscriptions collected on the way to node n.
SubscribersOf(T, n) ==
    UNION {{[sub |-> sub, prefix |-> p] : sub \in T.subs[p]} : p \in Above(n) \cup {n}}

\* The counts never come down to what they stand for (NoEmptyNodes), so they
\* are bounded here.
Grow(T) == tree' = T /\ \A n \in Namespaces : T.active[n] <= MaxActive

\* Node n has changed: everybody who covers it is told.
Announce(T, n) ==
    /\ Grow(Reconciled(T, n, SubscribersOf(T, n)))
    /\ told' = TellAll(T, {n}, SubscribersOf(T, n))
-----------------------------------------------------------------------------
(***************************************************************************)
(* Announcers.                                                             *)
(***************************************************************************)
\* ingestRoute: what session s's parameters make of it.
Ingested(s, offer) == IF s \in Cluster THEN offer ELSE Plain
Looped(s, offer) == s \in Cluster /\ Contains(offer.path, LocalHop)

\* doPublishNamespaceDone, for the routes R of node n that match (at most
\* one).  The node that was pruned is still there to tell the subscribers.
doPublishNamespaceDone(n, R) ==
    LET U == [tree EXCEPT !.routes[n] = @ \ R]
        O == SubscribersOf(U, n)
    IN IF n \in tree.nodes /\ R # {}
       THEN /\ tree' = Mutated(tree, Reconciled(U, n, O), n)
            /\ told' = TellAll(U, {n}, O)
       ELSE UNCHANGED <<tree, told>>

RoutesOf(s, n) == {r \in tree.routes[n] : r.session = s}

\* PUBLISH_NAMESPACE.  One that loops, or is not allowed, is refused.
publishNamespace(s, n, offer) ==
    /\ tree.seq < MaxSeq /\ ~ Looped(s, offer) /\ Under(Allowed, n)
    /\ Announce(setPublisher(tree, n, s, TRUE, 0, tree.seq + 1, Ingested(s, offer)), n)
    /\ handles' = handles \cup {[session |-> s, ns |-> n, req |-> tree.seq + 1]}
    /\ UNCHANGED <<bridged, subscribed>>

\* NAMESPACE from a peer relay.  One that loops takes the peer's route away.
namespaceMsg(s, n, offer) ==
    /\ tree.seq < MaxSeq
    /\ IF Looped(s, offer) THEN doPublishNamespaceDone(n, RoutesOf(s, n))
       ELSE IF ~ Under(Allowed, n) THEN UNCHANGED <<tree, told>>
       ELSE Announce(setPublisher(tree, n, s, FALSE, PeerOf[s], 0, Ingested(s, offer)), n)
    /\ bridged' = bridged \cup {<<s, n>>}
    /\ UNCHANGED <<handles, subscribed>>

\* NAMESPACE_DONE, or the end of the peer's stream.
namespaceDoneMsg(s, n) ==
    /\ <<s, n>> \in bridged
    /\ doPublishNamespaceDone(n, RoutesOf(s, n))
    /\ bridged' = bridged \ {<<s, n>>}
    /\ UNCHANGED <<handles, subscribed>>

\* PUBLISH_NAMESPACE_DONE, or the end of the session.
publishNamespaceDone(h) ==
    /\ doPublishNamespaceDone(h.ns, {r \in RoutesOf(h.session, h.ns) : r.req = h.req})
    /\ handles' = handles \ {h}
    /\ UNCHANGED <<bridged, subscribed>>

\* REQUEST_UPDATE of a PUBLISH_NAMESPACE of a cluster session.
updatePublishNamespace(h, offer) ==
    LET R == {r \in RoutesOf(h.session, h.ns) : r.req = h.req} IN
    /\ h.session \in Cluster /\ R # {} /\ tree.seq < MaxSeq
    /\ IF Looped(h.session, offer) THEN doPublishNamespaceDone(h.ns, R)
       ELSE \E r \in R : Announce(reviseRoute(tree, h.ns, r, offer, r.peer), h.ns)
    /\ UNCHANGED <<handles, bridged, subscribed>>

\* Tracks published at a node, and their end.
publish(n, name) ==
    /\ Grow(addPublish(tree, n, name))
    /\ UNCHANGED <<handles, bridged, subscribed, told>>

trackDone(n, name) ==
    /\ name \in tree.pubs[n]
    /\ tree' = unpublishTrack(tree, n, name)
    /\ UNCHANGED <<handles, bridged, subscribed, told>>
-----------------------------------------------------------------------------
(***************************************************************************)
(* Listeners.  A session has one subscription to a prefix at a time.       *)
(***************************************************************************)
Below(p) == {n \in tree.nodes : Under(p, n)}

subscribeNamespace(s, p, wants) ==
    LET o == [sub |-> [session |-> s, wants |-> wants, peer |-> PeerOf[s]], prefix |-> p]
        matches == {n \in Below(p) : advertisableRoute(tree, n, o.sub) # {}}
        T == addNamespaceSubscriber(tree, p, o.sub)
    IN /\ \A q \in subscribed : q.sub.session # s \/ q.prefix # p
       /\ o.sub.peer # 0 \/ Cardinality(matches) <= MaxMatches
       /\ Grow([T EXCEPT !.ads = [n \in Namespaces |->
                   IF n \in matches THEN Reconciled(T, n, {o}).ads[n] ELSE @[n]]])
       /\ told' = TellAll(T, matches, {o})
       /\ subscribed' = subscribed \cup {o}
       /\ UNCHANGED <<handles, bridged>>

unsubscribeNamespace(o) ==
    /\ tree' = removeNamespaceSubscriber(tree, o.prefix, o.sub)
    /\ subscribed' = subscribed \ {o}
    /\ told' = {t \in told : t.to # o}
    /\ UNCHANGED <<handles, bridged>>

Init ==
    /\ tree = EmptyTree
    /\ handles = {} /\ bridged = {} /\ subscribed = {} /\ told = {}

Next ==
    \/ \E s \in Announcers, n \in Namespaces, offer \in Offers : publishNamespace(s, n, offer)
    \/ \E s \in Announcers, n \in Namespaces, offer \in Offers : namespaceMsg(s, n, offer)
    \/ \E s \in Announcers, n \in Namespaces : namespaceDoneMsg(s, n)
    \/ \E h \in handles : publishNamespaceDone(h)
    \/ \E h \in handles, offer \in Offers : updatePublishNamespace(h, offer)
    \/ \E n \in Namespaces, name \in TrackNames : publish(n, name)
    \/ \E n \in Namespaces, name \in TrackNames : trackDone(n, name)
    \/ \E s \in Listeners, p \in Prefixes, wants \in BOOLEAN : subscribeNamespace(s, p, wants)
    \/ \E o \in subscribed : unsubscribeNamespace(o)

Spec == Init /\ [][Next]_vars
-----------------------------------------------------------------------------
(***************************************************************************)
(* Properties.                                                             *)
(***************************************************************************)
\* What a subscription was last told of a namespace below its prefix is what
\* holds now: nothing when there is no route for it, the best route's path and
\* cost when it understands them, and otherwise a route of the best route's
\* publisher.
ToldIsCurrent ==
    \A o \in subscribed, n \in Namespaces :
        LET best == IF Under(o.prefix, n) THEN advertisableRoute(tree, n, o.sub) ELSE {}
            heard == {t \in told : t.to = o /\ t.ns = n}
        IN /\ best = {} <=> heard = {}
           /\ \A t \in heard, r \in best : SamePublisher(t, r)
           /\ o.sub.session \in Cluster => {t.offer : t \in heard} = {r.offer : r \in best}
           /\ Cardinality(heard) <= 1

\* A node counts every child that must be kept, so that the count is never
\* decremented below zero (XCHECK_GT in tryPruneChild).
CountsCover ==
    \A n \in tree.nodes :
        tree.active[n] >= Cardinality({c \in tree.nodes : Len(c) = Len(n) + 1 /\ Under(n, c) /\ shouldKeep(tree, c)})

\* Pruning takes only what is empty: every open subscription is found at its
\* node and every node on the way to it is there.
NothingLost ==
    /\ \A o \in subscribed : o.sub \in tree.subs[o.prefix]
    /\ \A n \in Namespaces : hasContent(tree, n) => Above(n) \cup {n} \subseteq tree.nodes

\* Pruning takes all that is empty: a node other than the root leads to
\* something.  (The code does not keep this: notifyParentIfFirstContent may
\* count a child twice.)
NoEmptyNodes ==
    \A n \in tree.nodes \ {<<>>} : \E c \in tree.nodes : Under(n, c) /\ hasContent(tree, c)
=============================================================================
