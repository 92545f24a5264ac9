---------------------------- MODULE NamespaceTree ----------------------------
(***************************************************************************)
(* NamespaceTree (NamespaceTree.cpp): the routes, published tracks and     *)
(* namespace subscribers of a relay, on the nodes of a tree of namespaces, *)
(* and what each subscriber was told of each node.  The tree grows a node  *)
(* when something is put there and prunes it when the last thing is gone,  *)
(* with a count of active children on each node to know when.              *)
(*                                                                         *)
(* A tree is a record; the methods are operators from tree to tree.  A     *)
(* namespace is a sequence of labels and names its node.                   *)
(***************************************************************************)
EXTENDS Naturals, Sequences, FiniteSets

CONSTANTS
    Namespaces,   \* a finite set of namespaces, closed under prefixes
    Sessions,
    Cluster,      \* the sessions that negotiated MoQ Cluster
    TrackNames,
    Offers,       \* the HOP_PATHs and costs a cluster session may send
    MaxSeq        \* bound: route generations

Under(p, n) == Len(p) <= Len(n) /\ SubSeq(n, 1, Len(p)) = p
Above(n) == {p \in Namespaces : Under(p, n) /\ p # n}

Labels == UNION {{n[i] : i \in DOMAIN n} : n \in Namespaces}

ASSUME TreeAssumption ==
    /\ IsFiniteSet(Namespaces) /\ Namespaces \subseteq Seq(Labels)
    /\ <<>> \in Namespaces
    /\ \A n \in Namespaces : \A k \in 0 .. Len(n) : SubSeq(n, 1, k) \in Namespaces
    /\ Cluster \subseteq Sessions
    /\ \A o \in Offers : o.path \in Seq(Nat) /\ o.path # <<>> /\ o.cost \in Nat
    /\ MaxSeq \in Nat

\* The route of a session that did not negotiate MoQ Cluster: hop 0 is anonymous.
Plain == [path |-> <<0>>, cost |-> 0]

\* callback is whether it came as PUBLISH_NAMESPACE; req is its request ID,
\* 0 for a NAMESPACE message; peer is the relay ID it was tagged with.
Route ==
    [session : Sessions, callback : BOOLEAN, peer : Nat, req : Nat,
     offer : Offers \cup {Plain}, seq : 1 .. MaxSeq]

\* One SUBSCRIBE_NAMESPACE; wants is whether its options ask for NAMESPACE.
Subscription == [session : Sessions, wants : BOOLEAN, peer : Nat]

\* What the subscription with this session and prefix length was last told.
Advertisement == [session : Sessions, depth : Nat, seq : 1 .. MaxSeq, offer : Offers \cup {Plain}]

EmptyTree ==
    [nodes  |-> {<<>>},
     active |-> [n \in Namespaces |-> 0],     \* activeChildCount_
     routes |-> [n \in Namespaces |-> {}],
     pubs   |-> [n \in Namespaces |-> {}],    \* publishes_
     subs   |-> [n \in Namespaces |-> {}],    \* subscribers_
     ads    |-> [n \in Namespaces |-> {}],    \* advertisements_
     seq    |-> 0]                            \* nextRouteSeq_

Tree ==
    [nodes  : SUBSET Namespaces,
     active : [Namespaces -> Nat],
     routes : [Namespaces -> SUBSET Route],
     pubs   : [Namespaces -> SUBSET TrackNames],
     subs   : [Namespaces -> SUBSET Subscription],
     ads    : [Namespaces -> SUBSET Advertisement],
     seq    : 0 .. MaxSeq]
-----------------------------------------------------------------------------
(***************************************************************************)
(* Growing and pruning.                                                    *)
(***************************************************************************)
hasContent(T, n) == T.pubs[n] # {} \/ T.subs[n] # {} \/ T.routes[n] # {}

shouldKeep(T, n) == hasContent(T, n) \/ T.active[n] > 0

\* Faulty form: only the parent counts it.
incrementActiveChildren_parent(T, n) ==
    [T EXCEPT !.active = [p \in Namespaces |-> IF p \in Above(n) /\ Len(p) = Len(n) - 1 THEN @[p] + 1 ELSE @[p]]]

\* Node n became active: each node above it has one more active child, up to
\* and including the first that had one before or has content of its own.
incrementActiveChildren(T, n) ==
    LET climbs(p) == T.active[p] = 0 /\ ~ hasContent(T, p)
        counted == {p \in Above(n) : \A q \in Above(n) : Under(p, q) /\ p # q => climbs(q)}
    IN [T EXCEPT !.active = [p \in Namespaces |-> IF p \in counted THEN @[p] + 1 ELSE @[p]]]

\* Everything at and below n goes.
Removed(T, n) ==
    [T EXCEPT !.nodes  = {p \in @ : ~ Under(n, p)},
              !.active = [p \in Namespaces |-> IF Under(n, p) THEN 0 ELSE @[p]],
              !.routes = [p \in Namespaces |-> IF Under(n, p) THEN {} ELSE @[p]],
              !.pubs   = [p \in Namespaces |-> IF Under(n, p) THEN {} ELSE @[p]],
              !.subs   = [p \in Namespaces |-> IF Under(n, p) THEN {} ELSE @[p]],
              !.ads    = [p \in Namespaces |-> IF Under(n, p) THEN {} ELSE @[p]]]

\* Faulty form: whatever is above goes as well, kept by a sibling or not.
tryPruneChild_eager(T, n) == Removed(T, SubSeq(n, 1, 1))

\* Node n is empty: the nodes above it lose an active child, up to and
\* including the first that is still kept; the highest that is not goes, with
\* all below it.
tryPruneChild(T, n) ==
    LET empties(p) == ~ hasContent(T, p) /\ T.active[p] = 1
        counted == {p \in Above(n) : \A q \in Above(n) : Under(p, q) /\ p # q => empties(q)}
        gone == {n} \cup {p \in counted : p # <<>> /\ empties(p)}
        top == CHOOSE p \in gone : \A q \in gone : Under(p, q)
    IN Removed([T EXCEPT !.active = [p \in Namespaces |-> IF p \in counted THEN @[p] - 1 ELSE @[p]]],
               top)

\* ~NodeMutationGuard, for a node whose content was T's and now is U's.
Mutated(T, U, n) ==
    LET V == IF ~ hasContent(T, n) /\ hasContent(U, n) THEN incrementActiveChildren(U, n) ELSE U
    IN IF hasContent(T, n) /\ ~ shouldKeep(V, n) /\ n # <<>> THEN tryPruneChild(V, n) ELSE V

\* findNode, creating what is missing.
Created(T, n) == [T EXCEPT !.nodes = @ \cup Above(n) \cup {n}]
-----------------------------------------------------------------------------
(***************************************************************************)
(* Routes.                                                                 *)
(***************************************************************************)
Contains(path, hop) == hop # 0 /\ \E i \in DOMAIN path : path[i] = hop
HasAnon(path) == \E i \in DOMAIN path : path[i] = 0

\* A path without 0, then the lowest cost, then the shortest, then the newest.
betterRoute(a, b) ==
    LET key(r, s) == <<IF HasAnon(r.offer.path) THEN 1 ELSE 0, r.offer.cost, Len(r.offer.path), s>>
        x == key(a, b.seq)
        y == key(b, a.seq)
    IN \E i \in 1 .. 4 : x[i] < y[i] /\ \A j \in 1 .. i - 1 : x[j] = y[j]

\* The best of a set of routes, as a set of at most one.
selectRoute(R) == {r \in R : \A q \in R \ {r} : betterRoute(r, q)}

SameOrigin(a, b) == a[1] = b[1]

\* The routes that a new one of session s displaces.
Displaced(T, n, s) ==
    {r \in T.routes[n] : r.session = s \/ (s \notin Cluster /\ r.session \notin Cluster)}

\* reviseRoute: a new origin starts a new generation.
reviseRoute(T, n, r, offer, peer) ==
    LET fresh == ~ SameOrigin(r.offer.path, offer.path)
        k == IF fresh THEN T.seq + 1 ELSE r.seq
    IN [T EXCEPT !.seq = IF fresh THEN k ELSE @,
                 !.routes[n] = (@ \ {r}) \cup {[r EXCEPT !.offer = offer, !.seq = k, !.peer = peer]}]

\* A repeated NAMESPACE updates its route in place; any other advertisement
\* takes the place of what it displaces.
setPublisher(T, n, s, callback, peer, req, offer) ==
    LET old == Displaced(T, n, s)
        inPlace == {r \in old : r.session = s /\ s \in Cluster /\ ~ r.callback /\ ~ callback}
        C == Created(T, n)
        new == [session |-> s, callback |-> callback, peer |-> peer, req |-> req,
                offer |-> offer, seq |-> T.seq + 1]
    IN IF inPlace # {} THEN reviseRoute(C, n, CHOOSE r \in inPlace : TRUE, offer, peer)
       ELSE Mutated(C, [C EXCEPT !.routes[n] = (@ \ old) \cup {new}, !.seq = @ + 1], n)

addPublish(T, n, name) ==
    LET C == Created(T, n) IN Mutated(C, [C EXCEPT !.pubs[n] = @ \cup {name}], n)

unpublishTrack(T, n, name) ==
    IF n \in T.nodes THEN Mutated(T, [T EXCEPT !.pubs[n] = @ \ {name}], n) ELSE T

addNamespaceSubscriber(T, n, sub) ==
    LET C == Created(T, n) IN Mutated(C, [C EXCEPT !.subs[n] = @ \cup {sub}], n)

removeNamespaceSubscriber(T, n, sub) ==
    LET F == [T EXCEPT !.ads = [p \in Namespaces |->
                 IF Under(n, p) THEN {a \in @[p] : a.session # sub.session \/ a.depth # Len(n)} ELSE @[p]]]
    IN Mutated(F, [F EXCEPT !.subs[n] = @ \ {sub}], n)
=============================================================================
