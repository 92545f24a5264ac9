-------------------------- MODULE PendingRendezvous --------------------------
(***************************************************************************)
(* SUBSCRIBEs with a RENDEZVOUS_TIMEOUT, parked until a publisher of their *)
(* track appears: PendingRendezvousTree and the coroutine                  *)
(* rendezvousWithPublisherOrTimeout of MoqxRelay.                          *)
(*                                                                         *)
(* The tree is the set of its nodes, each the path from the root, and the  *)
(* waiters listed under each track.  What makes a track resolvable is kept *)
(* as two sets: the namespaces with a route and the tracks with an entry   *)
(* in the subscription registry.                                           *)
(***************************************************************************)
EXTENDS Naturals, Sequences

CONSTANTS
    Namespaces,     \* paths, each with its prefixes
    Names,          \* track names
    Waiters         \* SUBSCRIBE requests

Tracks == [ns : Namespaces, name : Names]

VARIABLES
    nodes,      \* nodes of the tree
    listed,     \* waitersByTrack: waiters listed under each track
    routes,     \* namespaces with a route
    entries,    \* tracks with an entry in registry_
    want,       \* the track of each request
    pc          \* where each request is

vars == <<nodes, listed, routes, entries, want, pc>>

\* The state is of its type; a request is listed nowhere but under its track.
TypeOK ==
    /\ nodes \subseteq Namespaces /\ <<>> \in nodes
    /\ listed \in [Tracks -> SUBSET Waiters]
    /\ routes \subseteq Namespaces /\ entries \subseteq Tracks
    /\ want \in [Waiters -> Tracks]
    /\ pc \in [Waiters -> {"start", "parked", "signalled", "expired",
                        "go on", "timed out", "cancelled"}]
    /\ \A t \in Tracks : \A w \in listed[t] : want[w] = t
-----------------------------------------------------------------------------
(***************************************************************************)
(* The tree.                                                               *)
(***************************************************************************)
Path(ns) == {SubSeq(ns, 1, i) : i \in 0 .. Len(ns)}
Under(ns) == {t \in Tracks : ns \in Path(t.ns)}

\* The nodes of N on the path to ns that stay, the tree having lists L: an
\* empty node goes, then its parent if that is empty now.
Pruned(N, L, ns) ==
    {p \in N : \/ p = <<>> \/ p \notin Path(ns)
               \/ \E q \in N \ Path(ns) : p \in Path(q)
               \/ \E t \in Tracks : p \in Path(t.ns) /\ t.ns \in N /\ L[t] # {}}

findOrCreateNode(ns) == nodes \cup Path(ns)

addWaiter(w, t) ==
    /\ nodes' = findOrCreateNode(t.ns)
    /\ listed' = [listed EXCEPT ![t] = @ \cup {w}]

eraseWaiter(w, t) ==
    /\ listed' = [listed EXCEPT ![t] = @ \ {w}]
    /\ nodes' = Pruned(nodes, [listed EXCEPT ![t] = @ \ {w}], t.ns)

\* signal on the batons of W; one whose wait has ended does not hear it.
Signalled(W) ==
    pc' = [w \in Waiters |-> IF w \in W /\ pc[w] = "parked" THEN "signalled" ELSE pc[w]]

wakeForTrack(t) ==
    LET L == [listed EXCEPT ![t] = {}]
    IN /\ listed' = L /\ nodes' = Pruned(nodes, L, t.ns)
       /\ Signalled(listed[t])

\* Faulty form: the waiters of the node itself only.
wakeUnderNamespace_node(ns) ==
    LET L == [t \in Tracks |-> IF t.ns = ns THEN {} ELSE listed[t]]
    IN /\ listed' = L /\ nodes' = Pruned(nodes, L, ns)
       /\ Signalled(UNION {listed[t] : t \in {u \in Tracks : u.ns = ns}})

\* collectSubtree takes the waiters and the children of the node.
wakeUnderNamespace(ns) ==
    LET L == [t \in Tracks |-> IF t \in Under(ns) THEN {} ELSE listed[t]]
        N == {p \in nodes : ns \notin Path(p) \/ p = ns}
    IN /\ listed' = L /\ nodes' = Pruned(N, L, ns)
       /\ Signalled(UNION {listed[t] : t \in Under(ns)})
-----------------------------------------------------------------------------
(***************************************************************************)
(* The requests.                                                           *)
(***************************************************************************)
Resolvable(t) == t \in entries \/ \E ns \in routes : ns \in Path(t.ns)

rendezvous(w, t) ==
    /\ pc[w] = "start"
    /\ want' = [want EXCEPT ![w] = t]
    /\ \/ Resolvable(t) /\ pc' = [pc EXCEPT ![w] = "go on"] /\ UNCHANGED <<nodes, listed>>
       \/ ~ Resolvable(t) /\ pc' = [pc EXCEPT ![w] = "parked"] /\ addWaiter(w, t)
    /\ UNCHANGED <<routes, entries>>

\* Faulty form: the wait has no timer.
expire_never(w) ==
    /\ pc[w] = "expired"
    /\ UNCHANGED vars

\* The timer of the wait fires; the coroutine has yet to resume.
expire(w) ==
    /\ pc[w] = "parked"
    /\ pc' = [pc EXCEPT ![w] = "expired"]
    /\ UNCHANGED <<nodes, listed, routes, entries, want>>

\* The coroutine resumes, and its guard erases the waiter.
resume(w) ==
    /\ \/ pc[w] = "signalled" /\ pc' = [pc EXCEPT ![w] = "go on"]
       \/ pc[w] = "expired" /\ pc' = [pc EXCEPT ![w] = "timed out"]
    /\ eraseWaiter(w, want[w])
    /\ UNCHANGED <<routes, entries, want>>

\* The request is cancelled, its session closing; the guard does the same.
cancel(w) ==
    /\ pc[w] \in {"parked", "signalled", "expired"}
    /\ pc' = [pc EXCEPT ![w] = "cancelled"]
    /\ eraseWaiter(w, want[w])
    /\ UNCHANGED <<routes, entries, want>>

\* doPublishNamespace and publishWithSession wake after the route or the entry
\* is in place.
publishNamespace(ns) ==
    /\ ns \notin routes
    /\ routes' = routes \cup {ns}
    /\ wakeUnderNamespace(ns)
    /\ UNCHANGED <<entries, want>>

publish(t) ==
    /\ entries' = entries \cup {t}
    /\ wakeForTrack(t)
    /\ UNCHANGED <<routes, want>>

\* A SUBSCRIBE that finds a publisher makes an entry, and wakes nobody.
subscribe(t) ==
    /\ t \notin entries /\ Resolvable(t)
    /\ entries' = entries \cup {t}
    /\ UNCHANGED <<nodes, listed, routes, want, pc>>

publishNamespaceDone(ns) ==
    /\ ns \in routes
    /\ routes' = routes \ {ns}
    /\ UNCHANGED <<nodes, listed, entries, want, pc>>

remove(t) ==
    /\ t \in entries
    /\ entries' = entries \ {t}
    /\ UNCHANGED <<nodes, listed, routes, want, pc>>

Init ==
    /\ nodes = {<<>>} /\ listed = [t \in Tracks |-> {}]
    /\ routes = {} /\ entries = {}
    /\ want \in [Waiters -> {CHOOSE t \in Tracks : TRUE}]
    /\ pc = [w \in Waiters |-> "start"]

Next ==
    \/ \E w \in Waiters, t \in Tracks : rendezvous(w, t)
    \/ \E w \in Waiters : expire(w)
    \/ \E w \in Waiters : resume(w)
    \/ \E w \in Waiters : cancel(w)
    \/ \E ns \in Namespaces : publishNamespace(ns)
    \/ \E t \in Tracks : publish(t)
    \/ \E t \in Tracks : subscribe(t)
    \/ \E ns \in Namespaces : publishNamespaceDone(ns)
    \/ \E t \in Tracks : remove(t)

Spec == Init /\ [][Next]_vars

\* Timers fire, and a coroutine that may resume does.
FairSpec == Spec /\ \A w \in Waiters : WF_vars(expire(w)) /\ WF_vars(resume(w))
-----------------------------------------------------------------------------
(***************************************************************************)
(* Properties.                                                             *)
(***************************************************************************)
\* No wake-up is lost: while a request is parked and its baton unsignalled,
\* nobody publishes its track.
NoLostWake == \A w \in Waiters : pc[w] = "parked" => ~ Resolvable(want[w])

\* Every request comes to an end.
RendezvousEnds ==
    \A w \in Waiters : pc[w] = "parked" ~> pc[w] \in {"go on", "timed out", "cancelled"}
=============================================================================
