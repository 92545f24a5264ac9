--------------------------- MODULE MCNamespaces ----------------------------
(***************************************************************************)
(* Instances for TLC of what the relay does with namespaces: the routes    *)
(* and those told of them (NamespaceRoutes), or the requests parked until  *)
(* one appears (PendingRendezvous).  A behaviour has the one or the other. *)
(***************************************************************************)
EXTENDS NamespaceRoutes

CONSTANTS plain, near, far, room, side, Rooms, Names, Waiters

\* Namespaces on one branch; the prefixes nest.
Line == {<<>>, <<room>>, <<room, side>>}
Short == {<<>>, <<room>>}
Home == <<room>>

\* A direct path, one through another relay, and one that came through here.
Paths == {[path |-> <<1>>, cost |-> 1], [path |-> <<1, 3>>, cost |-> 0], [path |-> <<3, 9>>, cost |-> 0]}

Hops == [s \in Sessions |-> IF s = near THEN 1 ELSE IF s = far THEN 2 ELSE 0]
Peers == [s \in Sessions |-> IF s = far THEN 7 ELSE 0]

VARIABLES of, nodes, listed, routes, entries, want, pc

Rendezvous == INSTANCE PendingRendezvous WITH Namespaces <- Rooms

parkedVars == <<nodes, listed, routes, entries, want, pc>>
allVars == <<of, vars, parkedVars>>

OfRendezvous(A) == of = "rendezvous" /\ A /\ UNCHANGED <<of, vars>>

MCInit == of \in {"routes", "rendezvous"} /\ Init /\ Rendezvous!Init
MCNext ==
    \/ of = "routes" /\ Next /\ UNCHANGED <<of, parkedVars>>
    \/ of = "rendezvous" /\ Rendezvous!Next /\ UNCHANGED <<of, vars>>

\* Timers fire, and a coroutine that may resume does.
MCSpec ==
    /\ MCInit /\ [][MCNext]_allVars
    /\ \A w \in Waiters : /\ WF_allVars(OfRendezvous(Rendezvous!expire(w)))
                          /\ WF_allVars(OfRendezvous(Rendezvous!resume(w)))
-----------------------------------------------------------------------------
\* No wake-up is lost: while a request is parked and its baton unsignalled,
\* nobody publishes its track.
NoLostWake == Rendezvous!NoLostWake

\* Every parked request comes to an end: it goes on, times out or is cancelled.
RendezvousEnds == Rendezvous!RendezvousEnds
=============================================================================
