----------------------- MODULE LocalForwarderRegistry -----------------------
(***************************************************************************)
(* The table of forwarders of one iothread (relay/LocalForwarderRegistry.h).*)
(* An entry is absent, pending or ready; a pending entry carries the       *)
(* promise that releases the subscribers waiting for it, and one Claim     *)
(* owes its resolution.                                                    *)
(*                                                                         *)
(* A registry is a record                                                  *)
(*   entry      forwarders_, a total function; Absent where there is none  *)
(*   displaced  displaced_, the occupants parked by replaceAndPark         *)
(*   promise    every promise ever made, also the ones only waiters hold   *)
(* and every method is an operator from a registry to a registry.          *)
(* Forwarders are numbered in the order of their creation and stand for    *)
(* the pointers the code compares: a pointer is compared only while some   *)
(* reference keeps it from being reused.  A promise has the number of the  *)
(* forwarder it was made for.                                              *)
(***************************************************************************)
EXTENDS Naturals

CONSTANTS
    Tracks,        \* full track names
    MaxForwarder   \* bound on the forwarders created on this thread

ASSUME LocalAssumption == MaxForwarder \in Nat

Forwarders == 1 .. MaxForwarder

\* Entry; ready is the promise, 0 when the entry is ready.
LocalEntry == [fwd : 0 .. MaxForwarder, ready : 0 .. MaxForwarder]

Absent == [fwd |-> 0, ready |-> 0]

\* "twice" is the PromiseAlreadySatisfied of a second setValue or setException.
PromiseStates == {"none", "pending", "value", "exception", "twice"}

LocalRegistry == [entry : [Tracks -> LocalEntry],
                  displaced : [Tracks -> SUBSET Forwarders],
                  promise : [Forwarders -> PromiseStates]]

EmptyLocalRegistry == [entry |-> [t \in Tracks |-> Absent],
                       displaced |-> [t \in Tracks |-> {}],
                       promise |-> [p \in Forwarders |-> "none"]]

IsAbsent(L, t) == L.entry[t].fwd = 0

IsPending(L, t) == L.entry[t].ready # 0

\* The forwarder getIfReady returns, 0 for null.
getIfReady(L, t) == IF IsPending(L, t) THEN 0 ELSE L.entry[t].fwd

SetPromise(promise, p, outcome) ==
    [promise EXCEPT ![p] = IF @ = "pending" THEN outcome ELSE "twice"]

\* Installs f under t.  In the faulty form a parked occupant takes its promise
\* along.
makePending_parksPromise(L, t, f, park, inherited) ==
    [entry     |-> [L.entry EXCEPT ![t] = [fwd |-> f,
                                           ready |-> IF inherited # 0 /\ ~ park THEN inherited ELSE f]],
     displaced |-> IF park /\ ~ IsAbsent(L, t)
                   THEN [L.displaced EXCEPT ![t] = @ \cup {L.entry[t].fwd}]
                   ELSE L.displaced,
     promise   |-> IF inherited # 0 /\ ~ park THEN L.promise
                   ELSE [L.promise EXCEPT ![f] = "pending"]]

makePending(L, t, f, park, inherited) ==
    [entry     |-> [L.entry EXCEPT ![t] = [fwd |-> f,
                                           ready |-> IF inherited # 0 THEN inherited ELSE f]],
     displaced |-> IF park /\ ~ IsAbsent(L, t)
                   THEN [L.displaced EXCEPT ![t] = @ \cup {L.entry[t].fwd}]
                   ELSE L.displaced,
     promise   |-> IF inherited # 0 THEN L.promise
                   ELSE [L.promise EXCEPT ![f] = "pending"]]

\* join when t is absent; the other two cases change nothing.
join(L, t, f) == makePending(L, t, f, FALSE, 0)

\* replace and replaceAndPark: the waiters of a pending occupant carry over.
replaceImpl(L, t, f, park) == makePending(L, t, f, park, L.entry[t].ready)

\* findPendingOwnedBy.  The faulty form forgets the owner.
PendingOwnedBy_any(L, t, f) == IsPending(L, t)

PendingOwnedBy(L, t, f) == IsPending(L, t) /\ L.entry[t].fwd = f

\* Claim::markReady on the registry's side.
markReady(L, t, f) ==
    IF ~ PendingOwnedBy(L, t, f) THEN L
    ELSE [entry     |-> [L.entry EXCEPT ![t] = [fwd |-> L.entry[t].fwd, ready |-> 0]],
          displaced |-> L.displaced,
          promise   |-> SetPromise(L.promise, L.entry[t].ready, "value")]

\* Erases the entry of t and wakes its waiters, if it has any.
Erase(L, t) ==
    [entry     |-> [L.entry EXCEPT ![t] = Absent],
     displaced |-> L.displaced,
     promise   |-> IF IsPending(L, t)
                   THEN SetPromise(L.promise, L.entry[t].ready, "exception")
                   ELSE L.promise]

\* Claim::fail, or a claim dropped or overwritten unresolved.  In the faulty
\* form a dropped claim does nothing.
fail_nothing(L, t, f) == L

fail(L, t, f) == IF PendingOwnedBy(L, t, f) THEN Erase(L, t) ELSE L

\* remove, on behalf of forwarder f.  The faulty form removes by name.
remove_byName(L, t, f) == IF IsAbsent(L, t) THEN L ELSE Erase(L, t)

remove(L, t, f) == IF L.entry[t].fwd = f THEN Erase(L, t) ELSE L

\* takeDisplaced with the ticket for k.
takeDisplaced(L, t, k) ==
    [entry     |-> L.entry,
     displaced |-> [L.displaced EXCEPT ![t] = @ \ {k}],
     promise   |-> L.promise]
=============================================================================
