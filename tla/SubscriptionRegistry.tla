------------------------ MODULE SubscriptionRegistry ------------------------
(***************************************************************************)
(* The relay's table of upstream subscriptions (SubscriptionRegistry.h and *)
(* SubscriptionRegistry.cpp): at most one entry per full track name, named *)
(* by an epoch, and one promise per entry that releases the subscribers    *)
(* that arrived behind the first one.                                      *)
(*                                                                         *)
(* A registry is a record                                                  *)
(*   entry  subscriptions_, a total function; NoEntry where there is none  *)
(*   epoch  epochCounter_                                                  *)
(*   gate   the promise of the entry created with each epoch.  It outlives *)
(*          the entry because the waiters hold its future                  *)
(* and every method is an operator from a registry to a registry, so that  *)
(* a handler that calls several of them is their composition.              *)
(***************************************************************************)
EXTENDS Naturals

CONSTANTS
    Tracks,      \* full track names
    Publishers,  \* sessions an entry can be fed from
    None,        \* the null session
    MaxEpoch     \* bound on epochCounter_, a 64-bit counter in the code

ASSUME RegistryAssumption ==
    /\ MaxEpoch \in Nat
    /\ None \notin Publishers

Epochs == 1 .. MaxEpoch

(***************************************************************************)
(* RelaySubscription.  "upstream" stands for the upstream session and for  *)
(* the Publisher wrapped around it, which are always set and cleared       *)
(* together.  A handle is the number of the upstream subscription it       *)
(* controls; 0 is the null handle.                                         *)
(***************************************************************************)
Entry == [epoch : 0 .. MaxEpoch, upstream : Publishers \cup {None},
          handle : 0 .. MaxEpoch, isPublish : BOOLEAN]

NoEntry == [epoch |-> 0, upstream |-> None, handle |-> 0, isPublish |-> FALSE]

(***************************************************************************)
(* A promise: not created yet, pending, fulfilled, failed (by an exception *)
(* or because it was destroyed unfulfilled, which its futures see as a     *)
(* broken promise), or set a second time, which folly turns into           *)
(* PromiseAlreadySatisfied.                                                *)
(***************************************************************************)
GateStates == {"none", "pending", "ready", "failed", "aborted"}

\* EntryEpoch is a counter that only grows, so an epoch names one entry for ever;
\* a promise exists from the moment its epoch is drawn.
Registry == [entry : [Tracks -> Entry], epoch : 0 .. MaxEpoch,
             gate : [Epochs -> GateStates]]

EmptyRegistry == [entry |-> [t \in Tracks |-> NoEntry], epoch |-> 0,
                  gate |-> [e \in Epochs |-> "none"]]

exists(R, t) == R.entry[t].epoch # 0

IsReady(R, t) == \E e \in Epochs : e = R.entry[t].epoch /\ R.gate[e] = "ready"

\* promise.setValue and promise.setException on the promise of epoch e.
SetGate(gate, e, outcome) ==
    [x \in Epochs |-> IF x # e THEN gate[x]
                      ELSE IF gate[x] = "pending" THEN outcome ELSE "aborted"]

\* ~SharedPromise of an entry's promise.  In the faulty form the promise is kept
\* alive elsewhere, so erasing the entry settles nothing.
BreakGate_kept(gate, e) == gate

BreakGate(gate, e) ==
    [x \in Epochs |-> IF x = e /\ gate[x] = "pending" THEN "failed" ELSE gate[x]]

\* subscriptions_.erase of the entry of t, if any.
remove(R, t) ==
    [entry |-> [R.entry EXCEPT ![t] = NoEntry],
     epoch |-> R.epoch,
     gate  |-> BreakGate(R.gate, R.entry[t].epoch)]

\* getOrCreateFromSubscribe when t has no entry and refMaker found a publisher.
CreateFromSubscribe(R, t) ==
    [entry |-> [R.entry EXCEPT ![t] = [epoch |-> R.epoch + 1, upstream |-> None,
                                       handle |-> 0, isPublish |-> FALSE]],
     epoch |-> R.epoch + 1,
     gate  |-> [R.gate EXCEPT ![R.epoch + 1] = "pending"]]

\* UpstreamSubscribePending::complete on behalf of epoch e; s is the session
\* that accepted the upstream subscription and h the handle it returned.  The
\* faulty forms re-find the entry by name only, or lose the handle.
Completes_byName(R, t, e) == R.entry[t].epoch # 0

Completes(R, t, e) == R.entry[t].epoch = e

completeSubscription_noHandle(R, t, e, h, s) ==
    IF ~ Completes(R, t, e) THEN R
    ELSE [R EXCEPT !.entry[t].upstream = s, !.gate = SetGate(R.gate, e, "ready")]

completeSubscription(R, t, e, h, s) ==
    IF ~ Completes(R, t, e) THEN R
    ELSE [entry |-> [R.entry EXCEPT ![t] = [epoch |-> R.entry[t].epoch, upstream |-> s, handle |-> h,
                                            isPublish |-> R.entry[t].isPublish]],
          epoch |-> R.epoch,
          gate  |-> SetGate(R.gate, R.entry[t].epoch, "ready")]

\* ~UpstreamSubscribePending on behalf of epoch e.  The faulty form fails
\* whatever entry has the name.
failAndRemove_byName(R, t, e) ==
    IF ~ exists(R, t) THEN R
    ELSE [R EXCEPT !.entry[t] = NoEntry,
                   !.gate = SetGate(R.gate, R.entry[t].epoch, "failed")]

failAndRemove(R, t, e) ==
    IF R.entry[t].epoch # e THEN R
    ELSE [entry |-> [R.entry EXCEPT ![t] = NoEntry],
          epoch |-> R.epoch,
          gate  |-> SetGate(R.gate, R.entry[t].epoch, "failed")]

\* Evicts the entry of t, if any, and emplaces one whose promise is fulfilled.
\* The new handle controls the publication numbered like the new epoch.  The
\* faulty form leaves the evicted entry's promise unsettled.
createFromPublish_promiseKept(R, t, s) ==
    [entry |-> [R.entry EXCEPT ![t] = [epoch |-> R.epoch + 1, upstream |-> s,
                                       handle |-> R.epoch + 1, isPublish |-> TRUE]],
     epoch |-> R.epoch + 1,
     gate  |-> [R.gate EXCEPT ![R.epoch + 1] = "ready"]]

createFromPublish(R, t, s) ==
    [entry |-> [R.entry EXCEPT ![t] = [epoch |-> R.epoch + 1, upstream |-> s,
                                       handle |-> R.epoch + 1, isPublish |-> TRUE]],
     epoch |-> R.epoch + 1,
     gate  |-> [BreakGate(R.gate, R.entry[t].epoch) EXCEPT ![R.epoch + 1] = "ready"]]

\* "empty" is whether the entry's forwarder has no subscriber left.
onPublisherTerminated(R, t, empty) ==
    IF ~ exists(R, t) THEN R
    ELSE IF empty THEN remove(R, t)
    ELSE [entry |-> [R.entry EXCEPT ![t] = [epoch |-> R.entry[t].epoch, upstream |-> None,
                                            handle |-> 0,
                                            isPublish |-> R.entry[t].isPublish]],
          epoch |-> R.epoch,
          gate  |-> R.gate]

\* removeIf with the predicate of dropSubscriptionsFrom: the entries of the
\* tracks in T whose upstream session is s.
removeIf(R, T, s) ==
    LET gone == {t \in T : R.entry[t].upstream = s} IN
    [entry |-> [t \in Tracks |-> IF t \in gone THEN NoEntry ELSE R.entry[t]],
     epoch |-> R.epoch,
     gate  |-> [e \in Epochs |-> IF R.gate[e] = "pending"
                                    /\ \E t \in gone : R.entry[t].epoch = e
                                 THEN "failed" ELSE R.gate[e]]]
=============================================================================
