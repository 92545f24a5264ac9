--------------------------- MODULE CrossExecFilter ---------------------------
(***************************************************************************)
(* The filters that carry a track's objects from the executor of the       *)
(* source to the executor of the MoQForwarder (relay/CrossExecFilter.cpp): *)
(* CrossExecFilter for the track, CrossExecSubgroupFilter for each of its  *)
(* subgroups.                                                              *)
(*                                                                         *)
(* A call on the source posts a task to the target executor and returns at *)
(* once; an error of the forwarder comes back with a later call.  Tasks    *)
(* hold a raw pointer to the filter (this) or a reference (self), and the  *)
(* question is who keeps the filters, and the forwarder, alive.            *)
(***************************************************************************)
EXTENDS Naturals, Sequences

CONSTANTS
    Subgroups,
    Track,          \* stands for the CrossExecFilter in the tasks
    MaxCalls,       \* bound: objects in a subgroup, datagrams, and their like
    MaxQueue        \* bound: tasks waiting when the source posts another

ASSUME CrossExecAssumption == MaxCalls \in Nat /\ MaxQueue \in Nat /\ Track \notin Subgroups

Filters == Subgroups \cup {Track}

VARIABLES
    queue,      \* tasks posted to targetExec_, in order
    track,      \* the CrossExecFilter
    sub,        \* the CrossExecSubgroupFilters
    seen,       \* what the SubgroupConsumer of each subgroup has answered
    owned       \* whether the relay still holds the forwarder

vars == <<queue, track, sub, seen, owned>>

\* op is what is called downstream; this, the filter a raw pointer of the task
\* points to; holds, the filters it keeps alive; fin, whether it ends the
\* subgroup; forwarder, whether it holds the forwarder.
Task ==
    [op : {"alias", "datagram", "begin", "object", "checkpoint", "end", "reset", "done",
           "guard", "delete", "release"},
     this : SUBSET Filters, holds : SUBSET Filters, fin : BOOLEAN, forwarder : BOOLEAN]

SubgroupFilter ==
    [made  : BOOLEAN,   \* it was created
     freed : BOOLEAN,
     src   : BOOLEAN,   \* the source holds a reference
     over  : BOOLEAN,   \* the source has made its terminal call
     told  : BOOLEAN,   \* a call has returned an error to the source
     calls : 0 .. MaxCalls,
     guard : BOOLEAN,   \* selfGuard_
     err   : BOOLEAN,   \* deferredError_
     down  : BOOLEAN,   \* downstream_
     keep  : BOOLEAN]   \* keepAlive_

TrackFilter ==
    [freed : BOOLEAN, src : BOOLEAN, over : BOOLEAN, err : BOOLEAN, down : BOOLEAN, calls : 0 .. MaxCalls]

\* The state is of its type, and downstream_ and keepAlive_ are set together.
TypeOK ==
    /\ queue \in Seq(Task)
    /\ track \in TrackFilter /\ sub \in [Subgroups -> SubgroupFilter]
    /\ seen \in [Subgroups -> Seq({"ok", "error", "end"})] /\ owned \in BOOLEAN
    /\ \A s \in Subgroups : sub[s].down => sub[s].keep /\ sub[s].made

NewTask(op) == [op |-> op, this |-> {}, holds |-> {}, fin |-> FALSE, forwarder |-> FALSE]
This(op, f) == [NewTask(op) EXCEPT !.this = {f}]
Self(op, f) == [NewTask(op) EXCEPT !.holds = {f}]

Held(q, f) == \E i \in DOMAIN q : f \in q[i].holds
-----------------------------------------------------------------------------
(***************************************************************************)
(* The end of a filter.                                                    *)
(***************************************************************************)
Unreferenced(S, q, s) == S[s].made /\ ~ S[s].freed /\ ~ S[s].src /\ ~ S[s].guard /\ ~ Held(q, s)

\* The destructor posts what belongs to the target.
Release(q, b) ==
    IF b.down \/ b.keep THEN Append(q, [NewTask("release") EXCEPT !.forwarder = b.keep]) ELSE q

\* The deleter of the CrossExecFilter, once nothing refers to it.
TrackReleased(T, q) ==
    IF T.src \/ T.freed \/ Held(q, Track) \/ \E i \in DOMAIN q : q[i].op = "delete"
    THEN q
    ELSE Append(q, This("delete", Track))

Destroyed(b) == [b EXCEPT !.freed = TRUE, !.down = FALSE, !.keep = FALSE]

\* The state after a step that leaves subgroup filters S, track filter T and
\* queue q.  The filter f is the one whose references the step may drop: it is
\* destroyed when nothing refers to it any more.
Become(S, T, q, f) ==
    LET gone == f \in Subgroups /\ Unreferenced(S, q, f)
    IN /\ sub' = IF gone THEN [S EXCEPT ![f] = Destroyed(@)] ELSE S
       /\ track' = T
       /\ queue' = TrackReleased(T, IF gone THEN Release(q, S[f]) ELSE q)
-----------------------------------------------------------------------------
(***************************************************************************)
(* The source.                                                             *)
(***************************************************************************)
Room == Len(queue) < MaxQueue
UsableTrack == track.src /\ ~ track.over /\ Room
Usable(s) == sub[s].src /\ ~ sub[s].over /\ Room

\* setTrackAlias, objectStream and datagram.
trackCall(op) ==
    /\ UsableTrack /\ ~ track.err /\ track.calls < MaxCalls
    /\ Become(sub, [track EXCEPT !.calls = @ + 1], Append(queue, This(op, Track)), Track)
    /\ UNCHANGED <<seen, owned>>

beginSubgroup(s) ==
    /\ UsableTrack /\ ~ track.err /\ ~ sub[s].made
    /\ Become([sub EXCEPT ![s].made = TRUE, ![s].src = TRUE, ![s].guard = TRUE], track,
              Append(queue, [This("begin", Track) EXCEPT !.holds = {s}]), s)
    /\ UNCHANGED <<seen, owned>>

\* Faulty form: the guard is released at once, not behind the tasks.
enqueueDeactivate_now(s) == [S |-> [sub EXCEPT ![s].guard = FALSE, ![s].told = TRUE], q |-> queue]

enqueueDeactivate(s) ==
    [S |-> [sub EXCEPT ![s].guard = FALSE, ![s].told = TRUE],
     q |-> IF sub[s].guard THEN Append(queue, Self("guard", s)) ELSE queue]

\* A call on a filter that has failed.
failedCall(s) ==
    /\ Usable(s) /\ sub[s].err
    /\ LET d == enqueueDeactivate(s) IN Become(d.S, track, d.q, s)
    /\ UNCHANGED <<seen, owned>>

\* object, beginObject, objectPayload, checkpoint.
subgroupCall(s, op) ==
    /\ Usable(s) /\ ~ sub[s].err /\ sub[s].calls < MaxCalls
    /\ Become([sub EXCEPT ![s].calls = @ + 1], track, Append(queue, This(op, s)), s)
    /\ UNCHANGED <<seen, owned>>

\* endOfGroup, endOfTrackAndGroup, endOfSubgroup, and the last object.
endCall(s, op) ==
    /\ Usable(s) /\ ~ sub[s].err
    /\ Become([sub EXCEPT ![s].over = TRUE], track, Append(queue, [This(op, s) EXCEPT !.fin = TRUE]), s)
    /\ UNCHANGED <<seen, owned>>

reset(s) ==
    /\ Usable(s)
    /\ Become([sub EXCEPT ![s].over = TRUE, ![s].err = TRUE], track,
              Append(queue, [Self("reset", s) EXCEPT !.fin = TRUE]), s)
    /\ UNCHANGED <<seen, owned>>

publishDone ==
    /\ UsableTrack
    /\ Become(sub, [track EXCEPT !.over = TRUE], Append(queue, Self("done", Track)), Track)
    /\ UNCHANGED <<seen, owned>>

\* The source lets go of the track, after publishDone or without.
dropTrack ==
    /\ track.src
    /\ Become(sub, [track EXCEPT !.src = FALSE], queue, Track)
    /\ UNCHANGED <<seen, owned>>

\* It lets go of a subgroup it has ended or was told has failed.
dropSubgroup(s) ==
    /\ sub[s].src /\ (sub[s].over \/ sub[s].told)
    /\ Become([sub EXCEPT ![s].src = FALSE], track, queue, s)
    /\ UNCHANGED <<seen, owned>>

\* The relay lets go of the forwarder.
dropForwarder ==
    /\ owned /\ owned' = FALSE
    /\ UNCHANGED <<queue, track, sub, seen>>
-----------------------------------------------------------------------------
(***************************************************************************)
(* The target.                                                             *)
(***************************************************************************)
\* setTrackAlias keeps the error; objectStream and datagram count it.
runTrack(task, ok) ==
    /\ task.op \in {"alias", "datagram", "done"}
    /\ ok \/ (track.down /\ task.op = "alias")
    /\ Become(sub, [track EXCEPT !.err = @ \/ (task.op = "alias" /\ ~ (ok /\ track.down))], Tail(queue), Track)
    /\ UNCHANGED <<seen, owned>>

\* Faulty form: the subgroup does not hold the forwarder.
Opened_bare(b) == [b EXCEPT !.down = TRUE]

Opened(b) == [b EXCEPT !.down = TRUE, !.keep = TRUE]

runBegin(task, ok) ==
    /\ task.op = "begin"
    /\ ok => track.down
    /\ \E s \in task.holds :
           Become([sub EXCEPT ![s] = IF ok THEN Opened(@) ELSE [@ EXCEPT !.err = TRUE]], track, Tail(queue), s)
    /\ UNCHANGED <<seen, owned>>

\* Faulty form: an error leaves the downstream in place.
closeWithError_open(b) == [b EXCEPT !.err = TRUE]

closeWithError(b) == [b EXCEPT !.err = TRUE, !.down = FALSE]

\* Faulty form: without a downstream the guard stays.
runSubgroup_leaks(task, ok) ==
    /\ task.op \in {"object", "checkpoint", "end", "reset"}
    /\ \E s \in task.this \cup task.holds :
           /\ ok
           /\ Become([sub EXCEPT ![s].guard = @ /\ ~ (task.fin /\ sub[s].down)], track, Tail(queue), s)
    /\ UNCHANGED <<seen, owned>>

\* A task of a subgroup.  deactivate drops the guard when it is the last one,
\* whether there is a downstream or not.
runSubgroup(task, ok) ==
    /\ task.op \in {"object", "checkpoint", "end", "reset"}
    /\ \E s \in task.this \cup task.holds :
           LET b == sub[s]
               fails == b.down /\ ~ ok
               closed == IF fails /\ task.op = "object" THEN closeWithError(b) ELSE b
               after == IF task.fin THEN [closed EXCEPT !.guard = FALSE] ELSE closed
           IN /\ ok \/ (b.down /\ task.op \in {"object", "end"})
              /\ Become([sub EXCEPT ![s] = after], track, Tail(queue), s)
              /\ seen' = IF ~ b.down THEN seen
                         ELSE [seen EXCEPT ![s] = Append(@, IF fails THEN "error"
                                                            ELSE IF task.fin THEN "end" ELSE "ok")]
    /\ UNCHANGED owned

runDelete(task) ==
    /\ task.op = "delete"
    /\ Become(sub, [track EXCEPT !.freed = TRUE, !.down = FALSE], Tail(queue), Track)
    /\ UNCHANGED <<seen, owned>>

\* What enqueueDeactivate posted: the guard goes with the task.
runGuard(task) ==
    /\ task.op = "guard"
    /\ \E s \in task.holds : Become(sub, track, Tail(queue), s)
    /\ UNCHANGED <<seen, owned>>

\* What the destructor of a subgroup filter posted.
runRelease(task) ==
    /\ task.op = "release"
    /\ Become(sub, track, Tail(queue), Track)
    /\ UNCHANGED <<seen, owned>>

runTask ==
    /\ queue # <<>>
    /\ \/ \E ok \in BOOLEAN : runTrack(Head(queue), ok)
       \/ \E ok \in BOOLEAN : runBegin(Head(queue), ok)
       \/ \E ok \in BOOLEAN : runSubgroup(Head(queue), ok)
       \/ runDelete(Head(queue))
       \/ runGuard(Head(queue))
       \/ runRelease(Head(queue))

NewSubgroupFilter ==
    [made |-> FALSE, freed |-> FALSE, src |-> FALSE, over |-> FALSE, told |-> FALSE, calls |-> 0,
     guard |-> FALSE, err |-> FALSE, down |-> FALSE, keep |-> FALSE]

Init ==
    /\ queue = <<>>
    /\ track \in [freed : {FALSE}, src : {TRUE}, over : {FALSE}, err : {FALSE}, down : BOOLEAN, calls : {0}]
    /\ sub = [s \in Subgroups |-> NewSubgroupFilter]
    /\ seen = [s \in Subgroups |-> <<>>]
    /\ owned = TRUE

Next ==
    \/ \E op \in {"alias", "datagram"} : trackCall(op)
    \/ \E s \in Subgroups : beginSubgroup(s)
    \/ \E s \in Subgroups : failedCall(s)
    \/ \E s \in Subgroups, op \in {"object", "checkpoint"} : subgroupCall(s, op)
    \/ \E s \in Subgroups, op \in {"object", "end"} : endCall(s, op)
    \/ \E s \in Subgroups : reset(s)
    \/ publishDone
    \/ dropTrack
    \/ \E s \in Subgroups : dropSubgroup(s)
    \/ dropForwarder
    \/ runTask

Spec == Init /\ [][Next]_vars

\* The source ends a subgroup it has begun, or hears of its failure.
EndsSubgroup(s) == failedCall(s) \/ reset(s) \/ \E op \in {"object", "end"} : endCall(s, op)

\* The target executor runs its tasks.  The source ends every subgroup it has
\* begun and lets go of it.
FairSpec ==
    /\ Spec
    /\ WF_vars(runTask)
    /\ \A s \in Subgroups : WF_vars(EndsSubgroup(s)) /\ WF_vars(dropSubgroup(s))
-----------------------------------------------------------------------------
(***************************************************************************)
(* Properties.                                                             *)
(***************************************************************************)
Freed(f) == IF f = Track THEN track.freed ELSE sub[f].freed

\* No task of the target executor points to a filter that has been deleted.
NoDanglingTask == \A i \in DOMAIN queue : \A f \in queue[i].this : ~ Freed(f)

\* While a subgroup has a consumer, which points into the forwarder, someone
\* holds the forwarder.
ForwarderOutlives ==
    \A s \in Subgroups : sub[s].down => \/ owned \/ track.down
                                        \/ \E u \in Subgroups : sub[u].keep
                                        \/ \E i \in DOMAIN queue : queue[i].forwarder

\* A consumer that has answered with an error, or was ended, is not called again.
NothingAfterTheEnd ==
    \A s \in Subgroups : \A i \in DOMAIN seen[s] : seen[s][i] # "ok" => i = Len(seen[s])

\* A subgroup filter that the source has begun is deleted in the end.
FiltersAreFreed == \A s \in Subgroups : sub[s].made ~> sub[s].freed
=============================================================================
