------------------------ MODULE FetchCrossExecFilter ------------------------
(***************************************************************************)
(* FetchCrossExecFilter (relay/CrossExecFilter.cpp): the answer to a FETCH *)
(* crosses from the executor of the session that sends it to the one that  *)
(* writes it to the cache or to the peer.  Like the subgroup filters it    *)
(* keeps itself alive; unlike them it bounds what may be under way, by a   *)
(* window that opens again when the downstream is ready for more.          *)
(***************************************************************************)
EXTENDS Naturals, Sequences, FiniteSets

CONSTANTS
    Sizes,      \* payload sizes, zero for what has no payload
    Window,     \* kWindowBytes
    MaxBytes,   \* bound: bytes of an answer
    MaxQueue    \* bound: tasks waiting when the source posts more data

VARIABLES
    queue,      \* tasks posted to targetExec_, in order
    filter,     \* the filter
    source,     \* the session that sends the answer
    wait        \* the promise of awaitReadyToConsume

vars == <<queue, filter, source, wait>>

Task == [op : {"data", "end", "reset", "wait", "guard", "release"}, bytes : Sizes, self : BOOLEAN]

\* The state is of its type, and no more is drained than was queued.
TypeOK ==
    /\ queue \in Seq(Task)
    /\ filter \in [freed : BOOLEAN, guard : BOOLEAN, err : BOOLEAN, down : BOOLEAN,
                   queued : 0 .. MaxBytes, drained : 0 .. MaxBytes]
    /\ source \in [holds : BOOLEAN, over : BOOLEAN, told : BOOLEAN, blocked : BOOLEAN]
    /\ wait \in [at : {"none", "posted", "asked", "set"}, mark : 0 .. MaxBytes]
    /\ filter.drained <= filter.queued

NewTask(op, bytes) == [op |-> op, bytes |-> bytes, self |-> FALSE]
Holding(op) == [op |-> op, bytes |-> 0, self |-> TRUE]
-----------------------------------------------------------------------------
\* The state after a step that leaves the filter F, the source C and the queue
\* q: a filter nothing refers to is destroyed, and its downstream released on
\* the target.
Become(F, C, q) ==
    LET gone == ~ F.freed /\ ~ F.guard /\ ~ C.holds /\ \A i \in DOMAIN q : ~ q[i].self
    IN /\ filter' = IF gone THEN [F EXCEPT !.freed = TRUE, !.down = FALSE] ELSE F
       /\ queue' = IF gone /\ F.down THEN Append(q, NewTask("release", 0)) ELSE q
       /\ source' = C

(***************************************************************************)
(* The source.  After BLOCKED it waits before it sends more.               *)
(***************************************************************************)
Calls == source.holds /\ ~ source.over

\* Faulty form: a window that is just full is not.
Full_late(F) == F.queued - F.drained > Window

Full(F) == F.queued - F.drained >= Window

\* object, beginObject and objectPayload; without payload endOfGroup,
\* endOfUnknownRange and checkpoint.
data(b) ==
    LET F == [filter EXCEPT !.queued = @ + b]
    IN /\ Calls /\ ~ filter.err /\ ~ source.blocked
       /\ F.queued <= MaxBytes /\ Len(queue) < MaxQueue
       /\ Become(F, [source EXCEPT !.blocked = Full(F)], Append(queue, NewTask("data", b)))
       /\ UNCHANGED wait

\* endOfFetch, endOfTrackAndGroup, or a last object, which is not counted.
last(b) ==
    /\ Calls /\ ~ filter.err /\ ~ source.blocked
    /\ Become(filter, [source EXCEPT !.over = TRUE], Append(queue, NewTask("end", b)))
    /\ UNCHANGED wait

enqueueDeactivate(F) ==
    [F |-> [F EXCEPT !.guard = FALSE],
     q |-> IF F.guard THEN Append(queue, Holding("guard")) ELSE queue]

failedCall ==
    /\ Calls /\ filter.err /\ wait.at = "none"
    /\ LET d == enqueueDeactivate(filter)
       IN Become(d.F, [source EXCEPT !.told = TRUE], d.q)
    /\ UNCHANGED wait

reset ==
    /\ Calls
    /\ Become([filter EXCEPT !.err = TRUE], [source EXCEPT !.over = TRUE], Append(queue, Holding("reset")))
    /\ UNCHANGED wait

awaitReadyToConsume ==
    /\ Calls /\ ~ filter.err /\ source.blocked /\ wait.at = "none"
    /\ IF Full(filter)
       THEN /\ wait' = [at |-> "posted", mark |-> filter.queued]
            /\ Become(filter, source, Append(queue, Holding("wait")))
       ELSE Become(filter, [source EXCEPT !.blocked = FALSE], queue) /\ UNCHANGED wait

\* The continuation of the wait, on the source; the filter may be gone.
heard ==
    /\ wait.at = "set"
    /\ wait' = [wait EXCEPT !.at = "none"]
    /\ Become(IF filter.freed \/ filter.err THEN filter ELSE [filter EXCEPT !.drained = wait.mark],
              [source EXCEPT !.blocked = FALSE], queue)

drop ==
    /\ source.holds /\ (source.over \/ source.told)
    /\ Become(filter, [source EXCEPT !.holds = FALSE], queue)
    /\ UNCHANGED wait
-----------------------------------------------------------------------------
(***************************************************************************)
(* The target.  ok is whether the downstream takes the call; BLOCKED is    *)
(* taking it.                                                              *)
(***************************************************************************)
closeWithError(F) == [F EXCEPT !.err = TRUE, !.down = FALSE]

runData(task, ok) ==
    /\ task.op = "data"
    /\ ok \/ filter.down
    /\ Become(IF ok THEN filter ELSE closeWithError(filter), source, Tail(queue))
    /\ UNCHANGED wait

\* A last object or endOfGroup that fails closes the filter first.
runEnd(task, ok) ==
    /\ task.op \in {"end", "reset"}
    /\ ok \/ (task.op = "end" /\ filter.down)
    /\ Become([(IF ok THEN filter ELSE closeWithError(filter)) EXCEPT !.guard = FALSE], source, Tail(queue))
    /\ UNCHANGED wait

\* Faulty form: without a downstream the promise is forgotten.
runWait_forgets(task, ok) ==
    /\ task.op = "wait"
    /\ ok
    /\ wait' = [wait EXCEPT !.at = IF filter.down THEN "asked" ELSE @]
    /\ Become(filter, source, Tail(queue))

runWait(task, ok) ==
    /\ task.op = "wait"
    /\ ok \/ filter.down
    /\ wait' = [wait EXCEPT !.at = IF filter.down /\ ok THEN "asked" ELSE "set"]
    /\ Become(IF ok THEN filter ELSE closeWithError(filter), source, Tail(queue))

runDrop(task) ==
    /\ task.op \in {"guard", "release"}
    /\ Become(filter, source, Tail(queue))
    /\ UNCHANGED wait

runTask ==
    /\ queue # <<>>
    /\ \/ \E ok \in BOOLEAN : runData(Head(queue), ok)
       \/ \E ok \in BOOLEAN : runEnd(Head(queue), ok)
       \/ \E ok \in BOOLEAN : runWait(Head(queue), ok)
       \/ runDrop(Head(queue))

\* The downstream is ready for more, or can write no more.
ready(ok) ==
    /\ wait.at = "asked"
    /\ wait' = [wait EXCEPT !.at = "set"]
    /\ Become(IF ~ ok /\ filter.down THEN closeWithError(filter) ELSE filter, source, queue)

Init ==
    /\ queue = <<>>
    /\ filter = [freed |-> FALSE, guard |-> TRUE, err |-> FALSE, down |-> TRUE, queued |-> 0, drained |-> 0]
    /\ source = [holds |-> TRUE, over |-> FALSE, told |-> FALSE, blocked |-> FALSE]
    /\ wait = [at |-> "none", mark |-> 0]

Next ==
    \/ \E b \in Sizes : data(b)
    \/ \E b \in Sizes : last(b)
    \/ failedCall
    \/ reset
    \/ awaitReadyToConsume
    \/ heard
    \/ drop
    \/ runTask
    \/ \E ok \in BOOLEAN : ready(ok)

Spec == Init /\ [][Next]_vars

\* The executors run what is posted to them, the downstream answers, and the
\* source asks when it is blocked, goes on when it is not, and lets go.
FairSpec ==
    /\ Spec
    /\ WF_vars(runTask) /\ WF_vars(\E ok \in BOOLEAN : ready(ok)) /\ WF_vars(heard)
    /\ WF_vars(awaitReadyToConsume) /\ WF_vars(failedCall) /\ WF_vars(drop)
    /\ WF_vars(\E b \in Sizes : last(b))
-----------------------------------------------------------------------------
(***************************************************************************)
(* Properties.                                                             *)
(***************************************************************************)
\* The bytes that tasks of q carry, each by the place of its task and its own.
BytesIn(q) == UNION {{<<i, k>> : k \in 1 .. q[i].bytes} : i \in {j \in DOMAIN q : q[j].op = "data"}}
Waiting == Cardinality(BytesIn(queue))

\* What waits for the target never exceeds the window by more than the object
\* that filled it.
WindowHolds == \E b \in Sizes : Waiting <= Window - 1 + b

\* A blocked source hears in the end, though the downstream fails meanwhile.
BlockedGoesOn == source.blocked /\ ~ source.over ~> ~ source.blocked \/ source.told \/ source.over
=============================================================================
