---------------------------- MODULE FetchService ----------------------------
(***************************************************************************)
(* What a FETCH in ascending order promises its client, whatever the cache *)
(* does: the objects of the range in order, none twice, and a stream that  *)
(* ends only once all the objects were sent that were due when the request *)
(* came in.  CacheFetch implements it.                                     *)
(***************************************************************************)
EXTENDS Integers, Sequences

CONSTANTS
    Clients,        \* the requests
    Questions,      \* the ranges that may be asked, [start, end]
    Published       \* the locations where the publisher will ever have an object

VARIABLES
    edge,           \* the last location published
    horizon,        \* how far the relay knows the track: the edge, or less on a
                    \* live track whose newest objects have not reached it
    question,       \* what each client asked
    due,            \* the objects it is due
    heard,          \* the locations it was sent, or told to be unknown, in order
    state           \* "idle", "open", "done" or "failed"

serviceVars == <<edge, horizon, question, due, heard, state>>

NoQuestion == [start |-> -1, end |-> -1]

ServiceInit ==
    /\ edge \in Published
    /\ horizon = edge
    /\ question = [p \in Clients |-> NoQuestion]
    /\ due = [p \in Clients |-> {}]
    /\ heard = [p \in Clients |-> <<>>]
    /\ state = [p \in Clients |-> "idle"]

\* What the relay knows of the track may change with any step.
Learn == horizon' \in Published /\ horizon' <= edge'

Publish ==
    /\ edge' \in Published /\ edge' > edge
    /\ UNCHANGED <<question, due, heard, state>>

AskFor(p, q) ==
    /\ state[p] = "idle"
    /\ question' = [question EXCEPT ![p] = q]
    /\ due' = [due EXCEPT ![p] = {l \in Published : q.start <= l /\ l < q.end /\ l <= horizon}]
    /\ state' = [state EXCEPT ![p] = "open"]
    /\ UNCHANGED <<edge, heard>>

Heard(p) == {heard[p][i] : i \in DOMAIN heard[p]}

\* The next object, or the news that the upstream does not know it.
Send(p, l) ==
    /\ state[p] = "open"
    /\ l \in Published /\ l <= edge
    /\ question[p].start <= l /\ l < question[p].end
    /\ \A i \in DOMAIN heard[p] : heard[p][i] < l
    /\ \A m \in due[p] : m < l => m \in Heard(p)
    /\ heard' = [heard EXCEPT ![p] = Append(@, l)]

Tell(p, l) == Send(p, l) /\ UNCHANGED <<edge, question, due, state>>

\* The end, alone or with the last object.
Finish(p) ==
    /\ state[p] = "open"
    /\ due[p] \subseteq Heard(p)'
    /\ \/ UNCHANGED heard
       \/ \E l \in Published : Send(p, l)
    /\ state' = [state EXCEPT ![p] = "done"]
    /\ UNCHANGED <<edge, question, due>>

GiveUp(p) ==
    /\ state[p] = "open"
    /\ state' = [state EXCEPT ![p] = "failed"]
    /\ UNCHANGED <<edge, question, due, heard>>

ServiceStep ==
    \/ Publish
    \/ UNCHANGED <<edge, question, due, heard, state>>
    \/ \E p \in Clients : \/ \E q \in Questions : AskFor(p, q)
                          \/ \E l \in Published : Tell(p, l)
                          \/ Finish(p)
                          \/ GiveUp(p)

ServiceNext == Learn /\ ServiceStep

Service == ServiceInit /\ [][ServiceNext]_serviceVars
=============================================================================
