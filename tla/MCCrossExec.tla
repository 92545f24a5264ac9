---------------------------- MODULE MCCrossExec -----------------------------
(***************************************************************************)
(* Instances for TLC of the filters that carry calls between executors: of *)
(* a track and its subgroups (CrossExecFilter), or of the answer to a      *)
(* FETCH (FetchCrossExecFilter).  A behaviour has the one or the other.    *)
(***************************************************************************)
EXTENDS CrossExecFilter

CONSTANTS Sizes, Window, MaxBytes, MaxFetchQueue

ASSUME FetchAssumption ==
    /\ Sizes \subseteq Nat /\ Sizes # {}
    /\ Window \in Nat \ {0} /\ MaxBytes \in Nat /\ MaxFetchQueue \in Nat

VARIABLES of, fetchQueue, filter, source, wait

Fetch == INSTANCE FetchCrossExecFilter WITH queue <- fetchQueue, MaxQueue <- MaxFetchQueue

fetchVars == <<fetchQueue, filter, source, wait>>
allVars == <<of, vars, fetchVars>>

OfTrack(A) == of = "track" /\ A /\ UNCHANGED <<of, fetchVars>>
OfFetch(A) == of = "fetch" /\ A /\ UNCHANGED <<of, vars>>

MCInit == of \in {"track", "fetch"} /\ Init /\ Fetch!Init
MCNext ==
    \/ of = "track" /\ Next /\ UNCHANGED <<of, fetchVars>>
    \/ of = "fetch" /\ Fetch!Next /\ UNCHANGED <<of, vars>>

\* The fairness of both, each where it runs.
MCSpec ==
    /\ MCInit /\ [][MCNext]_allVars
    /\ WF_allVars(OfTrack(runTask))
    /\ \A s \in Subgroups : /\ WF_allVars(OfTrack(EndsSubgroup(s)))
                            /\ WF_allVars(OfTrack(dropSubgroup(s)))
    /\ WF_allVars(OfFetch(Fetch!runTask)) /\ WF_allVars(OfFetch(\E ok \in BOOLEAN : Fetch!ready(ok)))
    /\ WF_allVars(OfFetch(Fetch!heard)) /\ WF_allVars(OfFetch(Fetch!awaitReadyToConsume))
    /\ WF_allVars(OfFetch(Fetch!failedCall)) /\ WF_allVars(OfFetch(Fetch!drop))
    /\ WF_allVars(OfFetch(\E b \in Sizes : Fetch!last(b)))
-----------------------------------------------------------------------------
\* What waits for the target never exceeds the window (kWindowBytes) by more
\* than the object that filled it.
WindowHolds == Fetch!WindowHolds

\* A source that a FETCH answer's filter has blocked hears in the end, though
\* the downstream fails meanwhile.
BlockedGoesOn == Fetch!BlockedGoesOn
=============================================================================
