--------------------------- MODULE MCCacheFetch ----------------------------
(* Instances of CacheFetch for TLC. *)
EXTENDS CacheFetch

CONSTANTS a, f1, f2

NoGap == {NoExtensions}
NoLargest == {None}
SwapNames == Permutations(Names)

AskFor(n, first, last, order) == [name |-> n, start |-> first, end |-> last, order |-> order]

\* Group 0 has objects 0 and 2, group 1 object 0, which is published later.
Objs == (Loc(0, 0) :> "normal") @@ (Loc(0, 2) :> "normal") @@ (Loc(1, 0) :> "normal")
FirstObj == Loc(0, 2)
Long == AskFor(a, Loc(0, 0), Loc(1, 0), "oldestFirst")
Mixed == (f1 :> {AskFor(a, Loc(0, 0), Loc(0, 3), "oldestFirst")})
           @@ (f2 :> {Long, AskFor(a, Loc(0, 1), Loc(1, 0), "newestFirst")})
Mix == {{"fetch", "live"}, {"fetch", "chunks", "fin"}, {"fetch", "blocked", "cancel", "error"},
        {"fetch", "unknown"}, {"fetch", "reset"}}

\* One object in each of three groups, of which a limited cache keeps one or two.
Apart == (Loc(0, 0) :> "normal") @@ (Loc(1, 0) :> "normal") @@ (Loc(2, 0) :> "normal")
LastObj == Loc(2, 0)
Whole == [f \in Fetches |-> {AskFor(n, Loc(0, 0), Loc(2, 0), o) : n \in Names, o \in Orders}]
Store == {{"writers"}, {"fetch", "live", "purge"}, {"fetch", "chunks", "purge"}}

\* All of it newest first, after the middle was fetched.
Newest == (f1 :> {AskFor(a, Loc(1, 0), Loc(1, 1), "oldestFirst")})
            @@ (f2 :> {AskFor(a, Loc(0, 0), Loc(2, 0), "newestFirst")})
Alone == {{"fetch"}}
=============================================================================
