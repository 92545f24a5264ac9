------------------------- MODULE LocalSetupsProofs -------------------------
(***************************************************************************)
(* Proofs about LocalForwarderRegistry and LocalSetups, for any numbers of *)
(* tracks, subscribers, channels and forwarders.                           *)
(***************************************************************************)
EXTENDS LocalSetups, TLAPS

ClaimStates == {"none", "open", "resolved"}

Homes == [Forwarders -> Tracks]

(***************************************************************************)
(* What the table L owes to the coroutines around it: n forwarders were    *)
(* made, H gives the track each was made for, C the claims, and St the     *)
(* forwarders whose initial state is set.                                  *)
(***************************************************************************)
EntriesOK(L, n, H) ==
    \A t \in Tracks : L.entry[t].fwd # 0 => L.entry[t].fwd <= n /\ H[L.entry[t].fwd] = t

PendingOK(L, H, C) ==
    \A t \in Tracks : L.entry[t].ready # 0 =>
        /\ L.entry[t].fwd # 0
        /\ C[L.entry[t].fwd] = "open"
        /\ L.promise[L.entry[t].ready] = "pending"
        /\ H[L.entry[t].ready] = t

ReadyOK(L, St) ==
    \A t \in Tracks : L.entry[t].fwd # 0 /\ L.entry[t].ready = 0 => L.entry[t].fwd \in St

PromisesOK(L, n, H) ==
    \A p \in Forwarders :
        /\ L.promise[p] # "twice"
        /\ L.promise[p] = "pending" => L.entry[H[p]].ready = p
        /\ p > n => L.promise[p] = "none"

LocalOK(L, n, H, C, St) ==
    /\ L \in LocalRegistry
    /\ EntriesOK(L, n, H)
    /\ PendingOK(L, H, C)
    /\ ReadyOK(L, St)
    /\ PromisesOK(L, n, H)

\* A method that parks nothing and forgets no promise.
Quiet(L, M) ==
    /\ M.displaced = L.displaced
    /\ \A p \in Forwarders : L.promise[p] # "none" => M.promise[p] # "none"

Context(n, H, C, St) ==
    /\ n \in 0 .. MaxForwarder
    /\ H \in Homes
    /\ C \in [Forwarders -> ClaimStates]
    /\ St \subseteq Forwarders
-----------------------------------------------------------------------------
\* The empty table is sound.
LEMMA EmptyLocalOK ==
  ASSUME NEW H \in Homes, NEW C \in [Forwarders -> ClaimStates]
  PROVE  LocalOK(EmptyLocalRegistry, 0, H, C, {})
<1>1. EmptyLocalRegistry \in LocalRegistry
  BY LocalAssumption DEF EmptyLocalRegistry, LocalRegistry, LocalEntry, Absent, PromiseStates, Forwarders
<1>2. QED
  BY <1>1, LocalAssumption, Zenon
  DEF LocalOK, EntriesOK, PendingOK, ReadyOK, PromisesOK, EmptyLocalRegistry, Absent, Forwarders, Homes

\* A method that does nothing is quiet.
LEMMA QuietReflexive == ASSUME NEW L PROVE Quiet(L, L)
BY Zenon DEF Quiet

\* Two quiet methods in a row are quiet.
LEMMA QuietTransitive ==
  ASSUME NEW L, NEW M, NEW N, Quiet(L, M), Quiet(M, N)
  PROVE  Quiet(L, N)
BY Zenon DEF Quiet

\* Applying a forwarder's initial state takes nothing away.
LEMMA StatedMore ==
  ASSUME NEW L, NEW n, NEW H, NEW C, NEW St, NEW X, LocalOK(L, n, H, C, St)
  PROVE  LocalOK(L, n, H, C, St \cup X)
BY Zenon DEF LocalOK, ReadyOK

\* Erasing an entry wakes its waiters and leaves the other entries alone.
LEMMA EraseOK ==
  ASSUME NEW L, NEW n, NEW H, NEW C, NEW St, NEW t \in Tracks,
         Context(n, H, C, St), LocalOK(L, n, H, C, St)
  PROVE  LocalOK(Erase(L, t), n, H, C, St) /\ Quiet(L, Erase(L, t))
<1> DEFINE M == Erase(L, t)
           r == L.entry[t].ready
<1>1. L \in LocalRegistry
  BY Zenon DEF LocalOK
<1>2. /\ r \in 0 .. MaxForwarder
      /\ L.entry \in [Tracks -> LocalEntry]
      /\ L.promise \in [Forwarders -> PromiseStates]
      /\ L.displaced \in [Tracks -> SUBSET Forwarders]
  BY <1>1, Zenon DEF LocalRegistry, LocalEntry
<1>3. /\ M.entry = [L.entry EXCEPT ![t] = Absent]
      /\ M.displaced = L.displaced
      /\ M.promise = IF r # 0 THEN SetPromise(L.promise, r, "exception") ELSE L.promise
  BY Zenon DEF Erase, IsPending
<1>4. M \in LocalRegistry
  BY <1>2, LocalAssumption DEF Erase, IsPending, LocalRegistry, LocalEntry, Absent, SetPromise, PromiseStates, Forwarders
<1>5. r # 0 => r \in Forwarders /\ L.promise[r] = "pending" /\ H[r] = t
  BY <1>2, LocalAssumption DEF LocalOK, PendingOK, Forwarders
<1>6. /\ \A p \in Forwarders : p # r => M.promise[p] = L.promise[p]
      /\ r # 0 => M.promise[r] = "exception"
  BY <1>2, <1>3, <1>5, Zenon DEF SetPromise
<1>7. /\ \A u \in Tracks : u # t => M.entry[u] = L.entry[u]
      /\ M.entry[t].fwd = 0 /\ M.entry[t].ready = 0
  BY <1>2, <1>3 DEF Absent
<1>8. \A u \in Tracks : u # t /\ L.entry[u].ready # 0 => L.entry[u].ready # r /\ L.entry[u].ready \in Forwarders
  BY <1>1, <1>5, LocalAssumption DEF LocalOK, PendingOK, LocalRegistry, LocalEntry, Forwarders
<1> HIDE DEF M, r
<1>9. EntriesOK(M, n, H) /\ ReadyOK(M, St)
  BY <1>7, Zenon DEF LocalOK, EntriesOK, ReadyOK
<1>10. PendingOK(M, H, C)
  BY <1>6, <1>7, <1>8 DEF LocalOK, PendingOK
<1>11. PromisesOK(M, n, H)
  <2> SUFFICES ASSUME NEW p \in Forwarders
               PROVE  /\ M.promise[p] # "twice"
                      /\ M.promise[p] = "pending" => M.entry[H[p]].ready = p
                      /\ p > n => M.promise[p] = "none"
    BY Zenon DEF PromisesOK
  <2>1. CASE p = r
    BY <2>1, <1>5, <1>6, LocalAssumption DEF LocalOK, PromisesOK, Forwarders
  <2>2. CASE p # r
    <3>1. M.promise[p] = L.promise[p]
      BY <2>2, <1>6, Zenon
    <3>2. L.promise[p] = "pending" => L.entry[H[p]].ready = p /\ H[p] \in Tracks
      BY Zenon DEF LocalOK, PromisesOK, Context, Homes
    <3>3. L.promise[p] = "pending" => H[p] # t
      BY <3>2, <2>2, Zenon DEF r
    <3>4. QED
      BY <3>1, <3>2, <3>3, <1>7, Zenon DEF LocalOK, PromisesOK
  <2>3. QED
    BY <2>1, <2>2, Zenon
<1>12. Quiet(L, M)
  BY <1>3, <1>6, Zenon DEF Quiet
<1>13. QED
  BY <1>4, <1>9, <1>10, <1>11, <1>12, Zenon DEF LocalOK, M

\* remove, identity-checked, keeps the table sound and settles the promise it drops.
LEMMA RemoveLocalOK ==
  ASSUME NEW L, NEW n, NEW H, NEW C, NEW St, NEW t \in Tracks, NEW f,
         Context(n, H, C, St), LocalOK(L, n, H, C, St)
  PROVE  LocalOK(remove(L, t, f), n, H, C, St) /\ Quiet(L, remove(L, t, f))
BY EraseOK, QuietReflexive, Zenon DEF remove

\* Claim c is closed; nothing pending relied on it.
LEMMA CloseClaim ==
  ASSUME NEW L, NEW n, NEW H, NEW C, NEW St, NEW f \in Forwarders,
         Context(n, H, C, St), LocalOK(L, n, H, C, St),
         \A t \in Tracks : L.entry[t].ready # 0 => L.entry[t].fwd # f
  PROVE  LocalOK(L, n, H, [C EXCEPT ![f] = "resolved"], St)
<1>1. \A t \in Tracks : L.entry[t].ready # 0 => L.entry[t].fwd \in Forwarders
  BY LocalAssumption DEF LocalOK, LocalRegistry, LocalEntry, PendingOK, Forwarders
<1>2. PendingOK(L, H, [C EXCEPT ![f] = "resolved"])
  BY <1>1 DEF LocalOK, PendingOK, Context
<1>3. QED
  BY <1>2, Zenon DEF LocalOK

\* Claim::fail keeps the table sound and closes the claim.
LEMMA FailLocalOK ==
  ASSUME NEW L, NEW n, NEW H, NEW C, NEW St, NEW f \in Forwarders, NEW t \in Tracks,
         Context(n, H, C, St), LocalOK(L, n, H, C, St), H[f] = t
  PROVE  /\ LocalOK(fail(L, t, f), n, H, [C EXCEPT ![f] = "resolved"], St)
         /\ Quiet(L, fail(L, t, f))
<1>1. CASE PendingOwnedBy(L, t, f)
  <2>1. LocalOK(Erase(L, t), n, H, C, St) /\ Quiet(L, Erase(L, t))
    BY EraseOK, Zenon
  <2>2. \A u \in Tracks : Erase(L, t).entry[u].ready # 0 => Erase(L, t).entry[u].fwd # f
    <3>1. L.entry \in [Tracks -> LocalEntry]
      BY Zenon DEF LocalOK, LocalRegistry
    <3>2. \A u \in Tracks : L.entry[u].fwd = f => u = t
      BY LocalAssumption DEF LocalOK, EntriesOK, Forwarders
    <3>3. QED
      BY <3>1, <3>2, Zenon DEF Erase, Absent
  <2>3. QED
    BY <1>1, <2>1, <2>2, CloseClaim, Zenon DEF fail
<1>2. CASE ~ PendingOwnedBy(L, t, f)
  <2>1. \A u \in Tracks : L.entry[u].ready # 0 => L.entry[u].fwd # f
    BY <1>2, LocalAssumption DEF LocalOK, EntriesOK, Forwarders, PendingOwnedBy, IsPending
  <2>2. QED
    BY <1>2, <2>1, CloseClaim, QuietReflexive, Zenon DEF fail
<1>3. QED
  BY <1>1, <1>2, Zenon

\* Claim::markReady keeps the table sound: what becomes ready has its state.
LEMMA MarkReadyOK ==
  ASSUME NEW L, NEW n, NEW H, NEW C, NEW St, NEW f \in Forwarders, NEW t \in Tracks,
         Context(n, H, C, St), LocalOK(L, n, H, C, St), H[f] = t
  PROVE  /\ LocalOK(markReady(L, t, f), n, H, [C EXCEPT ![f] = "resolved"], St \cup {f})
         /\ Quiet(L, markReady(L, t, f))
<1>1. CASE PendingOwnedBy(L, t, f)
  <2> DEFINE M == markReady(L, t, f)
             r == L.entry[t].ready
             D == [C EXCEPT ![f] = "resolved"]
  <2>1. /\ L \in LocalRegistry
        /\ L.entry \in [Tracks -> LocalEntry]
        /\ L.promise \in [Forwarders -> PromiseStates]
        /\ L.entry[t].fwd = f
    BY <1>1, Zenon DEF LocalOK, LocalRegistry, PendingOwnedBy
  <2>2. r \in Forwarders /\ L.promise[r] = "pending" /\ H[r] = t
    BY <1>1, <2>1, LocalAssumption DEF LocalOK, PendingOK, LocalRegistry, LocalEntry, Forwarders, PendingOwnedBy, IsPending
  <2>3. /\ M.entry = [L.entry EXCEPT ![t] = [fwd |-> f, ready |-> 0]]
        /\ M.displaced = L.displaced
        /\ M.promise = SetPromise(L.promise, r, "value")
    BY <1>1, <2>1, Zenon DEF markReady
  <2>4. M \in LocalRegistry
    BY <1>1, <2>1, <2>2, LocalAssumption
    DEF markReady, LocalRegistry, LocalEntry, SetPromise, PromiseStates, Forwarders
  <2>5. /\ \A p \in Forwarders : p # r => M.promise[p] = L.promise[p]
        /\ M.promise[r] = "value"
    BY <2>1, <2>2, <2>3, Zenon DEF SetPromise
  <2>6. /\ \A u \in Tracks : u # t => M.entry[u] = L.entry[u]
        /\ M.entry[t].fwd = f /\ M.entry[t].ready = 0
    BY <2>1, <2>3
  <2>7. \A u \in Tracks : u # t /\ L.entry[u].ready # 0 =>
            /\ L.entry[u].ready # r /\ L.entry[u].ready \in Forwarders
            /\ L.entry[u].fwd # f /\ L.entry[u].fwd \in Forwarders
    BY <2>1, <2>2, LocalAssumption DEF LocalOK, PendingOK, EntriesOK, LocalRegistry, LocalEntry, Forwarders
  <2>8. \A g \in Forwarders : g # f => D[g] = C[g]
    BY Zenon DEF Context
  <2> HIDE DEF M, r, D
  <2>9. EntriesOK(M, n, H)
    BY <2>1, <2>6, LocalAssumption DEF LocalOK, EntriesOK, Forwarders
  <2>10. ReadyOK(M, St \cup {f})
    BY <2>6, Zenon DEF LocalOK, ReadyOK
  <2>11. PendingOK(M, H, D)
    BY <2>5, <2>6, <2>7, <2>8 DEF LocalOK, PendingOK
  <2>12. PromisesOK(M, n, H)
    <3> SUFFICES ASSUME NEW p \in Forwarders
                 PROVE  /\ M.promise[p] # "twice"
                        /\ M.promise[p] = "pending" => M.entry[H[p]].ready = p
                        /\ p > n => M.promise[p] = "none"
      BY Zenon DEF PromisesOK
    <3>1. CASE p = r
      BY <3>1, <2>2, <2>5, Zenon DEF LocalOK, PromisesOK
    <3>2. CASE p # r
      <4>1. M.promise[p] = L.promise[p]
        BY <3>2, <2>5, Zenon
      <4>2. L.promise[p] = "pending" => L.entry[H[p]].ready = p /\ H[p] \in Tracks
        BY Zenon DEF LocalOK, PromisesOK, Context, Homes
      <4>3. L.promise[p] = "pending" => H[p] # t
        BY <4>2, <3>2, Zenon DEF r
      <4>4. QED
        BY <4>1, <4>2, <4>3, <2>6, Zenon DEF LocalOK, PromisesOK
    <3>3. QED
      BY <3>1, <3>2, Zenon
  <2>13. Quiet(L, M)
    BY <2>3, <2>5, Zenon DEF Quiet
  <2>14. QED
    BY <2>4, <2>9, <2>10, <2>11, <2>12, <2>13, Zenon DEF LocalOK, M, D
<1>2. CASE ~ PendingOwnedBy(L, t, f)
  <2>1. \A u \in Tracks : L.entry[u].ready # 0 => L.entry[u].fwd # f
    BY <1>2, LocalAssumption DEF LocalOK, EntriesOK, Forwarders, PendingOwnedBy, IsPending
  <2>2. LocalOK(L, n, H, [C EXCEPT ![f] = "resolved"], St)
    BY <2>1, CloseClaim, Zenon
  <2>3. QED
    BY <1>2, <2>2, StatedMore, QuietReflexive, Zenon DEF markReady
<1>3. QED
  BY <1>1, <1>2, Zenon

\* The table after forwarder f was put under t, in a claim of its own.
Installed(L, M, f, t, n, H, C, St) ==
    /\ LocalOK(M, f, [H EXCEPT ![f] = t], [C EXCEPT ![f] = "open"], St)
    /\ \A p \in Forwarders : L.promise[p] # "none" => M.promise[p] # "none"

\* replace and replaceAndPark keep the table sound; a pending occupant's
\* promise becomes the new entry's.
LEMMA ReplaceOK ==
  ASSUME NEW L, NEW n, NEW H, NEW C, NEW St, NEW f \in Forwarders, NEW t \in Tracks,
         NEW park \in BOOLEAN, Context(n, H, C, St), LocalOK(L, n, H, C, St), f = n + 1
  PROVE  Installed(L, replaceImpl(L, t, f, park), f, t, n, H, C, St)
<1> DEFINE M == replaceImpl(L, t, f, park)
           r == L.entry[t].ready
           G == [H EXCEPT ![f] = t]
           D == [C EXCEPT ![f] = "open"]
<1>1. /\ L.entry \in [Tracks -> LocalEntry]
      /\ L.promise \in [Forwarders -> PromiseStates]
      /\ L.displaced \in [Tracks -> SUBSET Forwarders]
      /\ r \in 0 .. MaxForwarder
      /\ n \in Nat
  BY LocalAssumption DEF LocalOK, LocalRegistry, LocalEntry, Context
<1>2. /\ M.entry = [L.entry EXCEPT ![t] = [fwd |-> f, ready |-> IF r # 0 THEN r ELSE f]]
      /\ M.promise = IF r # 0 THEN L.promise ELSE [L.promise EXCEPT ![f] = "pending"]
  BY Zenon DEF replaceImpl, makePending
<1>3. M \in LocalRegistry
  <2>1. M.displaced \in [Tracks -> SUBSET Forwarders]
    BY <1>1, LocalAssumption DEF replaceImpl, makePending, IsAbsent, LocalEntry, Forwarders
  <2>2. M.entry \in [Tracks -> LocalEntry] /\ M.promise \in [Forwarders -> PromiseStates]
    <3>1. [fwd |-> f, ready |-> IF r # 0 THEN r ELSE f] \in LocalEntry
      BY <1>1, LocalAssumption DEF LocalEntry, Forwarders
    <3>2. M.promise \in [Forwarders -> PromiseStates]
      BY <1>1, <1>2 DEF PromiseStates
    <3> HIDE DEF M, r
    <3>3. QED
      BY <1>1, <1>2, <3>1, <3>2
  <2>3. M = [entry |-> M.entry, displaced |-> M.displaced, promise |-> M.promise]
    BY Zenon DEF replaceImpl, makePending
  <2>4. QED
    BY <2>1, <2>2, <2>3, Zenon DEF LocalRegistry
<1>4. /\ L.promise[f] = "none"
      /\ \A u \in Tracks : L.entry[u].fwd # f
      /\ \A u \in Tracks : L.entry[u].fwd # 0 => L.entry[u].fwd \in Forwarders
      /\ \A u \in Tracks : L.entry[u].ready # 0 =>
            /\ L.entry[u].ready \in Forwarders /\ L.entry[u].ready # f
            /\ L.promise[L.entry[u].ready] = "pending" /\ H[L.entry[u].ready] = u
  BY <1>1, LocalAssumption, SMTT(60) DEF LocalOK, EntriesOK, PendingOK, PromisesOK, LocalEntry, Forwarders
<1>5. /\ \A g \in Forwarders : g # f => G[g] = H[g] /\ D[g] = C[g]
      /\ G[f] = t /\ D[f] = "open"
      /\ G \in Homes
  BY Zenon DEF Context, Homes
<1>6. /\ \A u \in Tracks : u # t => M.entry[u] = L.entry[u]
      /\ M.entry[t].fwd = f
      /\ M.entry[t].ready = IF r # 0 THEN r ELSE f
  BY <1>1, <1>2, SMTT(60)
<1>7. /\ \A p \in Forwarders : p # f => M.promise[p] = L.promise[p]
      /\ r # 0 => M.promise[f] = "none"
      /\ r = 0 => M.promise[f] = "pending"
  BY <1>1, <1>2, <1>4, SMTT(60)
<1>8. r # 0 => r \in Forwarders /\ r # f /\ L.promise[r] = "pending" /\ H[r] = t
  BY <1>4, Zenon
<1> HIDE DEF M, G, D, r
<1>9. EntriesOK(M, f, G)
  BY <1>1, <1>4, <1>5, <1>6, LocalAssumption, SMTT(60) DEF LocalOK, EntriesOK, Forwarders
<1>10. ReadyOK(M, St)
  BY <1>6, LocalAssumption, Zenon DEF LocalOK, ReadyOK, Forwarders
<1>11. PendingOK(M, G, D)
  <2> SUFFICES ASSUME NEW u \in Tracks, M.entry[u].ready # 0
               PROVE  /\ M.entry[u].fwd # 0
                      /\ D[M.entry[u].fwd] = "open"
                      /\ M.promise[M.entry[u].ready] = "pending"
                      /\ G[M.entry[u].ready] = u
    BY Zenon DEF PendingOK
  <2>1. CASE u = t
    <3>1. M.entry[u].fwd = f /\ f # 0 /\ D[f] = "open"
      BY <2>1, <1>5, <1>6, LocalAssumption DEF Forwarders
    <3>2. CASE r = 0
      BY <2>1, <3>1, <3>2, <1>5, <1>6, <1>7, Zenon
    <3>3. CASE r # 0
      BY <2>1, <3>1, <3>3, <1>5, <1>6, <1>7, <1>8, Zenon
    <3>4. QED
      BY <3>2, <3>3, Zenon
  <2>2. CASE u # t
    <3>1. M.entry[u] = L.entry[u] /\ L.entry[u].ready # 0
      BY <2>2, <1>6, Zenon
    <3>2. L.entry[u].fwd # 0 /\ C[L.entry[u].fwd] = "open"
      BY <3>1, Zenon DEF LocalOK, PendingOK
    <3>3. D[L.entry[u].fwd] = "open"
      BY <3>2, <1>4, <1>5, Zenon
    <3>4. M.promise[L.entry[u].ready] = "pending" /\ G[L.entry[u].ready] = u
      BY <3>1, <1>4, <1>5, <1>7, ZenonT(30)
    <3>5. QED
      BY <3>1, <3>2, <3>3, <3>4, Zenon
  <2>3. QED
    BY <2>1, <2>2, Zenon
<1>12. PromisesOK(M, f, G)
  <2> SUFFICES ASSUME NEW p \in Forwarders
               PROVE  /\ M.promise[p] # "twice"
                      /\ M.promise[p] = "pending" => M.entry[G[p]].ready = p
                      /\ p > f => M.promise[p] = "none"
    BY Zenon DEF PromisesOK
  <2>1. CASE p = f
    BY <2>1, <1>5, <1>6, <1>7, LocalAssumption DEF Forwarders
  <2>2. CASE p # f
    <3>1. M.promise[p] = L.promise[p] /\ G[p] = H[p] /\ H[p] \in Tracks
      BY <2>2, <1>5, <1>7, Zenon DEF Context, Homes
    <3>2. L.promise[p] = "pending" => L.entry[H[p]].ready = p
      BY Zenon DEF LocalOK, PromisesOK
    <3>3. L.promise[p] = "pending" => M.entry[H[p]].ready = p
      BY <3>1, <3>2, <1>6, LocalAssumption DEF Forwarders, r
    <3>4. L.promise[p] # "twice" /\ (p > f => L.promise[p] = "none")
      BY <1>1, LocalAssumption DEF LocalOK, PromisesOK, Forwarders
    <3>5. QED
      BY <3>1, <3>3, <3>4, Zenon
  <2>3. QED
    BY <2>1, <2>2, Zenon
<1>13. \A p \in Forwarders : L.promise[p] # "none" => M.promise[p] # "none"
  BY <1>4, <1>7, Zenon
<1>14. LocalOK(M, f, G, D, St)
  BY <1>3, <1>9, <1>10, <1>11, <1>12, Zenon DEF LocalOK
<1>15. QED
  BY <1>13, <1>14, Zenon DEF Installed, M, G, D

\* join on an absent entry installs a pending one with a fresh promise.
LEMMA JoinOK ==
  ASSUME NEW L, NEW n, NEW H, NEW C, NEW St, NEW f \in Forwarders, NEW t \in Tracks,
         Context(n, H, C, St), LocalOK(L, n, H, C, St), f = n + 1, IsAbsent(L, t)
  PROVE  /\ Installed(L, join(L, t, f), f, t, n, H, C, St)
         /\ join(L, t, f).displaced = L.displaced
<1>1. L.entry[t].ready = 0
  BY Zenon DEF LocalOK, PendingOK, IsAbsent
<1>2. join(L, t, f) = replaceImpl(L, t, f, FALSE)
  BY <1>1, Zenon DEF join, replaceImpl
<1>3. QED
  BY <1>2, ReplaceOK, Zenon DEF join, makePending
-----------------------------------------------------------------------------
(* The inductive invariant of LocalSetups *)

Home == [f \in Forwarders |-> fwd[f].track]

\* What a suspended or served request relies on.
ReqOK(q, L, n, H, St) ==
    /\ q.phase \in InSetup \cup {"waiting"} =>
          q.at \in Forwarders /\ q.at <= n /\ H[q.at] = q.track
    /\ q.phase = "waiting" => L.promise[q.at] # "none"
    /\ q.phase = "back" => q.direct \in St
    /\ q.phase = "served" => q.at \in St

IInv ==
    /\ TypeOK
    /\ LocalOK(loc, last, Home, claim, stated)
    /\ TicketsMatchParked
    /\ \A s \in Subscribers : ReqOK(req[s], loc, last, Home, stated)

\* Every forwarder has a home track.
LEMMA HomeType == ASSUME TypeOK PROVE Home \in Homes
BY Zenon DEF TypeOK, Home, Homes, LocalForwarder

\* The variables form a context the table lemmas apply to.
LEMMA InContext == ASSUME TypeOK PROVE Context(last, Home, claim, stated)
BY HomeType, Zenon DEF TypeOK, Context, ClaimStates

\* The initial state is sound.
LEMMA InitOK == Init => IInv
<1> SUFFICES ASSUME Init PROVE IInv
  BY Zenon
<1>1. AnyTrack \in Tracks
  BY SetupsAssumption, Zenon DEF AnyTrack
<1>2. TypeOK
  <2>1. loc \in LocalRegistry
    BY LocalAssumption DEF Init, EmptyLocalRegistry, LocalRegistry, LocalEntry, Absent, PromiseStates, Forwarders
  <2>2. fwd \in [Forwarders -> LocalForwarder]
    BY <1>1, Zenon DEF Init, LocalForwarder, Kinds
  <2>3. req \in [Subscribers -> Request]
    BY <1>1, LocalAssumption DEF Init, Request, Phases
  <2>4. /\ last \in 0 .. MaxForwarder
        /\ claim \in [Forwarders -> {"none", "open", "resolved"}]
        /\ stated \subseteq Forwarders
        /\ ticket \subseteq [track : Tracks, key : Forwarders]
    BY LocalAssumption DEF Init
  <2>5. QED
    BY <2>1, <2>2, <2>3, <2>4, Zenon DEF TypeOK
<1>3. LocalOK(loc, last, Home, claim, stated)
  BY <1>2, HomeType, EmptyLocalOK, Zenon DEF Init, TypeOK, ClaimStates
<1>4. TicketsMatchParked
  BY Zenon DEF Init, TicketsMatchParked, EmptyLocalRegistry
<1>5. \A s \in Subscribers : ReqOK(req[s], loc, last, Home, stated)
  BY Zenon DEF Init, ReqOK, InSetup
<1>6. QED
  BY <1>2, <1>3, <1>4, <1>5, Zenon DEF IInv

\* The forwarders keep the tracks they were made for.
SameTracks(F, G) ==
    /\ G \in [Forwarders -> LocalForwarder]
    /\ \A f \in Forwarders : G[f].track = F[f].track

\* Dropping a subscriber leaves every forwarder on its track.
LEMMA SubsChange ==
  ASSUME NEW F \in [Forwarders -> LocalForwarder], NEW f \in Forwarders,
         NEW x \in Subscribers \cup Channels
  PROVE  SameTracks(F, WithSub(F, f, x)) /\ SameTracks(F, WithoutSub(F, f, x))
<1> DEFINE a == [F[f] EXCEPT !.subs = @ \cup {x}]
           b == [F[f] EXCEPT !.subs = @ \ {x}]
<1>1. a \in LocalForwarder /\ a.track = F[f].track /\ b \in LocalForwarder /\ b.track = F[f].track
  BY Zenon DEF LocalForwarder
<1>2. WithSub(F, f, x) = [F EXCEPT ![f] = a] /\ WithoutSub(F, f, x) = [F EXCEPT ![f] = b]
  BY Zenon DEF WithSub, WithoutSub
<1> HIDE DEF a, b
<1>3. QED
  BY <1>1, <1>2, Zenon DEF SameTracks

\* Wiring a forwarder to its source leaves it on its track.
LEMMA WiredChange ==
  ASSUME NEW F \in [Forwarders -> LocalForwarder], NEW f \in Forwarders
  PROVE  SameTracks(F, [F EXCEPT ![f].wired = TRUE])
<1> DEFINE a == [F[f] EXCEPT !.wired = TRUE]
<1>1. a \in LocalForwarder /\ a.track = F[f].track
  BY Zenon DEF LocalForwarder
<1>2. [F EXCEPT ![f].wired = TRUE] = [F EXCEPT ![f] = a]
  BY Zenon
<1> HIDE DEF a
<1>3. QED
  BY <1>1, <1>2, Zenon DEF SameTracks

\* Draining a forwarder leaves it on its track.
LEMMA DrainedChange ==
  ASSUME NEW F \in [Forwarders -> LocalForwarder], NEW f \in Forwarders, NEW late \in BOOLEAN
  PROVE  SameTracks(F, Drained(F, f, late))
<1> DEFINE a == [track |-> F[f].track, kind |-> F[f].kind, wired |-> F[f].wired,
                 done |-> TRUE, subs |-> IF late THEN F[f].subs ELSE {}]
<1>1. a \in LocalForwarder /\ a.track = F[f].track
  BY Zenon DEF LocalForwarder
<1>2. Drained(F, f, late) = [F EXCEPT ![f] = a]
  BY Zenon DEF Drained
<1> HIDE DEF a
<1>3. QED
  BY <1>1, <1>2, Zenon DEF SameTracks

\* Two such changes in a row are one.
LEMMA SameTracksTransitive ==
  ASSUME NEW F, NEW G, NEW K, SameTracks(F, G), SameTracks(G, K)
  PROVE  SameTracks(F, K)
BY Zenon DEF SameTracks

(***************************************************************************)
(* The registry calls the forwarders' callbacks make keep a table sound.   *)
(***************************************************************************)
Sound(L, M, n, H, C, St) == LocalOK(M, n, H, C, St) /\ Quiet(L, M)

\* The callback of a forwarder (onEmpty, onPublishDone) keeps the table sound.
LEMMA CallbacksOK ==
  ASSUME NEW L, NEW n, NEW H, NEW C, NEW St, NEW F \in [Forwarders -> LocalForwarder],
         NEW f \in Forwarders, NEW x, NEW late \in BOOLEAN,
         Context(n, H, C, St), LocalOK(L, n, H, C, St)
  PROVE  /\ Sound(L, OnEmpty(L, F, f), n, H, C, St)
         /\ Sound(L, AfterLeave(L, F, f, x), n, H, C, St)
         /\ Sound(L, AfterDone(L, F, f, late), n, H, C, St)
<1>1. F[f].track \in Tracks
  BY Zenon DEF LocalForwarder
<1>2. \A M : LocalOK(M, n, H, C, St) => Sound(M, OnEmpty(M, F, f), n, H, C, St)
  BY <1>1, RemoveLocalOK, QuietReflexive, Zenon DEF OnEmpty, Sound
<1>3. Sound(L, AfterLeave(L, F, f, x), n, H, C, St)
  BY <1>2, QuietReflexive, Zenon DEF AfterLeave, Sound
<1> DEFINE V == IF F[f].wired THEN remove(L, F[f].track, f) ELSE L
<1>4. Sound(L, V, n, H, C, St)
  BY <1>1, RemoveLocalOK, QuietReflexive, Zenon DEF Sound
<1> HIDE DEF V
<1>5. Sound(V, OnEmpty(V, F, f), n, H, C, St)
  BY <1>2, <1>4, Zenon DEF Sound
<1>6. Sound(L, OnEmpty(V, F, f), n, H, C, St)
  BY <1>4, <1>5, QuietTransitive, Zenon DEF Sound
<1>7. AfterDone(L, F, f, late) = IF late \/ F[f].subs = {} THEN V ELSE OnEmpty(V, F, f)
  BY Zenon DEF AfterDone, V
<1>8. QED
  BY <1>2, <1>3, <1>4, <1>6, <1>7, Zenon

(***************************************************************************)
(* Every step is one of two shapes: it makes no forwarder, or it makes one.*)
(***************************************************************************)
QuietStep(L, n, H, C, St) ==
    /\ SameTracks(fwd, fwd')
    /\ last' = n
    /\ ticket' = ticket
    /\ Quiet(L, loc')
    /\ LocalOK(loc', n, H, claim', stated')
    /\ claim' \in [Forwarders -> ClaimStates]
    /\ St \subseteq stated' /\ stated' \subseteq Forwarders
    /\ req' \in [Subscribers -> Request]
    /\ \A s \in Subscribers : req'[s] = req[s] \/ ReqOK(req'[s], loc', n, H, stated')

\* A step that makes no forwarder keeps the invariant.
LEMMA QuietStepOK ==
  ASSUME IInv, QuietStep(loc, last, Home, claim, stated)
  PROVE  IInv'
<1>1. Home' = Home
  BY Zenon DEF QuietStep, SameTracks, Home
<1>2. TypeOK'
  BY Zenon DEF IInv, TypeOK, QuietStep, SameTracks, LocalOK, ClaimStates
<1>3. LocalOK(loc', last', Home', claim', stated')
  BY <1>1, Zenon DEF QuietStep
<1>4. TicketsMatchParked'
  BY Zenon DEF QuietStep, Quiet, IInv, TicketsMatchParked
<1>5. ASSUME NEW s \in Subscribers
      PROVE  ReqOK(req'[s], loc', last', Home', stated')
  <2>1. CASE ReqOK(req'[s], loc', last, Home, stated')
    BY <1>1, <2>1, Zenon DEF QuietStep
  <2>2. CASE req'[s] = req[s]
    <3>1. ReqOK(req[s], loc, last, Home, stated)
      BY Zenon DEF IInv
    <3>2. ReqOK(req[s], loc', last, Home, stated')
      BY <3>1, Zenon DEF ReqOK, QuietStep, Quiet
    <3>3. QED
      BY <3>2, <2>2, <1>1, Zenon DEF QuietStep
  <2>3. QED
    BY <2>1, <2>2, Zenon DEF QuietStep
<1>6. QED
  BY <1>2, <1>3, <1>4, <1>5, Zenon DEF IInv

\* A step that makes forwarder f for track t keeps the invariant.
NewStep(f, t) ==
    /\ f \in Forwarders /\ t \in Tracks
    /\ f = last + 1
    /\ last' = f
    /\ fwd' \in [Forwarders -> LocalForwarder]
    /\ Home' = [Home EXCEPT ![f] = t]
    /\ \A p \in Forwarders : loc.promise[p] # "none" => loc'.promise[p] # "none"
    /\ LocalOK(loc', f, Home', claim', stated')
    /\ claim' \in [Forwarders -> ClaimStates]
    /\ stated \subseteq stated' /\ stated' \subseteq Forwarders
    /\ req' \in [Subscribers -> Request]
    /\ \A s \in Subscribers : req'[s] = req[s] \/ ReqOK(req'[s], loc', f, Home', stated')

\* A step that makes forwarder f on track t and installs it keeps the invariant.
LEMMA NewStepOK ==
  ASSUME IInv, NEW f, NEW t, NewStep(f, t), TicketsMatchParked'
  PROVE  IInv'
<1>1. Home \in Homes /\ last \in Nat
  BY HomeType, LocalAssumption DEF IInv, TypeOK
<1>2. \A g \in Forwarders : g <= last => Home'[g] = Home[g]
  BY <1>1, LocalAssumption DEF NewStep, Homes, Forwarders
<1>3. TypeOK'
  <2>1. ticket' \subseteq [track : Tracks, key : Forwarders]
    BY Zenon DEF TicketsMatchParked
  <2>2. QED
    BY <2>1, LocalAssumption DEF TypeOK, NewStep, LocalOK, ClaimStates, Forwarders
<1>4. ASSUME NEW s \in Subscribers
      PROVE  ReqOK(req'[s], loc', last', Home', stated')
  <2>1. CASE ReqOK(req'[s], loc', f, Home', stated')
    BY <2>1, Zenon DEF NewStep
  <2>2. CASE req'[s] = req[s]
    <3>1. ReqOK(req[s], loc, last, Home, stated)
      BY Zenon DEF IInv
    <3>2. ReqOK(req[s], loc', f, Home', stated')
      <4>1. \A a \in Forwarders : a <= last => a <= f
        BY <1>1, LocalAssumption DEF NewStep, Forwarders
      <4>2. \A a \in Forwarders : loc.promise[a] # "none" => loc'.promise[a] # "none"
        BY Zenon DEF NewStep
      <4>3. stated \subseteq stated'
        BY Zenon DEF NewStep
      <4>4. QED
        BY <3>1, <4>1, <4>2, <4>3, <1>2, Zenon DEF ReqOK
    <3>3. QED
      BY <3>2, <2>2, Zenon DEF NewStep
  <2>3. QED
    BY <2>1, <2>2, Zenon DEF NewStep
<1>5. QED
  BY <1>3, <1>4, Zenon DEF IInv, NewStep
-----------------------------------------------------------------------------
(* One lemma for each action *)

\* What is known of the number the next forwarder gets.
LEMMA NewForwarderFacts ==
  ASSUME IInv, NEW f, NEW t \in Tracks, NEW kind \in Kinds, NEW wired \in BOOLEAN,
         NEW subs \in SUBSET (Subscribers \cup Channels), NewForwarder(f, t, kind, wired, subs)
  PROVE  /\ f \in Forwarders /\ f = last + 1 /\ last' = f
         /\ fwd' \in [Forwarders -> LocalForwarder]
         /\ Home' = [Home EXCEPT ![f] = t]
         /\ Context(last, Home, claim, stated)
         /\ LocalOK(loc, last, Home, claim, stated)
<1> DEFINE a == [track |-> t, kind |-> kind, wired |-> wired, done |-> FALSE, subs |-> subs]
<1>1. a \in LocalForwarder /\ a.track = t
  BY Zenon DEF LocalForwarder
<1>2. fwd \in [Forwarders -> LocalForwarder]
  BY Zenon DEF IInv, TypeOK
<1>3. f \in Forwarders /\ f = last + 1 /\ last' = f /\ fwd' = [fwd EXCEPT ![f] = a]
  BY Zenon DEF NewForwarder
<1> HIDE DEF a
<1>4. fwd' \in [Forwarders -> LocalForwarder]
  BY <1>1, <1>2, <1>3, Zenon
<1>5. Home' = [Home EXCEPT ![f] = t]
  BY <1>1, <1>2, <1>3, Zenon DEF Home
<1>6. QED
  BY <1>3, <1>4, <1>5, InContext, Zenon DEF IInv

\* Rewriting one request keeps the requests typed.
LEMMA ReqType ==
  ASSUME NEW s \in Subscribers, NEW phase \in Phases, NEW t \in Tracks,
         NEW a \in 0 .. MaxForwarder, NEW d \in 0 .. MaxForwarder,
         req \in [Subscribers -> Request], Becomes(s, phase, t, a, d)
  PROVE  /\ req' \in [Subscribers -> Request]
         /\ \A u \in Subscribers : u # s => req'[u] = req[u]
         /\ req'[s] = [phase |-> phase, track |-> t, at |-> a, direct |-> d]
<1> DEFINE q == [phase |-> phase, track |-> t, at |-> a, direct |-> d]
<1>1. q \in Request
  BY Zenon DEF Request
<1>2. req' = [req EXCEPT ![s] = q]
  BY Zenon DEF Becomes
<1> HIDE DEF q
<1>3. req' \in [Subscribers -> Request] /\ (\A u \in Subscribers : u # s => req'[u] = req[u]) /\ req'[s] = q
  BY <1>1, <1>2, Zenon
<1>4. QED
  BY <1>3, Zenon DEF q

\* The first SUBSCRIBE of a track on this iothread.
LEMMA SubscribeClaimsOK ==
  ASSUME IInv, NEW s \in Subscribers, NEW t \in Tracks, NEW f \in Forwarders,
         SubscribeClaims(s, t, f)
  PROVE  IInv'
<1>1. NewForwarder(f, t, "subscriber", FALSE, {s})
  BY Zenon DEF SubscribeClaims
<1>2. /\ f = last + 1 /\ last' = f
      /\ fwd' \in [Forwarders -> LocalForwarder]
      /\ Home' = [Home EXCEPT ![f] = t]
      /\ Context(last, Home, claim, stated)
      /\ LocalOK(loc, last, Home, claim, stated)
  <2>1. "subscriber" \in Kinds /\ {s} \in SUBSET (Subscribers \cup Channels)
    BY Zenon DEF Kinds
  <2>2. QED
    BY <1>1, <2>1, NewForwarderFacts, Zenon
<1>3. /\ Installed(loc, loc', f, t, last, Home, claim, stated)
      /\ loc'.displaced = loc.displaced
  BY <1>2, JoinOK, SMTT(60) DEF SubscribeClaims
<1>4. /\ req' \in [Subscribers -> Request]
      /\ \A u \in Subscribers : u # s => req'[u] = req[u]
      /\ req'[s] = [phase |-> "setup", track |-> t, at |-> f, direct |-> 0]
  <2>1. Becomes(s, "setup", t, f, 0) /\ "setup" \in Phases /\ f \in 0 .. MaxForwarder /\ 0 \in 0 .. MaxForwarder
    BY LocalAssumption DEF SubscribeClaims, Phases, Forwarders
  <2>2. QED
    BY <2>1, ReqType DEF IInv, TypeOK
<1>5. Home'[f] = t
  BY <1>2, HomeType, Zenon DEF IInv, Homes
<1>6. ReqOK(req'[s], loc', f, Home', stated')
  BY <1>4, <1>5, LocalAssumption, SMTT(30) DEF ReqOK, InSetup, Forwarders
<1>7. NewStep(f, t)
  <2>1. claim' = [claim EXCEPT ![f] = "open"] /\ claim' \in [Forwarders -> ClaimStates] /\ stated' = stated
    BY Zenon DEF SubscribeClaims, IInv, TypeOK, ClaimStates
  <2>2. stated \subseteq stated' /\ stated' \subseteq Forwarders
    BY <2>1, Zenon DEF IInv, TypeOK
  <2>3. \A u \in Subscribers : req'[u] = req[u] \/ ReqOK(req'[u], loc', f, Home', stated')
    BY <1>4, <1>6, Zenon
  <2>4. QED
    BY <1>2, <1>3, <1>4, <2>1, <2>2, <2>3, Zenon DEF NewStep, Installed
<1>8. TicketsMatchParked'
  BY <1>3, Zenon DEF IInv, TicketsMatchParked, SubscribeClaims
<1>9. QED
  BY <1>7, <1>8, NewStepOK, Zenon

\* The setup reaches the publisher thread and is the first one there.
LEMMA FirstSortieOK ==
  ASSUME IInv, NEW x \in Subscribers \cup Channels, NEW t \in Tracks, NEW g \in Forwarders,
         FirstSortie(x, t, g)
  PROVE  IInv'
<1>1. NewForwarder(g, t, "upstream", TRUE, {x})
  BY Zenon DEF FirstSortie
<1>2. /\ g = last + 1 /\ last' = g
      /\ fwd' \in [Forwarders -> LocalForwarder]
      /\ Home' = [Home EXCEPT ![g] = t]
      /\ Context(last, Home, claim, stated)
      /\ LocalOK(loc, last, Home, claim, stated)
  <2>1. "upstream" \in Kinds /\ {x} \in SUBSET (Subscribers \cup Channels)
    BY Zenon DEF Kinds
  <2>2. QED
    BY <1>1, <2>1, NewForwarderFacts, Zenon
<1>3. /\ Installed(loc, loc', g, t, last, Home, claim, stated)
      /\ loc'.displaced = loc.displaced
  <2>1. loc' = replaceImpl(loc, t, g, FALSE)
    BY Zenon DEF FirstSortie
  <2>2. Installed(loc, loc', g, t, last, Home, claim, stated)
    BY <1>2, <2>1, ReplaceOK, ZenonT(30)
  <2>3. loc'.displaced = loc.displaced
    BY <2>1, Zenon DEF replaceImpl, makePending
  <2>4. QED
    BY <2>2, <2>3, Zenon
<1>4. /\ req' \in [Subscribers -> Request]
      /\ \A u \in Subscribers : req'[u] = req[u] \/ ReqOK(req'[u], loc', g, Home', stated')
  <2>0. req \in [Subscribers -> Request]
    BY Zenon DEF IInv, TypeOK
  <2>1. CASE x \in Channels
    BY <2>0, <2>1, Zenon DEF FirstSortie
  <2>2. CASE x \notin Channels
    <3>1. /\ x \in Subscribers /\ req[x].phase = "setup" /\ req[x].track = t
          /\ Becomes(x, "upstream", t, req[x].at, g)
      BY <2>2, Zenon DEF FirstSortie, InSortie
    <3>2. req[x].at \in Forwarders /\ req[x].at <= last /\ Home[req[x].at] = t
      BY <3>1, Zenon DEF IInv, ReqOK, InSetup
    <3>3. /\ req[x].at \in 0 .. MaxForwarder /\ g \in 0 .. MaxForwarder
          /\ req[x].at # g /\ req[x].at <= g
      BY <3>2, <1>2, LocalAssumption, SMTT(60) DEF Forwarders, Context
    <3>4. /\ req' \in [Subscribers -> Request]
          /\ \A u \in Subscribers : u # x => req'[u] = req[u]
          /\ req'[x] = [phase |-> "upstream", track |-> t, at |-> req[x].at, direct |-> g]
      BY <3>1, <3>3, <2>0, ReqType, SMTT(60) DEF Phases
    <3>5. Home'[req[x].at] = t
      BY <3>2, <3>3, <1>2, Zenon DEF Home
    <3>6. ReqOK(req'[x], loc', g, Home', stated')
      BY <3>2, <3>3, <3>4, <3>5, SMTT(60) DEF ReqOK, InSetup
    <3>7. QED
      BY <3>4, <3>6, Zenon
  <2>3. QED
    BY <2>1, <2>2, Zenon
<1>5. NewStep(g, t)
  <2>1. claim' = [claim EXCEPT ![g] = "open"] /\ claim' \in [Forwarders -> ClaimStates] /\ stated' = stated
    BY Zenon DEF FirstSortie, IInv, TypeOK, ClaimStates
  <2>2. stated \subseteq stated' /\ stated' \subseteq Forwarders
    BY <2>1, Zenon DEF IInv, TypeOK
  <2>3. QED
    BY <1>2, <1>3, <1>4, <2>1, <2>2, Zenon DEF NewStep, Installed
<1>6. TicketsMatchParked'
  BY <1>3, Zenon DEF IInv, TicketsMatchParked, FirstSortie
<1>7. QED
  BY <1>5, <1>6, NewStepOK, Zenon

ReadyAtOnce(L, R, parked, f, G, E, St) ==
    /\ LocalOK(R, f, G, E, St)
    /\ \A p \in Forwarders : L.promise[p] # "none" => R.promise[p] # "none"
    /\ R.displaced = parked
    /\ Context(f, G, E, St)

\* A forwarder that is installed and made ready at once.
LEMMA InstalledReady ==
  ASSUME NEW L, NEW M, NEW f \in Forwarders, NEW t \in Tracks, NEW n, NEW H, NEW C, NEW St,
         Context(n, H, C, St), Installed(L, M, f, t, n, H, C, St)
  PROVE  ReadyAtOnce(L, markReady(M, t, f), M.displaced, f, [H EXCEPT ![f] = t],
                     [C EXCEPT ![f] = "resolved"], St \cup {f})
<1> DEFINE G == [H EXCEPT ![f] = t]
           D == [C EXCEPT ![f] = "open"]
           E == [C EXCEPT ![f] = "resolved"]
<1>1. LocalOK(M, f, G, D, St)
  BY Zenon DEF Installed
<1>2. Context(f, G, D, St) /\ Context(f, G, E, St \cup {f}) /\ G[f] = t
  BY LocalAssumption DEF Context, Homes, ClaimStates, Forwarders
<1>3. [D EXCEPT ![f] = "resolved"] = E
  BY Zenon DEF Context
<1> HIDE DEF G, D, E
<1>4. /\ LocalOK(markReady(M, t, f), f, G, E, St \cup {f})
      /\ Quiet(M, markReady(M, t, f))
  BY <1>1, <1>2, <1>3, MarkReadyOK, Zenon
<1>5. \A p \in Forwarders : L.promise[p] # "none" => M.promise[p] # "none"
  BY Zenon DEF Installed
<1>6. QED
  BY <1>2, <1>4, <1>5, Zenon DEF Quiet, ReadyAtOnce, G, E

\* A PUBLISH replaces the entry and parks what it displaces.
LEMMA PublishOK ==
  ASSUME IInv, NEW t \in Tracks, NEW f \in Forwarders, Publish(t, f)
  PROVE  IInv'
<1>1. NewForwarder(f, t, "publish", TRUE, {})
  BY Zenon DEF Publish
<1>2. /\ f = last + 1 /\ last' = f
      /\ fwd' \in [Forwarders -> LocalForwarder]
      /\ Home' = [Home EXCEPT ![f] = t]
      /\ Context(last, Home, claim, stated)
      /\ LocalOK(loc, last, Home, claim, stated)
  <2>1. "publish" \in Kinds /\ {} \in SUBSET (Subscribers \cup Channels)
    BY Zenon DEF Kinds
  <2>2. QED
    BY <1>1, <2>1, NewForwarderFacts, Zenon
<1> DEFINE M == replaceImpl(loc, t, f, TRUE)
<1>3. Installed(loc, M, f, t, last, Home, claim, stated)
  BY <1>2, ReplaceOK, Zenon
<1>4. M.displaced = IF IsAbsent(loc, t) THEN loc.displaced
                    ELSE [loc.displaced EXCEPT ![t] = @ \cup {loc.entry[t].fwd}]
  BY Zenon DEF replaceImpl, makePending
<1>5. /\ loc' = markReady(M, t, f)
      /\ claim' = [claim EXCEPT ![f] = "resolved"]
      /\ stated' = stated \cup {f}
      /\ req' = req
  BY Zenon DEF Publish
<1> HIDE DEF M
<1>6. /\ LocalOK(loc', f, Home', claim', stated')
      /\ \A p \in Forwarders : loc.promise[p] # "none" => loc'.promise[p] # "none"
      /\ loc'.displaced = M.displaced
      /\ Context(f, Home', claim', stated')
  <2>1. ReadyAtOnce(loc, markReady(M, t, f), M.displaced, f, [Home EXCEPT ![f] = t],
                    [claim EXCEPT ![f] = "resolved"], stated \cup {f})
    BY <1>2, <1>3, InstalledReady, ZenonT(30)
  <2>2. QED
    BY <2>1, <1>2, <1>5, Zenon DEF ReadyAtOnce
<1>7. NewStep(f, t)
  BY <1>2, <1>5, <1>6, Zenon DEF NewStep, Context, IInv, TypeOK
<1>8. TicketsMatchParked'
  <2>0. loc.displaced \in [Tracks -> SUBSET Forwarders] /\ loc.entry \in [Tracks -> LocalEntry]
    BY <1>2, Zenon DEF LocalOK, LocalRegistry
  <2>1. CASE IsAbsent(loc, t)
    BY <2>1, <1>4, <1>6, Zenon DEF IInv, TicketsMatchParked, Publish
  <2>2. CASE ~ IsAbsent(loc, t)
    <3>1. ticket' = ticket \cup {[track |-> t, key |-> loc.entry[t].fwd]}
      BY <2>2, Zenon DEF Publish
    <3>2. loc.entry[t].fwd \in Forwarders
      BY <2>0, <2>2, LocalAssumption, SMTT(60) DEF IsAbsent, LocalEntry, Forwarders
    <3>3. \A u \in Tracks : loc'.displaced[u] = IF u = t THEN loc.displaced[u] \cup {loc.entry[t].fwd}
                                                ELSE loc.displaced[u]
      BY <2>0, <2>2, <1>4, <1>6, Zenon
    <3>4. ASSUME NEW k \in [track : Tracks, key : Forwarders]
          PROVE  k \in ticket' <=> k.key \in loc'.displaced[k.track]
      <4>1. k \in ticket <=> k.key \in loc.displaced[k.track]
        BY Zenon DEF IInv, TicketsMatchParked
      <4>2. k = [track |-> t, key |-> loc.entry[t].fwd] <=> k.track = t /\ k.key = loc.entry[t].fwd
        OBVIOUS
      <4>3. QED
        BY <4>1, <4>2, <3>1, <3>3, Zenon
    <3>5. ticket' \subseteq [track : Tracks, key : Forwarders]
      BY <3>1, <3>2 DEF IInv, TypeOK
    <3>6. QED
      BY <3>4, <3>5, Zenon DEF TicketsMatchParked
  <2>3. QED
    BY <2>1, <2>2, Zenon
<1>9. QED
  BY <1>7, <1>8, NewStepOK, Zenon

\* The fan-out of a PUBLISH to a subscriber of another iothread.
LEMMA FanoutClaimsOK ==
  ASSUME IInv, NEW s \in Subscribers, NEW t \in Tracks, NEW f \in Forwarders,
         NEW ok \in BOOLEAN, FanoutClaims(s, t, f, ok)
  PROVE  IInv'
<1> DEFINE subs == IF ok THEN {s} ELSE {}
           M == join(loc, t, f)
           R == markReady(M, t, f)
<1>1. NewForwarder(f, t, "fanout", FALSE, subs)
  BY Zenon DEF FanoutClaims
<1>2. /\ f = last + 1 /\ last' = f
      /\ fwd' \in [Forwarders -> LocalForwarder]
      /\ Home' = [Home EXCEPT ![f] = t]
      /\ Context(last, Home, claim, stated)
      /\ LocalOK(loc, last, Home, claim, stated)
  <2>1. "fanout" \in Kinds /\ subs \in SUBSET (Subscribers \cup Channels)
    BY Zenon DEF Kinds
  <2> HIDE DEF subs
  <2>2. QED
    BY <1>1, <2>1, NewForwarderFacts, ZenonT(30)
<1>3. /\ Installed(loc, M, f, t, last, Home, claim, stated)
      /\ M.displaced = loc.displaced
  BY <1>2, JoinOK, SMTT(60) DEF FanoutClaims
<1>4. /\ loc' = IF ok THEN R ELSE remove(R, t, f)
      /\ claim' = [claim EXCEPT ![f] = "resolved"]
      /\ stated' = stated \cup {f}
      /\ ticket' = ticket
      /\ Becomes(s, IF ok THEN "served" ELSE "over", t, f, 0)
  BY Zenon DEF FanoutClaims
<1> HIDE DEF M
<1>5. /\ LocalOK(R, f, Home', claim', stated')
      /\ \A p \in Forwarders : loc.promise[p] # "none" => R.promise[p] # "none"
      /\ R.displaced = M.displaced
      /\ Context(f, Home', claim', stated')
  <2>1. ReadyAtOnce(loc, R, M.displaced, f, [Home EXCEPT ![f] = t],
                    [claim EXCEPT ![f] = "resolved"], stated \cup {f})
    BY <1>2, <1>3, InstalledReady, ZenonT(30)
  <2> HIDE DEF R
  <2>2. QED
    BY <2>1, <1>2, <1>4, Zenon DEF ReadyAtOnce
<1> HIDE DEF R
<1>6. LocalOK(remove(R, t, f), f, Home', claim', stated') /\ Quiet(R, remove(R, t, f))
  BY <1>5, RemoveLocalOK, Zenon
<1>7. /\ LocalOK(loc', f, Home', claim', stated')
      /\ \A p \in Forwarders : loc.promise[p] # "none" => loc'.promise[p] # "none"
      /\ loc'.displaced = loc.displaced
  BY <1>3, <1>4, <1>5, <1>6, Zenon DEF Quiet
<1>8. /\ req' \in [Subscribers -> Request]
      /\ \A u \in Subscribers : u # s => req'[u] = req[u]
      /\ req'[s] = [phase |-> IF ok THEN "served" ELSE "over", track |-> t, at |-> f, direct |-> 0]
  <2>1. (IF ok THEN "served" ELSE "over") \in Phases /\ f \in 0 .. MaxForwarder /\ 0 \in 0 .. MaxForwarder
    BY LocalAssumption, SMTT(60) DEF Phases, Forwarders
  <2>2. QED
    BY <1>4, <2>1, ReqType, SMTT(60) DEF IInv, TypeOK
<1>9. ReqOK(req'[s], loc', f, Home', stated')
  BY <1>4, <1>8, SMTT(60) DEF ReqOK, InSetup
<1>10. NewStep(f, t)
  <2>1. \A u \in Subscribers : req'[u] = req[u] \/ ReqOK(req'[u], loc', f, Home', stated')
    BY <1>8, <1>9, Zenon
  <2>2. QED
    BY <1>2, <1>4, <1>5, <1>7, <1>8, <2>1, Zenon DEF NewStep, Context
<1>11. TicketsMatchParked'
  BY <1>4, <1>7, Zenon DEF IInv, TicketsMatchParked
<1>12. QED
  BY <1>10, <1>11, NewStepOK, Zenon

(* The remaining actions make no forwarder. *)

\* A request changes and, at most, a subscriber is added.
LEMMA RequestOnly ==
  ASSUME IInv, NEW s \in Subscribers, NEW phase \in Phases, NEW t \in Tracks,
         NEW a \in 0 .. MaxForwarder, NEW d \in 0 .. MaxForwarder,
         Becomes(s, phase, t, a, d), SameTracks(fwd, fwd'),
         ReqOK([phase |-> phase, track |-> t, at |-> a, direct |-> d], loc, last, Home, stated),
         UNCHANGED <<loc, last, claim, stated, ticket>>
  PROVE  IInv'
<1>1. /\ req' \in [Subscribers -> Request]
      /\ \A u \in Subscribers : u # s => req'[u] = req[u]
      /\ req'[s] = [phase |-> phase, track |-> t, at |-> a, direct |-> d]
  BY ReqType, SMTT(60) DEF IInv, TypeOK
<1>2. \A u \in Subscribers : req'[u] = req[u] \/ ReqOK(req'[u], loc', last, Home, stated')
  BY <1>1, Zenon
<1>3. QuietStep(loc, last, Home, claim, stated)
  BY <1>1, <1>2, QuietReflexive, Zenon DEF QuietStep, IInv, TypeOK, ClaimStates
<1>4. QED
  BY <1>3, QuietStepOK, Zenon

\* A step that leaves the forwarders alone leaves their tracks alone.
LEMMA SameTracksReflexive == ASSUME TypeOK, fwd' = fwd PROVE SameTracks(fwd, fwd')
BY Zenon DEF TypeOK, SameTracks

\* The promise of a pending entry is one that waiters can rely on.
LEMMA WaitingOK ==
  ASSUME IInv, NEW t \in Tracks, IsPending(loc, t)
  PROVE  /\ loc.entry[t].ready \in Forwarders
         /\ ReqOK([phase |-> "waiting", track |-> t, at |-> loc.entry[t].ready, direct |-> 0],
                  loc, last, Home, stated)
<1>1. LocalOK(loc, last, Home, claim, stated) /\ last \in Nat
  BY LocalAssumption DEF IInv, TypeOK
<1>2. loc.entry[t].ready \in Forwarders
  BY <1>1, LocalAssumption DEF LocalOK, LocalRegistry, LocalEntry, Forwarders, IsPending
<1>3. loc.promise[loc.entry[t].ready] = "pending" /\ Home[loc.entry[t].ready] = t
  BY <1>1, Zenon DEF LocalOK, PendingOK, IsPending
<1>4. loc.entry[t].ready <= last
  BY <1>1, <1>2, <1>3, LocalAssumption DEF LocalOK, PromisesOK, Forwarders
<1>5. QED
  BY <1>2, <1>3, <1>4, Zenon DEF ReqOK

\* A subscriber is added to a ready forwarder.
LEMMA AttachOK ==
  ASSUME IInv, NEW s \in Subscribers, NEW t \in Tracks, NEW f \in 0 .. MaxForwarder,
         Attach(s, t, f), UNCHANGED <<loc, last, claim, stated, ticket>>
  PROVE  IInv'
<1>1. f \in Forwarders /\ loc.entry[t].fwd = f /\ loc.entry[t].ready = 0
  BY LocalAssumption DEF Attach, getIfReady, IsPending, Forwarders
<1>2. f \in stated
  BY <1>1, LocalAssumption DEF IInv, LocalOK, ReadyOK, Forwarders
<1>3. fwd \in [Forwarders -> LocalForwarder] /\ TypeOK /\ 0 \in 0 .. MaxForwarder
  BY LocalAssumption DEF IInv, TypeOK
<1>4. CASE fwd[f].done
  <2>1. Becomes(s, "over", t, f, 0) /\ fwd' = fwd
    BY <1>4, Zenon DEF Attach
  <2>2. ReqOK([phase |-> "over", track |-> t, at |-> f, direct |-> 0], loc, last, Home, stated)
    BY Zenon DEF ReqOK, InSetup
  <2>3. QED
    BY <1>3, <2>1, <2>2, SameTracksReflexive, RequestOnly, Zenon DEF Phases
<1>5. CASE ~ fwd[f].done
  <2>1. Becomes(s, "served", t, f, 0) /\ fwd' = WithSub(fwd, f, s)
    BY <1>5, Zenon DEF Attach
  <2>2. ReqOK([phase |-> "served", track |-> t, at |-> f, direct |-> 0], loc, last, Home, stated)
    BY <1>2, Zenon DEF ReqOK, InSetup
  <2>3. SameTracks(fwd, fwd')
    BY <1>1, <1>3, <2>1, SubsChange, Zenon
  <2>4. QED
    BY <1>3, <2>1, <2>2, <2>3, RequestOnly, Zenon DEF Phases
<1>6. QED
  BY <1>4, <1>5, Zenon

\* A SUBSCRIBE that finds a pending entry waits for its promise.
LEMMA SubscribeWaitsOK ==
  ASSUME IInv, NEW s \in Subscribers, NEW t \in Tracks, SubscribeWaits(s, t)
  PROVE  IInv'
<1>1. /\ Becomes(s, "waiting", t, loc.entry[t].ready, 0)
      /\ UNCHANGED <<loc, last, fwd, claim, stated, ticket>>
      /\ IsPending(loc, t)
  BY Zenon DEF SubscribeWaits
<1>2. loc.entry[t].ready \in 0 .. MaxForwarder /\ 0 \in 0 .. MaxForwarder
  BY LocalAssumption DEF IInv, TypeOK, LocalRegistry, LocalEntry
<1>3. SameTracks(fwd, fwd')
  BY <1>1, SameTracksReflexive, Zenon DEF IInv
<1>4. QED
  BY <1>1, <1>2, <1>3, WaitingOK, RequestOnly, ZenonT(30) DEF Phases

\* A waiter resumes once its promise is settled.
LEMMA WaiterResumesOK ==
  ASSUME IInv, NEW s \in Subscribers, NEW f \in 0 .. MaxForwarder, WaiterResumes(s, f)
  PROVE  IInv'
<1> DEFINE t == req[s].track
<1>1. t \in Tracks /\ TypeOK /\ 0 \in 0 .. MaxForwarder
  BY LocalAssumption, SMTT(60) DEF IInv, TypeOK, Request
<1>2. UNCHANGED <<loc, last, claim, stated, ticket>>
  BY Zenon DEF WaiterResumes
<1>3. \/ Attach(s, t, f)
      \/ IsPending(loc, t) /\ f = loc.entry[t].ready /\ Becomes(s, "waiting", t, f, 0) /\ UNCHANGED fwd
      \/ Becomes(s, "over", t, f, 0) /\ UNCHANGED fwd
  BY Zenon DEF WaiterResumes
<1> HIDE DEF t
<1>4. CASE Attach(s, t, f)
  BY <1>1, <1>2, <1>4, AttachOK, Zenon
<1>5. CASE IsPending(loc, t) /\ f = loc.entry[t].ready /\ Becomes(s, "waiting", t, f, 0) /\ UNCHANGED fwd
  BY <1>1, <1>2, <1>5, WaitingOK, SameTracksReflexive, RequestOnly, Zenon DEF Phases
<1>6. CASE Becomes(s, "over", t, f, 0) /\ UNCHANGED fwd
  <2>1. ReqOK([phase |-> "over", track |-> t, at |-> f, direct |-> 0], loc, last, Home, stated)
    BY Zenon DEF ReqOK, InSetup
  <2>2. QED
    BY <1>1, <1>2, <1>6, <2>1, SameTracksReflexive, RequestOnly, Zenon DEF Phases
<1>7. QED
  BY <1>3, <1>4, <1>5, <1>6, Zenon

\* The setup reaches the publisher thread and finds a forwarder there.
LEMMA LaterSortieOK ==
  ASSUME IInv, NEW x \in Subscribers \cup Channels, NEW t \in Tracks, NEW g \in Forwarders,
         LaterSortie(x, t, g)
  PROVE  IInv'
<1>1. loc.entry[t].fwd = g /\ loc.entry[t].ready = 0 /\ g # 0
  BY Zenon DEF LaterSortie, getIfReady, IsPending
<1>2. g \in stated
  BY <1>1, Zenon DEF IInv, LocalOK, ReadyOK
<1>3. fwd \in [Forwarders -> LocalForwarder] /\ TypeOK /\ g \in 0 .. MaxForwarder
  BY LocalAssumption DEF IInv, TypeOK, Forwarders
<1>4. SameTracks(fwd, fwd')
  BY <1>3, SubsChange, Zenon DEF LaterSortie
<1>5. UNCHANGED <<loc, last, claim, stated, ticket>>
  BY Zenon DEF LaterSortie
<1>6. CASE x \in Channels
  <2>1. req' = req
    BY <1>6, Zenon DEF LaterSortie
  <2>2. QuietStep(loc, last, Home, claim, stated)
    BY <1>4, <1>5, <2>1, QuietReflexive, Zenon DEF QuietStep, IInv, TypeOK, ClaimStates
  <2>3. QED
    BY <2>2, QuietStepOK, Zenon
<1>7. CASE x \notin Channels
  <2>1. x \in Subscribers /\ req[x].phase = "setup" /\ req[x].track = t /\ Becomes(x, "back", t, req[x].at, g)
    BY <1>7, Zenon DEF LaterSortie, InSortie
  <2>2. req[x].at \in Forwarders /\ req[x].at <= last /\ Home[req[x].at] = t
    BY <2>1, Zenon DEF IInv, ReqOK, InSetup
  <2>3. ReqOK([phase |-> "back", track |-> t, at |-> req[x].at, direct |-> g], loc, last, Home, stated)
    BY <1>2, <2>2, Zenon DEF ReqOK
  <2>4. req[x].at \in 0 .. MaxForwarder
    BY <2>1, <1>3, Zenon DEF TypeOK, Request
  <2>5. QED
    BY <1>3, <1>4, <1>5, <2>1, <2>3, <2>4, RequestOnly, ZenonT(30) DEF Phases
<1>8. QED
  BY <1>6, <1>7, Zenon

\* What the answer of the upstream leaves in the table.
LEMMA AfterAnswerOK ==
  ASSUME IInv, NEW g \in Forwarders, NEW phase \in {"back", "failed"}, req' = AfterAnswer(g, phase),
         NEW L, NEW St, phase = "back" => g \in St
  PROVE  /\ req' \in [Subscribers -> Request]
         /\ \A s \in Subscribers : req'[s] = req[s] \/ ReqOK(req'[s], L, last, Home, St)
<1>1. req \in [Subscribers -> Request] /\ g \in 0 .. MaxForwarder
  BY LocalAssumption, SMTT(60) DEF IInv, TypeOK, Forwarders
<1>2. ASSUME NEW s \in Subscribers
      PROVE  req'[s] \in Request /\ (req'[s] = req[s] \/ ReqOK(req'[s], L, last, Home, St))
  <2>1. CASE req[s].phase = "upstream" /\ req[s].direct = g
    <3>1. req'[s] = [phase |-> phase, track |-> req[s].track, at |-> req[s].at, direct |-> g]
      BY <2>1, Zenon DEF AfterAnswer
    <3>2. req[s].at \in Forwarders /\ req[s].at <= last /\ Home[req[s].at] = req[s].track
      BY <2>1, Zenon DEF IInv, ReqOK, InSetup
    <3>3. req'[s] \in Request
      BY <1>1, <3>1, SMTT(60) DEF Request, Phases
    <3>4. ReqOK(req'[s], L, last, Home, St)
      BY <3>1, <3>2, SMTT(60) DEF ReqOK
    <3>5. QED
      BY <3>3, <3>4, Zenon
  <2>2. CASE ~ (req[s].phase = "upstream" /\ req[s].direct = g)
    BY <1>1, <2>2, Zenon DEF AfterAnswer
  <2>3. QED
    BY <2>1, <2>2, Zenon
<1>3. req' = [s \in Subscribers |-> req'[s]]
  BY Zenon DEF AfterAnswer
<1>4. QED
  BY <1>2, <1>3, Zenon

\* The upstream subscription succeeds.
LEMMA UpstreamAcceptsOK ==
  ASSUME IInv, NEW g \in Forwarders, NEW replaced \in BOOLEAN, UpstreamAccepts(g, replaced)
  PROVE  IInv'
<1> DEFINE t == fwd[g].track
           phase == IF replaced THEN "failed" ELSE "back"
<1>1. t \in Tracks /\ Home[g] = t /\ fwd \in [Forwarders -> LocalForwarder] /\ TypeOK
  BY Zenon DEF IInv, TypeOK, LocalForwarder, Home
<1>2. Context(last, Home, claim, stated) /\ LocalOK(loc, last, Home, claim, stated)
  BY InContext, Zenon DEF IInv
<1>3. /\ loc' = markReady(loc, t, g) /\ stated' = stated \cup {g}
      /\ claim' = [claim EXCEPT ![g] = "resolved"]
      /\ req' = AfterAnswer(g, phase)
      /\ UNCHANGED <<last, fwd, ticket>>
  BY Zenon DEF UpstreamAccepts
<1>4. phase \in {"back", "failed"} /\ (phase = "back" => g \in stated')
  BY <1>3, Zenon
<1> HIDE DEF t, phase
<1>5. LocalOK(loc', last, Home, claim', stated') /\ Quiet(loc, loc')
  BY <1>1, <1>2, <1>3, MarkReadyOK, Zenon
<1>6. /\ req' \in [Subscribers -> Request]
      /\ \A s \in Subscribers : req'[s] = req[s] \/ ReqOK(req'[s], loc', last, Home, stated')
  BY <1>3, <1>4, AfterAnswerOK, Zenon
<1>7. SameTracks(fwd, fwd')
  BY <1>1, <1>3, SameTracksReflexive, Zenon
<1>8. claim' \in [Forwarders -> ClaimStates] /\ stated \subseteq stated' /\ stated' \subseteq Forwarders
  BY <1>3, Zenon DEF IInv, TypeOK, ClaimStates
<1>9. QuietStep(loc, last, Home, claim, stated)
  BY <1>3, <1>5, <1>6, <1>7, <1>8, Zenon DEF QuietStep
<1>10. QED
  BY <1>9, QuietStepOK, Zenon

\* The upstream subscription fails.
LEMMA UpstreamRefusesOK ==
  ASSUME IInv, NEW g \in Forwarders, UpstreamRefuses(g)
  PROVE  IInv'
<1> DEFINE t == fwd[g].track
<1>1. t \in Tracks /\ Home[g] = t /\ fwd \in [Forwarders -> LocalForwarder] /\ TypeOK
  BY Zenon DEF IInv, TypeOK, LocalForwarder, Home
<1>2. Context(last, Home, claim, stated) /\ LocalOK(loc, last, Home, claim, stated)
  BY InContext, Zenon DEF IInv
<1>3. /\ loc' = fail(loc, t, g)
      /\ claim' = [claim EXCEPT ![g] = "resolved"]
      /\ req' = AfterAnswer(g, "failed")
      /\ UNCHANGED <<last, fwd, stated, ticket>>
  BY Zenon DEF UpstreamRefuses
<1> HIDE DEF t
<1>4. LocalOK(loc', last, Home, claim', stated') /\ Quiet(loc, loc')
  BY <1>1, <1>2, <1>3, FailLocalOK, Zenon
<1>5. /\ req' \in [Subscribers -> Request]
      /\ \A s \in Subscribers : req'[s] = req[s] \/ ReqOK(req'[s], loc', last, Home, stated')
  BY <1>3, AfterAnswerOK, Zenon
<1>6. SameTracks(fwd, fwd')
  BY <1>1, <1>3, SameTracksReflexive, Zenon
<1>7. claim' \in [Forwarders -> ClaimStates] /\ stated \subseteq stated' /\ stated' \subseteq Forwarders
  BY <1>3, Zenon DEF IInv, TypeOK, ClaimStates
<1>8. QuietStep(loc, last, Home, claim, stated)
  BY <1>3, <1>4, <1>5, <1>6, <1>7, Zenon DEF QuietStep
<1>9. QED
  BY <1>8, QuietStepOK, Zenon

\* The tail of a setup over forwarder f: the claim is closed, the request over
\* or served.
SetupEnds(s, f, phase, a) ==
    /\ phase = "over" \/ (phase = "served" /\ a \in stated')
    /\ Becomes(s, phase, req[s].track, a, 0)
    /\ claim' = [claim EXCEPT ![f] = "resolved"]
    /\ LocalOK(loc', last, Home, claim', stated')
    /\ Quiet(loc, loc')
    /\ SameTracks(fwd, fwd')
    /\ stated \subseteq stated' /\ stated' \subseteq Forwarders
    /\ last' = last /\ ticket' = ticket

\* A setup that resolves its claim keeps the invariant.
LEMMA SetupEndsOK ==
  ASSUME IInv, NEW s \in Subscribers, NEW f \in Forwarders, NEW phase,
         NEW a \in 0 .. MaxForwarder, SetupEnds(s, f, phase, a)
  PROVE  IInv'
<1>1. phase \in Phases /\ req[s].track \in Tracks /\ 0 \in 0 .. MaxForwarder /\ req \in [Subscribers -> Request]
  BY LocalAssumption, SMTT(60) DEF SetupEnds, Phases, IInv, TypeOK, Request
<1>2. /\ req' \in [Subscribers -> Request]
      /\ \A u \in Subscribers : u # s => req'[u] = req[u]
      /\ req'[s] = [phase |-> phase, track |-> req[s].track, at |-> a, direct |-> 0]
  BY <1>1, ReqType, SMTT(60) DEF SetupEnds
<1>3. ReqOK(req'[s], loc', last, Home, stated')
  BY <1>2, SMTT(60) DEF ReqOK, InSetup, SetupEnds
<1>4. claim' \in [Forwarders -> ClaimStates]
  BY Zenon DEF SetupEnds, IInv, TypeOK, ClaimStates
<1>5. \A u \in Subscribers : req'[u] = req[u] \/ ReqOK(req'[u], loc', last, Home, stated')
  BY <1>2, <1>3, Zenon
<1>6. QuietStep(loc, last, Home, claim, stated)
  BY <1>2, <1>4, <1>5, Zenon DEF QuietStep, SetupEnds
<1>7. QED
  BY <1>6, QuietStepOK, Zenon

\* Where a setup stands when it comes back.
LEMMA SetupFacts ==
  ASSUME IInv, NEW s \in Subscribers, req[s].phase \in InSetup
  PROVE  /\ req[s].at \in Forwarders /\ req[s].at \in 0 .. MaxForwarder
         /\ req[s].track \in Tracks /\ Home[req[s].at] = req[s].track
         /\ fwd \in [Forwarders -> LocalForwarder]
         /\ Context(last, Home, claim, stated) /\ LocalOK(loc, last, Home, claim, stated)
<1>1. TypeOK /\ ReqOK(req[s], loc, last, Home, stated)
  BY Zenon DEF IInv
<1>2. req[s] \in Request
  BY <1>1, Zenon DEF TypeOK
<1>3. QED
  BY <1>1, <1>2, InContext, Zenon DEF IInv, ReqOK, TypeOK, Request

\* Leaving the forwarder a direct attachment used keeps the table sound.
LEMMA DirectOK ==
  ASSUME IInv, NEW s \in Subscribers, req[s].phase \in InSetup
  PROVE  /\ Sound(loc, DirectLeft(loc, s), last, Home, claim, stated)
         /\ SameTracks(fwd, DirectRemoved(s))
<1>1. /\ fwd \in [Forwarders -> LocalForwarder] /\ TypeOK
      /\ Context(last, Home, claim, stated) /\ LocalOK(loc, last, Home, claim, stated)
  BY SetupFacts, Zenon DEF IInv
<1>2. CASE req[s].direct = 0
  BY <1>1, <1>2, QuietReflexive, Zenon DEF DirectLeft, DirectRemoved, Sound, SameTracks
<1>3. CASE req[s].direct # 0
  <2> DEFINE g == req[s].direct
  <2>1. g \in Forwarders
    BY <1>1, <1>3, LocalAssumption, SMTT(60) DEF TypeOK, Request, Forwarders
  <2>2. DirectLeft(loc, s) = IF s \notin fwd[g].subs THEN loc ELSE AfterLeave(loc, fwd, g, s)
    BY <1>3, Zenon DEF DirectLeft
  <2>3. DirectRemoved(s) = WithoutSub(fwd, g, s)
    BY <1>3, Zenon DEF DirectRemoved
  <2> HIDE DEF g
  <2>4. Sound(loc, AfterLeave(loc, fwd, g, s), last, Home, claim, stated)
    BY <1>1, <2>1, CallbacksOK, ZenonT(30)
  <2>5. SameTracks(fwd, WithoutSub(fwd, g, s))
    BY <1>1, <2>1, SubsChange, Zenon
  <2>6. QED
    BY <1>1, <2>2, <2>3, <2>4, <2>5, QuietReflexive, Zenon DEF Sound
<1>4. QED
  BY <1>2, <1>3, Zenon

\* The claim is dropped without a verdict.
LEMMA SetupAbandonedOK ==
  ASSUME IInv, NEW s \in Subscribers, SetupAbandoned(s)
  PROVE  IInv'
<1> DEFINE f == req[s].at
           D == DirectLeft(loc, s)
<1>1. req[s].phase \in InSetup
  BY Zenon DEF SetupAbandoned, InSetup
<1>2. /\ f \in Forwarders /\ f \in 0 .. MaxForwarder
      /\ req[s].track \in Tracks /\ Home[f] = req[s].track
      /\ Context(last, Home, claim, stated)
  BY <1>1, SetupFacts, ZenonT(30)
<1>3. Sound(loc, D, last, Home, claim, stated) /\ SameTracks(fwd, DirectRemoved(s))
  BY <1>1, DirectOK, Zenon
<1>4. /\ loc' = fail(D, req[s].track, f)
      /\ fwd' = DirectRemoved(s)
      /\ claim' = [claim EXCEPT ![f] = "resolved"]
      /\ Becomes(s, "over", req[s].track, f, 0)
      /\ UNCHANGED <<last, stated, ticket>>
  BY Zenon DEF SetupAbandoned
<1> HIDE DEF f, D
<1>5. LocalOK(loc', last, Home, claim', stated) /\ Quiet(D, loc')
  BY <1>2, <1>3, <1>4, FailLocalOK, Zenon DEF Sound
<1>6. Quiet(loc, loc')
  BY <1>3, <1>5, QuietTransitive, Zenon DEF Sound
<1>7. SetupEnds(s, f, "over", f)
  BY <1>3, <1>4, <1>5, <1>6, Zenon DEF SetupEnds, IInv, TypeOK
<1>8. QED
  BY <1>2, <1>7, SetupEndsOK, ZenonT(30)

\* The setup fails: the claim fails and the forwarder is drained.
LEMMA SetupFailsOK ==
  ASSUME IInv, NEW s \in Subscribers, NEW late \in BOOLEAN, SetupFails(s, late)
  PROVE  IInv'
<1> DEFINE f == req[s].at
           D == DirectLeft(loc, s)
           E == AfterDone(D, fwd, f, late)
<1>1. req[s].phase \in InSetup
  BY ZenonT(30) DEF SetupFails, InSetup
<1>2. /\ f \in Forwarders /\ f \in 0 .. MaxForwarder
      /\ req[s].track \in Tracks /\ Home[f] = req[s].track
      /\ fwd \in [Forwarders -> LocalForwarder]
      /\ Context(last, Home, claim, stated)
  BY <1>1, SetupFacts, Zenon
<1>3. Sound(loc, D, last, Home, claim, stated) /\ SameTracks(fwd, DirectRemoved(s))
  BY <1>1, DirectOK, Zenon
<1>4. /\ loc' = fail(E, req[s].track, f)
      /\ fwd' = Drained(DirectRemoved(s), f, late)
      /\ claim' = [claim EXCEPT ![f] = "resolved"]
      /\ Becomes(s, "over", req[s].track, f, 0)
      /\ UNCHANGED <<last, stated, ticket>>
  BY ZenonT(30) DEF SetupFails
<1> HIDE DEF f, D
<1>5. Sound(D, E, last, Home, claim, stated)
  BY <1>2, <1>3, CallbacksOK, ZenonT(30) DEF Sound
<1> HIDE DEF E
<1>6. LocalOK(loc', last, Home, claim', stated) /\ Quiet(E, loc')
  BY <1>2, <1>4, <1>5, FailLocalOK, Zenon DEF Sound
<1>7. Quiet(loc, loc')
  BY <1>3, <1>5, <1>6, QuietTransitive, Zenon DEF Sound
<1>8. SameTracks(fwd, fwd')
  <2>1. DirectRemoved(s) \in [Forwarders -> LocalForwarder]
    BY <1>3, Zenon DEF SameTracks
  <2>2. SameTracks(DirectRemoved(s), fwd')
    BY <1>2, <1>4, <2>1, DrainedChange, ZenonT(30)
  <2>3. QED
    BY <1>3, <2>2, SameTracksTransitive, Zenon
<1>9. SetupEnds(s, f, "over", f)
  BY <1>4, <1>6, <1>7, <1>8, Zenon DEF SetupEnds, IInv, TypeOK
<1>10. QED
  BY <1>2, <1>9, SetupEndsOK, ZenonT(30)

\* The setup succeeds: the entry is ready.
LEMMA SetupSucceedsOK ==
  ASSUME IInv, NEW s \in Subscribers, SetupSucceeds(s)
  PROVE  IInv'
<1> DEFINE f == req[s].at
<1>1. req[s].phase \in InSetup
  BY Zenon DEF SetupSucceeds, InSetup
<1>2. /\ f \in Forwarders /\ f \in 0 .. MaxForwarder
      /\ req[s].track \in Tracks /\ Home[f] = req[s].track
      /\ fwd \in [Forwarders -> LocalForwarder]
      /\ Context(last, Home, claim, stated) /\ LocalOK(loc, last, Home, claim, stated)
  BY <1>1, SetupFacts, ZenonT(30)
<1>3. /\ loc' = markReady(loc, req[s].track, f)
      /\ fwd' = [fwd EXCEPT ![f].wired = TRUE]
      /\ stated' = stated \cup {f}
      /\ claim' = [claim EXCEPT ![f] = "resolved"]
      /\ Becomes(s, "served", req[s].track, f, 0)
      /\ UNCHANGED <<last, ticket>>
  BY Zenon DEF SetupSucceeds
<1> HIDE DEF f
<1>4. LocalOK(loc', last, Home, claim', stated') /\ Quiet(loc, loc')
  BY <1>2, <1>3, MarkReadyOK, Zenon
<1>5. SameTracks(fwd, fwd')
  BY <1>2, <1>3, WiredChange, ZenonT(30)
<1>6. SetupEnds(s, f, "served", f)
  BY <1>2, <1>3, <1>4, <1>5, Zenon DEF SetupEnds, IInv, TypeOK
<1>7. QED
  BY <1>2, <1>6, SetupEndsOK, ZenonT(30)

\* The setup succeeds with the subscriber attached to the publisher forwarder.
LEMMA SetupSucceedsDirectOK ==
  ASSUME IInv, NEW s \in Subscribers, SetupSucceedsDirect(s)
  PROVE  IInv'
<1> DEFINE f == req[s].at
           D == AfterLeave(loc, fwd, f, s)
<1>1. req[s].phase \in InSetup /\ req[s].phase = "back"
  BY Zenon DEF SetupSucceedsDirect, InSetup
<1>2. /\ f \in Forwarders
      /\ req[s].track \in Tracks /\ Home[f] = req[s].track
      /\ fwd \in [Forwarders -> LocalForwarder]
      /\ Context(last, Home, claim, stated) /\ LocalOK(loc, last, Home, claim, stated)
  BY <1>1, SetupFacts, ZenonT(30)
<1>3. req[s].direct \in stated /\ req[s].direct \in 0 .. MaxForwarder
  BY <1>1, Zenon DEF IInv, ReqOK, TypeOK, Request
<1>4. /\ loc' = markReady(D, req[s].track, f)
      /\ fwd' = WithoutSub(fwd, f, s)
      /\ stated' = stated \cup {f}
      /\ claim' = [claim EXCEPT ![f] = "resolved"]
      /\ Becomes(s, "served", req[s].track, req[s].direct, 0)
      /\ UNCHANGED <<last, ticket>>
  BY Zenon DEF SetupSucceedsDirect
<1> HIDE DEF f
<1>5. Sound(loc, D, last, Home, claim, stated)
  BY <1>2, CallbacksOK, ZenonT(30)
<1> HIDE DEF D
<1>6. LocalOK(loc', last, Home, claim', stated') /\ Quiet(D, loc')
  BY <1>2, <1>4, <1>5, MarkReadyOK, Zenon DEF Sound
<1>7. Quiet(loc, loc')
  BY <1>5, <1>6, QuietTransitive, Zenon DEF Sound
<1>8. SameTracks(fwd, fwd')
  BY <1>2, <1>4, SubsChange, ZenonT(30)
<1>9. SetupEnds(s, f, "served", req[s].direct)
  BY <1>2, <1>3, <1>4, <1>6, <1>7, <1>8, Zenon DEF SetupEnds, IInv, TypeOK
<1>10. QED
  BY <1>1, <1>2, <1>3, <1>9, SetupEndsOK, ZenonT(30)

\* What the subscribers that left are told.
LEMMA OverOK ==
  ASSUME IInv, NEW f \in Forwarders, NEW S, req' = Over(f, S), NEW L, NEW St
  PROVE  /\ req' \in [Subscribers -> Request]
         /\ \A s \in Subscribers : req'[s] = req[s] \/ ReqOK(req'[s], L, last, Home, St)
<1>1. req \in [Subscribers -> Request] /\ f \in 0 .. MaxForwarder /\ 0 \in 0 .. MaxForwarder
  BY LocalAssumption, SMTT(30) DEF IInv, TypeOK, Forwarders
<1>2. ASSUME NEW s \in Subscribers
      PROVE  req'[s] \in Request /\ (req'[s] = req[s] \/ ReqOK(req'[s], L, last, Home, St))
  <2>1. CASE req'[s] = req[s]
    BY <1>1, <2>1, Zenon
  <2>2. CASE req'[s] = [phase |-> "over", track |-> req[s].track, at |-> f, direct |-> 0]
    <3>1. req'[s] \in Request
      BY <1>1, <2>2, SMTT(60) DEF Request, Phases
    <3>2. ReqOK(req'[s], L, last, Home, St)
      BY <2>2, SMTT(60) DEF ReqOK, InSetup
    <3>3. QED
      BY <3>1, <3>2, Zenon
  <2>3. QED
    BY <2>1, <2>2, Zenon DEF Over
<1>3. req' = [s \in Subscribers |-> req'[s]]
  BY Zenon DEF Over
<1>4. QED
  BY <1>2, <1>3, Zenon

\* A forwarder's event: its callback touches the table, its subscribers go.
LEMMA ForwarderEventOK ==
  ASSUME IInv, NEW f \in Forwarders, NEW S, req' = Over(f, S),
         Sound(loc, loc', last, Home, claim, stated), SameTracks(fwd, fwd'),
         UNCHANGED <<last, claim, stated, ticket>>
  PROVE  IInv'
<1>1. /\ req' \in [Subscribers -> Request]
      /\ \A s \in Subscribers : req'[s] = req[s] \/ ReqOK(req'[s], loc', last, Home, stated')
  BY OverOK, Zenon
<1>2. QuietStep(loc, last, Home, claim, stated)
  BY <1>1, Zenon DEF QuietStep, Sound, IInv, TypeOK, ClaimStates
<1>3. QED
  BY <1>2, QuietStepOK, Zenon

\* What every event of a forwarder starts from.
LEMMA EventFacts ==
  ASSUME IInv
  PROVE  /\ fwd \in [Forwarders -> LocalForwarder]
         /\ Context(last, Home, claim, stated) /\ LocalOK(loc, last, Home, claim, stated)
BY InContext, Zenon DEF IInv, TypeOK

\* A subscriber or a channel leaves a forwarder.
LEMMA RemoveSubscriberOK ==
  ASSUME IInv, NEW f \in Forwarders, NEW x \in Subscribers \cup Channels, RemoveSubscriber(f, x)
  PROVE  IInv'
<1>1. /\ loc' = AfterLeave(loc, fwd, f, x) /\ fwd' = WithoutSub(fwd, f, x) /\ req' = Over(f, {x})
      /\ UNCHANGED <<last, claim, stated, ticket>>
  BY Zenon DEF RemoveSubscriber
<1>2. Sound(loc, loc', last, Home, claim, stated)
  BY <1>1, EventFacts, CallbacksOK, ZenonT(30)
<1>3. SameTracks(fwd, fwd')
  BY <1>1, EventFacts, SubsChange, Zenon
<1>4. QED
  BY <1>1, <1>2, <1>3, ForwarderEventOK, Zenon

\* The source of a forwarder ends, or its fan-out fails.
LEMMA SourceEndsOK ==
  ASSUME IInv, NEW f \in Forwarders, NEW late \in BOOLEAN, FanoutFails(f, late) \/ PublishDone(f, late)
  PROVE  IInv'
<1>1. /\ loc' = AfterDone(loc, fwd, f, late) /\ fwd' = Drained(fwd, f, late)
      /\ req' = Over(f, IF late THEN {} ELSE fwd[f].subs)
      /\ UNCHANGED <<last, claim, stated, ticket>>
  BY Zenon DEF FanoutFails, PublishDone
<1>2. Sound(loc, loc', last, Home, claim, stated)
  BY <1>1, EventFacts, CallbacksOK, ZenonT(30)
<1>3. SameTracks(fwd, fwd')
  BY <1>1, EventFacts, DrainedChange, Zenon
<1>4. QED
  BY <1>1, <1>2, <1>3, ForwarderEventOK, ZenonT(30)

\* The fan-out of a PUBLISH is wired to its channel.
LEMMA FanoutWiredOK ==
  ASSUME IInv, NEW f \in Forwarders, FanoutWired(f)
  PROVE  IInv'
<1>1. fwd' = [fwd EXCEPT ![f].wired = TRUE] /\ UNCHANGED <<loc, last, claim, stated, ticket, req>>
  BY Zenon DEF FanoutWired
<1>2. SameTracks(fwd, fwd')
  BY <1>1, EventFacts, WiredChange, Zenon
<1>3. QuietStep(loc, last, Home, claim, stated)
  BY <1>1, <1>2, EventFacts, QuietReflexive, Zenon DEF QuietStep, IInv, TypeOK, ClaimStates
<1>4. QED
  BY <1>3, QuietStepOK, Zenon

\* The relay thread registered the PUBLISH and redeems the park ticket.
LEMMA PublishRegisteredOK ==
  ASSUME IInv, NEW k \in ticket, PublishRegistered(k)
  PROVE  IInv'
<1>1. k \in [track : Tracks, key : Forwarders] /\ k.track \in Tracks
  BY Zenon DEF IInv, TypeOK
<1>2. /\ loc'.entry = loc.entry /\ loc'.promise = loc.promise
      /\ loc'.displaced = [loc.displaced EXCEPT ![k.track] = @ \ {k.key}]
      /\ loc' = [entry |-> loc'.entry, displaced |-> loc'.displaced, promise |-> loc'.promise]
  BY Zenon DEF PublishRegistered, takeDisplaced
<1>3. loc.displaced \in [Tracks -> SUBSET Forwarders]
  BY EventFacts, Zenon DEF LocalOK, LocalRegistry
<1>4. loc' \in LocalRegistry
  <2>1. loc'.displaced \in [Tracks -> SUBSET Forwarders]
    BY <1>1, <1>2, <1>3, Zenon
  <2>2. QED
    BY <1>2, <2>1, EventFacts, Zenon DEF LocalOK, LocalRegistry
<1>5. LocalOK(loc', last, Home, claim, stated)
  BY <1>2, <1>4, EventFacts, SMTT(60) DEF LocalOK, EntriesOK, PendingOK, ReadyOK, PromisesOK
<1>6. UNCHANGED <<last, fwd, claim, stated, req>> /\ ticket' = ticket \ {k}
  BY Zenon DEF PublishRegistered
<1>7. Home' = Home
  BY <1>6, Zenon DEF Home
<1>8. TypeOK'
  BY <1>4, <1>6, Zenon DEF IInv, TypeOK
<1>9. TicketsMatchParked'
  <2>1. ASSUME NEW j \in [track : Tracks, key : Forwarders]
        PROVE  j \in ticket' <=> j.key \in loc'.displaced[j.track]
    <3>1. j \in ticket <=> j.key \in loc.displaced[j.track]
      BY Zenon DEF IInv, TicketsMatchParked
    <3>2. j = k <=> j.track = k.track /\ j.key = k.key
      BY <1>1
    <3>3. loc'.displaced[j.track] = IF j.track = k.track THEN loc.displaced[j.track] \ {k.key}
                                    ELSE loc.displaced[j.track]
      BY <1>1, <1>2, <1>3, Zenon
    <3>4. QED
      BY <1>6, <3>1, <3>2, <3>3, Zenon
  <2>2. ticket' \subseteq [track : Tracks, key : Forwarders]
    BY <1>8, Zenon DEF TypeOK
  <2>3. QED
    BY <2>1, <2>2, Zenon DEF TicketsMatchParked
<1>10. \A s \in Subscribers : ReqOK(req[s], loc', last, Home, stated)
  BY <1>2, Zenon DEF IInv, ReqOK
<1>11. QED
  BY <1>5, <1>6, <1>7, <1>8, <1>9, <1>10, Zenon DEF IInv

\* Every step keeps the inductive invariant.
LEMMA StepOK == IInv /\ [Next]_vars => IInv'
<1> SUFFICES ASSUME IInv, [Next]_vars PROVE IInv'
  BY Zenon
<1>1. CASE UNCHANGED vars
  BY <1>1, Zenon DEF vars, IInv, TypeOK, Home, TicketsMatchParked
<1>2. CASE \E s \in Subscribers, t \in Tracks, f \in Forwarders :
              SubscribeClaims(s, t, f) \/ SubscribeJoins(s, t, f)
  <2>1. PICK s \in Subscribers, t \in Tracks, f \in Forwarders :
               SubscribeClaims(s, t, f) \/ SubscribeJoins(s, t, f)
    BY <1>2, Zenon
  <2>2. CASE SubscribeClaims(s, t, f)
    BY <2>2, SubscribeClaimsOK, Zenon
  <2>3. CASE SubscribeJoins(s, t, f)
    <3>1. f \in 0 .. MaxForwarder
      BY LocalAssumption DEF Forwarders
    <3>2. QED
      BY <2>3, <3>1, AttachOK, Zenon DEF SubscribeJoins
  <2>4. QED
    BY <2>1, <2>2, <2>3, Zenon
<1>3. CASE \E s \in Subscribers, t \in Tracks : SubscribeWaits(s, t)
  BY <1>3, SubscribeWaitsOK, Zenon
<1>4. CASE Resumes
  <2>1. CASE \E s \in Subscribers, f \in 0 .. MaxForwarder : WaiterResumes(s, f)
    BY <2>1, WaiterResumesOK, Zenon
  <2>2. CASE \E s \in Subscribers : SetupAbandoned(s) \/ SetupSucceeds(s) \/ SetupSucceedsDirect(s)
    BY <2>2, SetupAbandonedOK, SetupSucceedsOK, SetupSucceedsDirectOK, Zenon
  <2>3. CASE \E s \in Subscribers, late \in BOOLEAN : SetupFails(s, late)
    BY <2>3, SetupFailsOK, Zenon
  <2>4. CASE \E g \in Forwarders, replaced \in BOOLEAN : UpstreamAccepts(g, replaced)
    BY <2>4, UpstreamAcceptsOK, Zenon
  <2>5. CASE \E g \in Forwarders : UpstreamRefuses(g)
    BY <2>5, UpstreamRefusesOK, Zenon
  <2>6. QED
    BY <1>4, <2>1, <2>2, <2>3, <2>4, <2>5, Zenon DEF Resumes
<1>5. CASE \E x \in Subscribers \cup Channels, t \in Tracks, g \in Forwarders :
              FirstSortie(x, t, g) \/ LaterSortie(x, t, g)
  BY <1>5, FirstSortieOK, LaterSortieOK, Zenon
<1>6. CASE \E t \in Tracks, f \in Forwarders : Publish(t, f)
  BY <1>6, PublishOK, Zenon
<1>7. CASE \E k \in ticket : PublishRegistered(k)
  BY <1>7, PublishRegisteredOK, Zenon
<1>8. CASE \E s \in Subscribers, t \in Tracks, f \in Forwarders, ok \in BOOLEAN : FanoutClaims(s, t, f, ok)
  BY <1>8, FanoutClaimsOK, Zenon
<1>9. CASE \E f \in Forwarders : FanoutWired(f)
  BY <1>9, FanoutWiredOK, Zenon
<1>10. CASE \E f \in Forwarders, late \in BOOLEAN : FanoutFails(f, late) \/ PublishDone(f, late)
  BY <1>10, SourceEndsOK, Zenon
<1>11. CASE \E f \in Forwarders, x \in Subscribers \cup Channels : RemoveSubscriber(f, x)
  BY <1>11, RemoveSubscriberOK, Zenon
<1>12. QED
  BY <1>1, <1>2, <1>3, <1>4, <1>5, <1>6, <1>7, <1>8, <1>9, <1>10, <1>11, Zenon DEF Next
-----------------------------------------------------------------------------
\* The inductive invariant holds in every behaviour of one iothread's
\* forwarder table and the coroutines that use it.
THEOREM LocalInvariance == Spec => []IInv
BY InitOK, StepOK, PTL DEF Spec

\* Every field keeps its type: what is parked is a real forwarder.
THEOREM LocalTypeCorrect == Spec => []TypeOK
<1>1. IInv => TypeOK
  BY Zenon DEF IInv
<1>2. QED
  BY <1>1, LocalInvariance, PTL

\* The invariant holds the open claim of every pending entry.
LEMMA ClaimOfPending == ASSUME IInv PROVE PendingIsClaimed
<1> SUFFICES ASSUME NEW t \in Tracks, loc.entry[t].ready # 0
             PROVE  /\ \E f \in Forwarders : f = loc.entry[t].fwd /\ claim[f] = "open"
                    /\ loc.promise[loc.entry[t].ready] = "pending"
  BY Zenon DEF PendingIsClaimed, IsPending
<1>1. /\ loc.entry[t].fwd # 0 /\ claim[loc.entry[t].fwd] = "open"
      /\ loc.promise[loc.entry[t].ready] = "pending"
  BY Zenon DEF IInv, LocalOK, PendingOK
<1>2. loc.entry[t].fwd \in Forwarders
  BY <1>1, LocalAssumption, SMTT(30) DEF IInv, LocalOK, LocalRegistry, LocalEntry, Forwarders
<1>3. QED
  BY <1>1, <1>2, Zenon

\* A pending entry always has an open claim that owes its resolution.
THEOREM PendingAlwaysClaimed == Spec => []PendingIsClaimed
<1>1. IInv => PendingIsClaimed
  BY ClaimOfPending, Zenon
<1>2. QED
  BY <1>1, LocalInvariance, PTL

\* A waiting SUBSCRIBE is never left with a promise nobody will settle.
THEOREM NobodyStranded == Spec => []NoStrandedWaiter
<1>1. IInv => NoStrandedWaiter
  <2> SUFFICES ASSUME IInv, NEW s \in Subscribers, req[s].phase = "waiting"
               PROVE  \/ loc.promise[req[s].at] \in {"value", "exception"}
                      \/ /\ loc.entry[req[s].track].ready = req[s].at
                         /\ \E f \in Forwarders : f = loc.entry[req[s].track].fwd /\ claim[f] = "open"
    BY Zenon DEF NoStrandedWaiter
  <2> DEFINE p == req[s].at
             t == req[s].track
  <2>1. p \in Forwarders /\ Home[p] = t /\ loc.promise[p] # "none" /\ t \in Tracks
    BY Zenon DEF IInv, ReqOK, TypeOK, Request
  <2>2. loc.promise[p] \in {"pending", "value", "exception"}
    BY <2>1, ZenonT(30) DEF IInv, LocalOK, LocalRegistry, PromisesOK, PromiseStates
  <2>3. CASE loc.promise[p] = "pending"
    <3>1. loc.entry[t].ready = p /\ p # 0
      BY <2>1, <2>3, LocalAssumption, SMTT(60) DEF IInv, LocalOK, PromisesOK, Forwarders
    <3>2. \E f \in Forwarders : f = loc.entry[t].fwd /\ claim[f] = "open"
      <4> HIDE DEF p, t
      <4>1. QED
        BY <2>1, <3>1, ClaimOfPending, ZenonT(30) DEF PendingIsClaimed, IsPending
    <3>3. QED
      BY <3>1, <3>2, Zenon
  <2>4. QED
    BY <2>2, <2>3, Zenon
<1>2. QED
  BY <1>1, LocalInvariance, PTL

\* No promise is settled twice.
THEOREM PromisesSettledOnce == Spec => []SettledOnce
<1>1. IInv => SettledOnce
  BY Zenon DEF IInv, LocalOK, PromisesOK, SettledOnce
<1>2. QED
  BY <1>1, LocalInvariance, PTL

\* A served subscriber is on a forwarder whose initial state is set.
THEOREM AlwaysServedWithState == Spec => []ServedWithState
<1>1. IInv => ServedWithState
  BY Zenon DEF IInv, ReqOK, ServedWithState
<1>2. QED
  BY <1>1, LocalInvariance, PTL

\* Park tickets and parked forwarders always correspond.
THEOREM TicketsAlwaysMatch == Spec => []TicketsMatchParked
<1>1. IInv => TicketsMatchParked
  BY Zenon DEF IInv
<1>2. QED
  BY <1>1, LocalInvariance, PTL

-----------------------------------------------------------------------------
(***************************************************************************)
(* Nothing an older forwarder of a track does vacates the entry of a newer *)
(* one, with any number of tracks, forwarders and subscribers: the action  *)
(* property OnlyItsOwn of LocalSetups.                                     *)
(***************************************************************************)
\* The table L becomes M, and only forwarders of S lose their entries.
VacatedBy(L, M, S) ==
    /\ \A t \in Tracks : L.entry[t].fwd # 0 /\ M.entry[t].fwd = 0 => L.entry[t].fwd \in S
    /\ \A t \in Tracks : L.entry[t].fwd # 0 /\ M.entry[t].fwd # 0 => M.entry[t].fwd = L.entry[t].fwd
    /\ \A t \in Tracks : L.entry[t].fwd = 0 => M.entry[t].fwd = 0

Entries(L) == L.entry \in [Tracks -> LocalEntry]

\* remove and fail take the entry of their own forwarder at most; markReady
\* takes none.
LEMMA MethodsVacate ==
    ASSUME NEW L, Entries(L), NEW t \in Tracks, NEW f
    PROVE  /\ Entries(remove(L, t, f)) /\ VacatedBy(L, remove(L, t, f), {f})
           /\ Entries(fail(L, t, f)) /\ VacatedBy(L, fail(L, t, f), {f})
           /\ Entries(markReady(L, t, f)) /\ VacatedBy(L, markReady(L, t, f), {})
<1>1. Absent \in LocalEntry /\ Absent.fwd = 0
  BY LocalAssumption, SMTT(30) DEF Absent, LocalEntry
<1>2. Entries(Erase(L, t)) /\ (L.entry[t].fwd = f => VacatedBy(L, Erase(L, t), {f}))
  <2>1. Erase(L, t).entry = [L.entry EXCEPT ![t] = Absent]
    BY Zenon DEF Erase
  <2> QED BY <1>1, <2>1, Zenon DEF Entries, VacatedBy
<1>3. VacatedBy(L, L, {}) /\ VacatedBy(L, L, {f})
  BY Zenon DEF VacatedBy
<1>4. Entries(markReady(L, t, f)) /\ VacatedBy(L, markReady(L, t, f), {})
  <2>1. CASE PendingOwnedBy(L, t, f)
    <3> DEFINE e == [fwd |-> L.entry[t].fwd, ready |-> 0]
    <3>1. markReady(L, t, f).entry = [L.entry EXCEPT ![t] = e]
      BY <2>1, Zenon DEF markReady
    <3>2. e \in LocalEntry /\ e.fwd = L.entry[t].fwd
      BY LocalAssumption, SMTT(30) DEF Entries, LocalEntry
    <3> HIDE DEF e
    <3> QED BY <3>1, <3>2, Zenon DEF Entries, VacatedBy
  <2>2. CASE ~ PendingOwnedBy(L, t, f)
    BY <1>3, <2>2, Zenon DEF markReady
  <2> QED BY <2>1, <2>2, Zenon
<1> QED BY <1>2, <1>3, <1>4, Zenon DEF remove, fail, PendingOwnedBy

\* Two changes of the table in a row.
LEMMA VacatedTwice ==
    ASSUME NEW L, NEW M, NEW N, NEW S, NEW T, VacatedBy(L, M, S), VacatedBy(M, N, T)
    PROVE  VacatedBy(L, N, S \cup T)
  BY Zenon DEF VacatedBy

\* The callbacks of forwarder f take its own entry at most, and a forwarder
\* that still has subscribers keeps it when one leaves.
LEMMA EmptyVacates ==
    ASSUME NEW L, Entries(L), NEW F \in [Forwarders -> LocalForwarder], NEW f \in Forwarders
    PROVE  Entries(OnEmpty(L, F, f)) /\ VacatedBy(L, OnEmpty(L, F, f), {f})
<1>1. F[f].track \in Tracks
  BY Zenon DEF LocalForwarder
<1>2. VacatedBy(L, L, {f})
  BY Zenon DEF VacatedBy
<1> QED BY <1>1, <1>2, MethodsVacate, Zenon DEF OnEmpty

\* A subscriber that leaves vacates at most its own forwarder's entry.
LEMMA LeaveVacates ==
    ASSUME NEW L, Entries(L), NEW F \in [Forwarders -> LocalForwarder], NEW f \in Forwarders, NEW x
    PROVE  /\ Entries(AfterLeave(L, F, f, x))
           /\ VacatedBy(L, AfterLeave(L, F, f, x), IF F[f].subs = {x} THEN {f} ELSE {})
<1>1. VacatedBy(L, L, {})
  BY Zenon DEF VacatedBy
<1> QED BY <1>1, EmptyVacates, Zenon DEF AfterLeave

\* The end of a forwarder vacates at most its own entry.
LEMMA DoneVacates ==
    ASSUME NEW L, Entries(L), NEW F \in [Forwarders -> LocalForwarder], NEW f \in Forwarders, NEW late
    PROVE  Entries(AfterDone(L, F, f, late)) /\ VacatedBy(L, AfterDone(L, F, f, late), {f})
<1> DEFINE M == IF F[f].wired THEN remove(L, F[f].track, f) ELSE L
<1>1. F[f].track \in Tracks /\ VacatedBy(L, L, {f})
  BY Zenon DEF LocalForwarder, VacatedBy
<1>2. Entries(M) /\ VacatedBy(L, M, {f})
  BY <1>1, MethodsVacate, Zenon
<1>3. AfterDone(L, F, f, late) = IF late \/ F[f].subs = {} THEN M ELSE OnEmpty(M, F, f)
  BY Zenon DEF AfterDone
<1> HIDE DEF M
<1>4. Entries(OnEmpty(M, F, f)) /\ VacatedBy(M, OnEmpty(M, F, f), {f})
  BY <1>2, EmptyVacates, Zenon
<1>5. VacatedBy(L, OnEmpty(M, F, f), {f} \cup {f})
  BY <1>2, <1>4, VacatedTwice, Zenon
<1>6. {f} \cup {f} = {f}
  BY Zenon
<1> QED BY <1>2, <1>3, <1>4, <1>5, <1>6, Zenon

\* What OnlyItsOwn asks of a step.
Excused(f) == fwd'[f].done \/ fwd'[f].subs = {} \/ (claim[f] = "open" /\ claim'[f] = "resolved")

OwnStep == \A t \in Tracks, f \in Forwarders :
              loc.entry[t].fwd = f /\ loc'.entry[t].fwd = 0 => Excused(f)

\* A step that takes only entries of forwarders that excuse it.
LEMMA OwnVacated ==
    ASSUME NEW S, VacatedBy(loc, loc', S), \A f \in S : Excused(f)
    PROVE  OwnStep
<1>1. ASSUME NEW t \in Tracks, NEW f \in Forwarders, loc.entry[t].fwd = f, loc'.entry[t].fwd = 0
      PROVE  f \in S
  <2>1. f # 0
    BY LocalAssumption, SMTT(30) DEF Forwarders
  <2> QED BY <1>1, <2>1, Zenon DEF VacatedBy
<1> QED BY <1>1, Zenon DEF OwnStep

\* A step that puts a new forwarder in an entry and then vacates none.
LEMMA OwnInstalled ==
    ASSUME NEW t \in Tracks, NEW f \in Forwarders, Entries(loc), NEW park, NEW inherited,
           NEW M, M = makePending(loc, t, f, park, inherited),
           loc' = M \/ loc' = markReady(M, t, f)
    PROVE  OwnStep
<1>1. f # 0
  BY LocalAssumption, SMTT(30) DEF Forwarders
<1>2. M.entry = [loc.entry EXCEPT ![t] = [fwd |-> f, ready |-> IF inherited # 0 THEN inherited ELSE f]]
  BY Zenon DEF makePending
<1>3. M.entry[t].fwd = f /\ \A s \in Tracks \ {t} : M.entry[s] = loc.entry[s]
  BY <1>2 DEF Entries
<1>4. \A s \in Tracks : loc'.entry[s].fwd = M.entry[s].fwd
  <2>1. CASE ~ PendingOwnedBy(M, t, f) \/ loc' = M
    BY <2>1, Zenon DEF markReady
  <2>2. CASE PendingOwnedBy(M, t, f) /\ loc' = markReady(M, t, f)
    <3>1. loc'.entry = [M.entry EXCEPT ![t] = [fwd |-> M.entry[t].fwd, ready |-> 0]]
      BY <2>2, Zenon DEF markReady
    <3>2. DOMAIN M.entry = Tracks
      BY <1>2, Zenon DEF Entries
    <3> QED BY <3>1, <3>2
  <2> QED BY <2>1, <2>2, Zenon
<1>5. ASSUME NEW s \in Tracks, NEW g \in Forwarders, loc.entry[s].fwd = g, loc'.entry[s].fwd = 0
      PROVE  FALSE
  <2>1. g # 0
    BY LocalAssumption DEF Forwarders
  <2> QED BY <1>1, <1>3, <1>4, <1>5, <2>1, Zenon
<1> QED BY <1>5, Zenon DEF OwnStep

\* What leaving and draining do to the forwarders.
LEMMA LeaveChanges ==
    ASSUME NEW F \in [Forwarders -> LocalForwarder], NEW f \in Forwarders, NEW x
    PROVE  /\ WithoutSub(F, f, x)[f].subs = F[f].subs \ {x}
           /\ \A g \in Forwarders \ {f} : WithoutSub(F, f, x)[g] = F[g]
<1>1. /\ WithoutSub(F, f, x)[f] = [F[f] EXCEPT !.subs = @ \ {x}]
      /\ \A g \in Forwarders \ {f} : WithoutSub(F, f, x)[g] = F[g]
  BY Zenon DEF WithoutSub
<1>2. [F[f] EXCEPT !.subs = @ \ {x}].subs = F[f].subs \ {x}
  BY Zenon DEF LocalForwarder
<1> QED BY <1>1, <1>2, Zenon

\* Draining a forwarder leaves the others alone.
LEMMA DrainChanges ==
    ASSUME NEW F \in [Forwarders -> LocalForwarder], NEW f \in Forwarders, NEW late
    PROVE  Drained(F, f, late)[f].done /\ \A g \in Forwarders \ {f} : Drained(F, f, late)[g] = F[g]
  BY Zenon DEF Drained

\* The types the steps below use.
LEMMA LocalTypes ==
    ASSUME IInv
    PROVE  /\ Entries(loc) /\ fwd \in [Forwarders -> LocalForwarder]
           /\ \A f \in Forwarders : fwd[f].track \in Tracks
           /\ \A s \in Subscribers : req[s].direct # 0 => req[s].direct \in Forwarders
<1>1. loc \in LocalRegistry /\ fwd \in [Forwarders -> LocalForwarder] /\ req \in [Subscribers -> Request]
  BY Zenon DEF IInv, TypeOK
<1>2. \A s \in Subscribers : req[s].direct \in 0 .. MaxForwarder
  BY <1>1, Zenon DEF Request
<1> QED BY <1>1, <1>2, LocalAssumption DEF LocalRegistry, LocalForwarder, Entries, Forwarders

\* The direct subscription of a set-up takes an entry only if it was the last.
LEMMA DirectVacates ==
    ASSUME IInv, NEW s \in Subscribers
    PROVE  /\ Entries(DirectLeft(loc, s)) /\ DirectRemoved(s) \in [Forwarders -> LocalForwarder]
           /\ \E S \in SUBSET Forwarders : /\ VacatedBy(loc, DirectLeft(loc, s), S)
                                           /\ \A g \in S : DirectRemoved(s)[g].subs = {}
           /\ \A g \in Forwarders : fwd[g].subs = {} => DirectRemoved(s)[g].subs = {}
<1> DEFINE d == req[s].direct
<1>1. Entries(loc) /\ fwd \in [Forwarders -> LocalForwarder] /\ (d # 0 => d \in Forwarders)
  BY LocalTypes, Zenon
<1>2. VacatedBy(loc, loc, {})
  BY Zenon DEF VacatedBy
<1>3. CASE d = 0
  <2>1. DirectLeft(loc, s) = loc /\ DirectRemoved(s) = fwd
    BY <1>3, Zenon DEF DirectLeft, DirectRemoved
  <2> QED BY <1>1, <1>2, <2>1
<1>4. CASE d # 0
  <2>1. DirectRemoved(s) = WithoutSub(fwd, d, s) /\ d \in Forwarders
    BY <1>1, <1>4, Zenon DEF DirectRemoved
  <2>2. DirectRemoved(s) \in [Forwarders -> LocalForwarder]
    BY <1>1, <2>1, SubsChange, SMTT(30) DEF SameTracks
  <2>3. /\ DirectRemoved(s)[d].subs = fwd[d].subs \ {s}
        /\ \A g \in Forwarders \ {d} : DirectRemoved(s)[g] = fwd[g]
    BY <1>1, <2>1, LeaveChanges, SMTT(30)
  <2>4. CASE s \notin fwd[d].subs
    <3>1. DirectLeft(loc, s) = loc
      BY <2>4, Zenon DEF DirectLeft
    <3>2. \E S \in SUBSET Forwarders : VacatedBy(loc, loc, S) /\ \A g \in S : DirectRemoved(s)[g].subs = {}
      BY <1>2
    <3>3. \A g \in Forwarders : fwd[g].subs = {} => DirectRemoved(s)[g].subs = {}
      BY <2>3, Zenon
    <3> QED BY <1>1, <2>2, <3>1, <3>2, <3>3, Zenon
  <2>5. CASE s \in fwd[d].subs
    <3>1. DirectLeft(loc, s) = AfterLeave(loc, fwd, d, s)
      BY <1>4, <2>5, Zenon DEF DirectLeft
    <3>2. /\ Entries(DirectLeft(loc, s))
          /\ VacatedBy(loc, DirectLeft(loc, s), IF fwd[d].subs = {s} THEN {d} ELSE {})
      <4>1. /\ Entries(AfterLeave(loc, fwd, d, s))
            /\ VacatedBy(loc, AfterLeave(loc, fwd, d, s), IF fwd[d].subs = {s} THEN {d} ELSE {})
        <5> HIDE DEF d
        <5> QED BY <1>1, <2>1, LeaveVacates, ZenonT(60)
      <4> QED BY <3>1, <4>1, Zenon
    <3>3. CASE fwd[d].subs = {s}
      <4>1. VacatedBy(loc, DirectLeft(loc, s), {d}) /\ DirectRemoved(s)[d].subs = {} /\ {d} \in SUBSET Forwarders
        BY <2>1, <2>3, <3>2, <3>3, Zenon
      <4> QED BY <2>2, <2>3, <3>2, <4>1, Zenon
    <3>4. CASE fwd[d].subs # {s}
      <4>1. VacatedBy(loc, DirectLeft(loc, s), {})
        BY <3>2, <3>4, Zenon
      <4> QED BY <2>2, <2>3, <3>2, <4>1, SMTT(30)
    <3> QED BY <3>3, <3>4, Zenon
  <2> QED BY <2>4, <2>5, Zenon
<1> QED BY <1>3, <1>4, Zenon

\* A set-up that is abandoned or fails.
LEMMA SetupEndsOwn ==
    ASSUME IInv, NEW s \in Subscribers, NEW late \in BOOLEAN, SetupAbandoned(s) \/ SetupFails(s, late)
    PROVE  OwnStep
<1> DEFINE f == req[s].at
           D == DirectLeft(loc, s)
           R == DirectRemoved(s)
           t == req[s].track
           E == AfterDone(D, fwd, f, late)
<1>1. req[s].phase \in InSetup
  BY ZenonT(30) DEF SetupAbandoned, SetupFails, InSetup
<1>2. f \in Forwarders /\ t \in Tracks /\ fwd \in [Forwarders -> LocalForwarder]
  BY <1>1, SetupFacts, Zenon
<1>3. /\ Entries(D) /\ R \in [Forwarders -> LocalForwarder]
      /\ \A g \in Forwarders : fwd[g].subs = {} => R[g].subs = {}
  BY DirectVacates, Zenon
<1>4. PICK S \in SUBSET Forwarders : VacatedBy(loc, D, S) /\ \A g \in S : R[g].subs = {}
  BY DirectVacates, Zenon
<1>5. CASE SetupAbandoned(s)
  <2>1. fwd[f].subs = {} /\ loc' = fail(D, t, f) /\ fwd' = R
    BY <1>5, ZenonT(60) DEF SetupAbandoned
  <2> HIDE DEF D, R, t, f
  <2>2. VacatedBy(D, loc', {f})
    BY <1>2, <1>3, <2>1, MethodsVacate, ZenonT(60)
  <2>3. VacatedBy(loc, loc', S \cup {f})
    BY <1>4, <2>2, VacatedTwice, Zenon
  <2>4. \A g \in S \cup {f} : Excused(g)
    BY <1>2, <1>3, <1>4, <2>1, Zenon DEF Excused
  <2> QED BY <2>3, <2>4, OwnVacated, Zenon
<1>6. CASE SetupFails(s, late)
  <2>1. loc' = fail(E, t, f) /\ fwd' = Drained(R, f, late)
    BY <1>6, ZenonT(60) DEF SetupFails
  <2>2. Entries(E) /\ VacatedBy(D, E, {f})
    BY <1>2, <1>3, DoneVacates, Zenon
  <2> HIDE DEF D, R, t, f, E
  <2>3. VacatedBy(E, loc', {f})
    BY <1>2, <2>1, <2>2, MethodsVacate, Zenon
  <2>4. VacatedBy(loc, E, S \cup {f})
    BY <1>4, <2>2, VacatedTwice, Zenon
  <2>5. VacatedBy(loc, loc', (S \cup {f}) \cup {f})
    BY <2>3, <2>4, VacatedTwice, Zenon
  <2>6. fwd'[f].done /\ \A g \in Forwarders \ {f} : fwd'[g] = R[g]
    BY <1>2, <1>3, <2>1, DrainChanges, SMTT(30)
  <2>7. \A g \in (S \cup {f}) \cup {f} : Excused(g)
    BY <1>4, <2>6, Zenon DEF Excused
  <2> QED BY <2>5, <2>7, OwnVacated, Zenon
<1> QED BY <1>5, <1>6, Zenon

\* A forwarder ends.
LEMMA DoneOwn ==
    ASSUME IInv, NEW f \in Forwarders, NEW late \in BOOLEAN,
           FanoutFails(f, late) \/ PublishDone(f, late)
    PROVE  OwnStep
<1>1. Entries(loc) /\ fwd \in [Forwarders -> LocalForwarder]
  BY LocalTypes, Zenon
<1>2. loc' = AfterDone(loc, fwd, f, late) /\ fwd' = Drained(fwd, f, late)
  BY Zenon DEF FanoutFails, PublishDone
<1>3. VacatedBy(loc, loc', {f})
  BY <1>1, <1>2, DoneVacates, Zenon
<1>4. fwd'[f].done
  BY <1>1, <1>2, DrainChanges, Zenon
<1>5. \A g \in {f} : Excused(g)
  BY <1>4, Zenon DEF Excused
<1> QED BY <1>3, <1>5, OwnVacated, SMTT(30)

\* A forwarder loses a subscriber, because it leaves or because its set-up
\* found a publisher on this thread.
LEMMA LeaveOwn ==
    ASSUME IInv, NEW f \in Forwarders, NEW x, NEW M, M = AfterLeave(loc, fwd, f, x),
           fwd' = WithoutSub(fwd, f, x),
           loc' = M \/ \E t \in Tracks : loc' = markReady(M, t, f)
    PROVE  OwnStep
<1> DEFINE S == IF fwd[f].subs = {x} THEN {f} ELSE {}
<1>1. Entries(loc) /\ fwd \in [Forwarders -> LocalForwarder]
  BY LocalTypes, Zenon
<1>2. Entries(M) /\ VacatedBy(loc, M, S)
  BY <1>1, LeaveVacates, ZenonT(60)
<1>3. fwd'[f].subs = fwd[f].subs \ {x}
  BY <1>1, LeaveChanges, SMTT(60)
<1>4. \A g \in S : Excused(g)
  BY <1>3, Zenon DEF Excused
<1> HIDE DEF S
<1>5. VacatedBy(M, loc', {})
  <2>1. VacatedBy(M, M, {})
    BY Zenon DEF VacatedBy
  <2> QED BY <1>2, <2>1, MethodsVacate, ZenonT(60)
<1>6. VacatedBy(loc, loc', S \cup {})
  BY <1>2, <1>5, VacatedTwice, Zenon
<1> QED BY <1>4, <1>6, OwnVacated, Zenon

\* A set-up succeeds.
LEMMA SetupSucceedsOwn ==
    ASSUME IInv, NEW s \in Subscribers, SetupSucceeds(s) \/ SetupSucceedsDirect(s)
    PROVE  OwnStep
<1>1. req[s].phase \in InSetup
  BY Zenon DEF SetupSucceeds, SetupSucceedsDirect, InSetup
<1>2. req[s].track \in Tracks /\ req[s].at \in Forwarders /\ Entries(loc)
  BY <1>1, SetupFacts, LocalTypes, Zenon
<1>3. CASE SetupSucceeds(s)
  <2>1. VacatedBy(loc, loc', {})
    BY <1>2, <1>3, MethodsVacate, Zenon DEF SetupSucceeds
  <2> QED BY <2>1, OwnVacated, SMTT(60)
<1>4. CASE SetupSucceedsDirect(s)
  <2>1. /\ fwd' = WithoutSub(fwd, req[s].at, s)
        /\ loc' = markReady(AfterLeave(loc, fwd, req[s].at, s), req[s].track, req[s].at)
    BY <1>4, Zenon DEF SetupSucceedsDirect
  <2> QED BY <1>2, <2>1, LeaveOwn, Zenon
<1> QED BY <1>3, <1>4, Zenon

\* The upstream answers.
LEMMA AcceptsOwn ==
    ASSUME IInv, NEW g \in Forwarders, NEW replaced \in BOOLEAN, UpstreamAccepts(g, replaced)
    PROVE  OwnStep
<1>1. fwd[g].track \in Tracks /\ Entries(loc)
  BY LocalTypes, Zenon
<1>2. VacatedBy(loc, loc', {})
  BY <1>1, MethodsVacate, ZenonT(60) DEF UpstreamAccepts
<1> QED BY <1>2, OwnVacated, SMTT(30)

\* An upstream that refuses ends the set-up of its own forwarder only.
LEMMA RefusesOwn ==
    ASSUME IInv, NEW g \in Forwarders, UpstreamRefuses(g)
    PROVE  OwnStep
<1>1. fwd[g].track \in Tracks /\ Entries(loc) /\ claim \in [Forwarders -> {"none", "open", "resolved"}]
  BY LocalTypes, Zenon DEF IInv, TypeOK
<1>2. VacatedBy(loc, loc', {g})
  BY <1>1, MethodsVacate, Zenon DEF UpstreamRefuses
<1>3. \A h \in {g} : Excused(h)
  BY <1>1, Zenon DEF Excused, UpstreamRefuses
<1> QED BY <1>2, <1>3, OwnVacated, SMTT(60)

\* A PUBLISH passed on makes a forwarder where there was none, and gives it up
\* again if it could not start.
LEMMA FanoutOwn ==
    ASSUME IInv, NEW s \in Subscribers, NEW t \in Tracks, NEW f \in Forwarders, NEW ok \in BOOLEAN,
           FanoutClaims(s, t, f, ok)
    PROVE  OwnStep
<1> DEFINE M == makePending(loc, t, f, FALSE, 0)
           L == markReady(M, t, f)
<1>1. Entries(loc) /\ f # 0
  BY LocalTypes, LocalAssumption, SMTT(30) DEF Forwarders
<1>2. loc' = (IF ok THEN L ELSE remove(L, t, f)) /\ loc.entry[t].fwd = 0
  BY Zenon DEF FanoutClaims, join, IsAbsent
<1>3. CASE ok
  BY <1>1, <1>2, <1>3, OwnInstalled, ZenonT(60)
<1>4. CASE ~ ok
  <2>1. M.entry = [loc.entry EXCEPT ![t] = [fwd |-> f, ready |-> f]]
    BY Zenon DEF makePending
  <2>2. [fwd |-> f, ready |-> f] \in LocalEntry
    BY LocalAssumption, SMTT(30) DEF LocalEntry, Forwarders
  <2>3. Entries(M) /\ M.entry[t].fwd = f /\ \A u \in Tracks \ {t} : M.entry[u] = loc.entry[u]
    <3> DEFINE e == [fwd |-> f, ready |-> f]
    <3>1. e \in LocalEntry /\ e.fwd = f /\ M.entry = [loc.entry EXCEPT ![t] = e]
      BY <2>1, <2>2, ZenonT(60)
    <3> HIDE DEF e, M
    <3> QED BY <1>1, <3>1, Zenon DEF Entries
  <2> HIDE DEF M
  <2>4. Entries(L) /\ VacatedBy(M, L, {})
    BY <2>3, MethodsVacate, ZenonT(60)
  <2> HIDE DEF L
  <2>5. L.entry[t].fwd = f
    BY <1>1, <2>3, <2>4, Zenon DEF VacatedBy
  <2>6. loc' = Erase(L, t)
    BY <1>2, <1>4, <2>5, Zenon DEF remove
  <2>7. loc'.entry = [L.entry EXCEPT ![t] = Absent]
    BY <2>6, Zenon DEF Erase
  <2>8. ASSUME NEW u \in Tracks, loc.entry[u].fwd # 0 PROVE loc'.entry[u].fwd # 0
    <3>1. u # t
      BY <1>2, <2>8, Zenon
    <3>2. M.entry[u].fwd # 0 /\ loc'.entry[u] = L.entry[u]
      BY <2>3, <2>4, <2>7, <2>8, <3>1, ZenonT(60) DEF Entries
    <3> QED BY <2>4, <3>2, Zenon DEF VacatedBy
  <2>9. 0 \notin Forwarders
    BY LocalAssumption DEF Forwarders
  <2> QED BY <2>8, <2>9, Zenon DEF OwnStep
<1> QED BY <1>3, <1>4, Zenon

\* Every step leaves the entries of other forwarders alone.
LEMMA StepOwn == ASSUME IInv, Next PROVE OwnStep
<1>1. ASSUME loc'.entry = loc.entry PROVE OwnStep
  <2>1. VacatedBy(loc, loc', {})
    BY <1>1, Zenon DEF VacatedBy
  <2> QED BY <2>1, OwnVacated
<1>2. ASSUME NEW s \in Subscribers, NEW t \in Tracks, NEW f \in Forwarders, SubscribeClaims(s, t, f)
      PROVE  OwnStep
  <2>1. loc' = makePending(loc, t, f, FALSE, 0) /\ Entries(loc)
    BY <1>2, LocalTypes, Zenon DEF SubscribeClaims, join
  <2> QED BY <2>1, OwnInstalled, Zenon
<1>3. ASSUME NEW x \in Subscribers \cup Channels, NEW t \in Tracks, NEW g \in Forwarders,
             FirstSortie(x, t, g)
      PROVE  OwnStep
  <2>1. loc' = makePending(loc, t, g, FALSE, loc.entry[t].ready) /\ Entries(loc)
    BY <1>3, LocalTypes, Zenon DEF FirstSortie, replaceImpl
  <2> QED BY <2>1, OwnInstalled, ZenonT(60)
<1>4. ASSUME NEW t \in Tracks, NEW f \in Forwarders, Publish(t, f) PROVE OwnStep
  <2>1. loc' = markReady(makePending(loc, t, f, TRUE, loc.entry[t].ready), t, f) /\ Entries(loc)
    BY <1>4, LocalTypes, Zenon DEF Publish, replaceImpl
  <2> QED BY <2>1, OwnInstalled, ZenonT(60)
<1>5. ASSUME Resumes PROVE OwnStep
  <2>1. ASSUME NEW s \in Subscribers, NEW f \in 0 .. MaxForwarder, WaiterResumes(s, f) PROVE OwnStep
    BY <1>1, <2>1, Zenon DEF WaiterResumes
  <2>2. ASSUME NEW s \in Subscribers, SetupAbandoned(s) PROVE OwnStep
    BY <2>2, SetupEndsOwn, ZenonT(60)
  <2>3. ASSUME NEW s \in Subscribers, NEW late \in BOOLEAN, SetupFails(s, late) PROVE OwnStep
    BY <2>3, SetupEndsOwn, Zenon
  <2>4. ASSUME NEW s \in Subscribers, SetupSucceeds(s) \/ SetupSucceedsDirect(s) PROVE OwnStep
    BY <2>4, SetupSucceedsOwn, Zenon
  <2>5. ASSUME NEW g \in Forwarders, NEW replaced \in BOOLEAN, UpstreamAccepts(g, replaced) PROVE OwnStep
    BY <2>5, AcceptsOwn, Zenon
  <2>6. ASSUME NEW g \in Forwarders, UpstreamRefuses(g) PROVE OwnStep
    BY <2>6, RefusesOwn, Zenon
  <2> QED BY <1>5, <2>1, <2>2, <2>3, <2>4, <2>5, <2>6, Zenon DEF Resumes
<1>6. ASSUME NEW s \in Subscribers, NEW t \in Tracks, NEW f \in Forwarders, NEW ok \in BOOLEAN,
             FanoutClaims(s, t, f, ok)
      PROVE  OwnStep
  BY <1>6, FanoutOwn, Zenon
<1>7. ASSUME NEW f \in Forwarders, NEW late \in BOOLEAN, FanoutFails(f, late) \/ PublishDone(f, late)
      PROVE  OwnStep
  BY <1>7, DoneOwn, Zenon
<1>8. ASSUME NEW f \in Forwarders, NEW x \in Subscribers \cup Channels, RemoveSubscriber(f, x)
      PROVE  OwnStep
  <2>1. loc' = AfterLeave(loc, fwd, f, x) /\ fwd' = WithoutSub(fwd, f, x)
    BY <1>8, ZenonT(60) DEF RemoveSubscriber
  <2> QED BY <2>1, LeaveOwn, Zenon
<1>9. ASSUME NEW k, PublishRegistered(k) PROVE OwnStep
  BY <1>1, <1>9, Zenon DEF PublishRegistered, takeDisplaced
<1>10. ASSUME UNCHANGED loc PROVE OwnStep
  BY <1>1, <1>10, Zenon
<1> QED BY <1>2, <1>3, <1>4, <1>5, <1>6, <1>7, <1>8, <1>9, <1>10, Zenon
        DEF Next, SubscribeJoins, SubscribeWaits, LaterSortie, FanoutWired

\* LocalForwarderRegistry::remove and the claims act on the entry of their own
\* forwarder: what an older forwarder of the track does never reaches a newer
\* one, whatever the order of replacements, ends and failures.
THEOREM OlderNeverReaches == Spec => OnlyItsOwn
<1>1. IInv /\ [Next]_vars =>
        [\A t \in Tracks, f \in Forwarders :
            loc.entry[t].fwd = f /\ loc'.entry[t].fwd = 0 =>
                fwd'[f].done \/ fwd'[f].subs = {} \/ (claim[f] = "open" /\ claim'[f] = "resolved")]_vars
  BY StepOwn, Zenon DEF OwnStep, Excused
<1> QED BY LocalInvariance, <1>1, PTL DEF Spec, OnlyItsOwn
=============================================================================
