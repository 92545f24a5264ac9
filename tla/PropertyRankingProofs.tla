------------------------ MODULE PropertyRankingProofs ------------------------
(***************************************************************************)
(* The ranking of tracks, for any number of tracks, sessions and groups,   *)
(* with the setting of maxDeselected_ that PropertyRanking.h supports: the *)
(* selection that a group keeps up to date one move at a time is the N     *)
(* best tracks, and the sessions that watch get those.                     *)
(***************************************************************************)
EXTENDS PropertyRanking, FiniteSetTheorems, FunctionTheorems, TLAPS

(***************************************************************************)
(* Ranks.                                                                  *)
(***************************************************************************)
\* rankedTracks_: finitely many tracks, no two with the same arrival number.
IsRanking(K) ==
    /\ IsFiniteSet(DOMAIN K)
    /\ \A t \in DOMAIN K : K[t].value \in Nat /\ K[t].seq \in Nat
    /\ \A t, u \in DOMAIN K : K[t].seq = K[u].seq => t = u

\* The tracks ranked above t; its rank is their number.
Above(K, t) == {u \in DOMAIN K : Better(K[u], K[t])}

\* The keys of ranked tracks are in a strict total order.
LEMMA KeysAreOrdered ==
    ASSUME NEW K, IsRanking(K), NEW t \in DOMAIN K, NEW u \in DOMAIN K, NEW v \in DOMAIN K
    PROVE  /\ ~ Better(K[t], K[t])
           /\ Better(K[t], K[u]) => ~ Better(K[u], K[t])
           /\ Better(K[t], K[u]) /\ Better(K[u], K[v]) => Better(K[t], K[v])
           /\ t # u => Better(K[t], K[u]) \/ Better(K[u], K[t])
<1>1. /\ K[t].value \in Nat /\ K[t].seq \in Nat /\ K[u].value \in Nat /\ K[u].seq \in Nat
      /\ K[v].value \in Nat /\ K[v].seq \in Nat /\ (t # u => K[t].seq # K[u].seq)
  BY Zenon DEF IsRanking
<1> QED BY <1>1 DEF Better

\* A rank is a number.
LEMMA RanksAreNumbers ==
    ASSUME NEW K, IsRanking(K), NEW t \in DOMAIN K
    PROVE  /\ IsFiniteSet(Above(K, t))
           /\ getCachedRank(K, t) = Cardinality(Above(K, t))
           /\ getCachedRank(K, t) \in Nat
<1>1. IsFiniteSet(DOMAIN K) /\ Above(K, t) \in SUBSET DOMAIN K
  BY Zenon DEF IsRanking, Above
<1>2. IsFiniteSet(Above(K, t))
  BY <1>1, FS_Subset, Zenon
<1>3. getCachedRank(K, t) = Cardinality(Above(K, t))
  BY Zenon DEF getCachedRank, RankIn, Above
<1> QED BY <1>2, <1>3, FS_CardinalityType, Zenon

\* What is above a better track is above the other, which has a higher rank.
LEMMA BetterIsLower ==
    ASSUME NEW K, IsRanking(K), NEW t \in DOMAIN K, NEW u \in DOMAIN K, Better(K[t], K[u])
    PROVE  getCachedRank(K, t) < getCachedRank(K, u)
<1>1. Above(K, t) \in SUBSET Above(K, u)
  BY KeysAreOrdered, Zenon DEF Above
<1>2. t \in Above(K, u) /\ t \notin Above(K, t)
  BY KeysAreOrdered, Zenon DEF Above
<1>3. /\ Cardinality(Above(K, t)) <= Cardinality(Above(K, u))
      /\ Cardinality(Above(K, u)) # Cardinality(Above(K, t))
  BY <1>1, <1>2, RanksAreNumbers, FS_Subset, Zenon
<1> QED BY <1>3, RanksAreNumbers

\* Ranks are in the order of the keys, and no two tracks have the same.
LEMMA RanksFollowKeys ==
    ASSUME NEW K, IsRanking(K), NEW t \in DOMAIN K, NEW u \in DOMAIN K
    PROVE  /\ Better(K[t], K[u]) <=> getCachedRank(K, t) < getCachedRank(K, u)
           /\ getCachedRank(K, t) = getCachedRank(K, u) => t = u
<1>1. Better(K[t], K[u]) => getCachedRank(K, t) < getCachedRank(K, u)
  BY BetterIsLower, Zenon
<1>2. Better(K[u], K[t]) => getCachedRank(K, u) < getCachedRank(K, t)
  BY BetterIsLower, Zenon
<1>3. t # u => Better(K[t], K[u]) \/ Better(K[u], K[t])
  BY KeysAreOrdered, Zenon
<1>4. getCachedRank(K, t) \in Nat /\ getCachedRank(K, u) \in Nat
  BY RanksAreNumbers, Zenon
<1> QED BY <1>1, <1>2, <1>3, <1>4

\* L is K and one more track, t.
OneMore(K, L, t) ==
    /\ IsRanking(K) /\ IsRanking(L)
    /\ t \notin DOMAIN K /\ DOMAIN L = DOMAIN K \cup {t}
    /\ \A u \in DOMAIN K : L[u] = K[u]

\* One more track moves those below it by one.
LEMMA RankWithOneMore ==
    ASSUME NEW K, NEW L, NEW t, OneMore(K, L, t), NEW u \in DOMAIN K
    PROVE  getCachedRank(L, u) = IF Better(L[t], L[u]) THEN getCachedRank(K, u) + 1 ELSE getCachedRank(K, u)
<1>1. Above(L, u) = IF Better(L[t], L[u]) THEN Above(K, u) \cup {t} ELSE Above(K, u)
  BY Zenon DEF OneMore, Above
<1>2. t \notin Above(K, u) /\ u \in DOMAIN L /\ IsRanking(K) /\ IsRanking(L)
  BY Zenon DEF OneMore, Above
<1>3. /\ IsFiniteSet(Above(K, u)) /\ getCachedRank(K, u) = Cardinality(Above(K, u))
      /\ getCachedRank(L, u) = Cardinality(Above(L, u))
  BY <1>2, RanksAreNumbers, Zenon
<1>4. Cardinality(Above(K, u) \cup {t}) = Cardinality(Above(K, u)) + 1
  BY <1>2, <1>3, FS_AddElement, Zenon
<1> QED BY <1>1, <1>3, <1>4, Zenon

\* L is K with the key of track t changed.
Rekeyed(K, L, t) ==
    /\ IsRanking(K) /\ IsRanking(L)
    /\ t \in DOMAIN K /\ DOMAIN L = DOMAIN K
    /\ \A u \in DOMAIN K \ {t} : L[u] = K[u]

\* A track that moves moves another by at most one, and only if it passes it.
LEMMA RankAfterMove ==
    ASSUME NEW K, NEW L, NEW t, Rekeyed(K, L, t), NEW u \in DOMAIN K, u # t
    PROVE  \/ getCachedRank(L, u) = getCachedRank(K, u)
           \/ /\ getCachedRank(L, u) = getCachedRank(K, u) + 1
              /\ Better(L[t], L[u]) /\ ~ Better(K[t], K[u])
           \/ /\ getCachedRank(K, u) = getCachedRank(L, u) + 1
              /\ Better(K[t], K[u]) /\ ~ Better(L[t], L[u])
<1> DEFINE M == [w \in DOMAIN K \ {t} |-> K[w]]
<1>1. DOMAIN M = DOMAIN K \ {t} /\ (\A w \in DOMAIN M : M[w] = K[w] /\ L[w] = K[w])
  BY Zenon DEF Rekeyed
<1> HIDE DEF M
<1>2. IsRanking(M)
  BY <1>1, FS_RemoveElement, Zenon DEF IsRanking, Rekeyed
<1>3. OneMore(M, K, t) /\ OneMore(M, L, t) /\ u \in DOMAIN M
  BY <1>1, <1>2, Zenon DEF OneMore, Rekeyed
<1>4. getCachedRank(K, u) = IF Better(K[t], K[u]) THEN getCachedRank(M, u) + 1 ELSE getCachedRank(M, u)
  BY <1>3, RankWithOneMore, Zenon
<1>5. getCachedRank(L, u) = IF Better(L[t], L[u]) THEN getCachedRank(M, u) + 1 ELSE getCachedRank(M, u)
  BY <1>3, RankWithOneMore, Zenon
<1> QED BY <1>4, <1>5

(***************************************************************************)
(* The N best, after a change of the ranking.                              *)
(***************************************************************************)
\* A new track among the N best displaces the one that is now at rank N; one
\* outside displaces nothing.
LEMMA TopAfterJoin ==
    ASSUME NEW K, NEW L, NEW t, OneMore(K, L, t), NEW n \in Nat
    PROVE  /\ getCachedRank(L, t) < n => TopN(L, n) = (TopN(K, n) \cup {t}) \ AtRank(L, n)
           /\ ~ (getCachedRank(L, t) < n) => TopN(L, n) = TopN(K, n)
<1>1. t \in DOMAIN L /\ t \notin DOMAIN K /\ DOMAIN L = DOMAIN K \cup {t} /\ IsRanking(K) /\ IsRanking(L)
  BY Zenon DEF OneMore
<1>2. getCachedRank(L, t) \in Nat
  BY <1>1, RanksAreNumbers, Zenon
<1>3. ASSUME NEW u \in DOMAIN K
      PROVE  /\ getCachedRank(K, u) \in Nat /\ getCachedRank(L, u) \in Nat
             /\ \/ getCachedRank(L, u) = getCachedRank(K, u)
                \/ /\ getCachedRank(L, u) = getCachedRank(K, u) + 1
                   /\ getCachedRank(L, t) < getCachedRank(L, u)
  <2>1. u \in DOMAIN L
    BY <1>1, Zenon
  <2>2. getCachedRank(K, u) \in Nat /\ getCachedRank(L, u) \in Nat
    BY <1>1, <2>1, RanksAreNumbers, Zenon
  <2>3. getCachedRank(L, u) = IF Better(L[t], L[u]) THEN getCachedRank(K, u) + 1 ELSE getCachedRank(K, u)
    BY RankWithOneMore, Zenon
  <2>4. Better(L[t], L[u]) => getCachedRank(L, t) < getCachedRank(L, u)
    BY <1>1, <2>1, RanksFollowKeys, Zenon
  <2> QED BY <2>2, <2>3, <2>4, Zenon
<1>4. ASSUME getCachedRank(L, t) < n
      PROVE  TopN(L, n) = (TopN(K, n) \cup {t}) \ AtRank(L, n)
  <2>1. ASSUME NEW u \in DOMAIN K
        PROVE  getCachedRank(L, u) < n <=> getCachedRank(K, u) < n /\ getCachedRank(L, u) # n
    BY <1>3
  <2>2. getCachedRank(L, t) # n
    BY <1>2, <1>4
  <2> QED BY <1>1, <1>4, <2>1, <2>2, Zenon DEF TopN, AtRank
<1>5. ASSUME ~ (getCachedRank(L, t) < n)
      PROVE  TopN(L, n) = TopN(K, n)
  <2>1. ASSUME NEW u \in DOMAIN K
        PROVE  getCachedRank(L, u) < n <=> getCachedRank(K, u) < n
    BY <1>2, <1>3, <1>5
  <2> QED BY <1>1, <1>5, <2>1, Zenon DEF TopN
<1> QED BY <1>4, <1>5

\* A track that moves into the N best displaces the one that is now at rank N;
\* one that moves out is replaced by the one that is now the last of the N; any
\* other move leaves them as they are.
LEMMA TopAfterMove ==
    ASSUME NEW K, NEW L, NEW t, Rekeyed(K, L, t), NEW n \in Nat
    PROVE  LET old == getCachedRank(K, t)
               new == getCachedRank(L, t)
           IN /\ old >= n /\ new < n => TopN(L, n) = (TopN(K, n) \cup {t}) \ AtRank(L, n)
              /\ old < n /\ new >= n =>
                     TopN(L, n) = (TopN(K, n) \ {t}) \cup (AtRank(L, n - 1) \ (TopN(K, n) \ {t}))
              /\ (old < n <=> new < n) => TopN(L, n) = TopN(K, n)
<1> DEFINE old == getCachedRank(K, t)
           new == getCachedRank(L, t)
<1>1. t \in DOMAIN L /\ t \in DOMAIN K /\ DOMAIN L = DOMAIN K /\ IsRanking(K) /\ IsRanking(L)
  BY Zenon DEF Rekeyed
<1>2. old \in Nat /\ new \in Nat
  BY <1>1, RanksAreNumbers, Zenon
<1>3. ASSUME NEW u \in DOMAIN K, u # t
      PROVE  /\ getCachedRank(K, u) \in Nat /\ getCachedRank(L, u) \in Nat
             /\ getCachedRank(K, u) # old /\ getCachedRank(L, u) # new
             /\ \/ getCachedRank(L, u) = getCachedRank(K, u)
                \/ /\ getCachedRank(L, u) = getCachedRank(K, u) + 1
                   /\ new < getCachedRank(L, u) /\ ~ (old < getCachedRank(K, u))
                \/ /\ getCachedRank(K, u) = getCachedRank(L, u) + 1
                   /\ old < getCachedRank(K, u) /\ ~ (new < getCachedRank(L, u))
  <2>1. getCachedRank(K, u) \in Nat /\ getCachedRank(L, u) \in Nat
    BY <1>1, RanksAreNumbers, Zenon
  <2>2. getCachedRank(K, u) # old /\ getCachedRank(L, u) # new
    BY <1>1, <1>3, RanksFollowKeys, Zenon
  <2>3. /\ Better(L[t], L[u]) <=> new < getCachedRank(L, u)
        /\ Better(K[t], K[u]) <=> old < getCachedRank(K, u)
    BY <1>1, RanksFollowKeys, Zenon
  <2>4. \/ getCachedRank(L, u) = getCachedRank(K, u)
        \/ /\ getCachedRank(L, u) = getCachedRank(K, u) + 1
           /\ Better(L[t], L[u]) /\ ~ Better(K[t], K[u])
        \/ /\ getCachedRank(K, u) = getCachedRank(L, u) + 1
           /\ Better(K[t], K[u]) /\ ~ Better(L[t], L[u])
    BY <1>3, RankAfterMove, Zenon
  <2> QED BY <2>1, <2>2, <2>3, <2>4, Zenon
<1> HIDE DEF old, new
<1>4. ASSUME old >= n, new < n
      PROVE  TopN(L, n) = (TopN(K, n) \cup {t}) \ AtRank(L, n)
  <2>1. ASSUME NEW u \in DOMAIN K, u # t
        PROVE  getCachedRank(L, u) < n <=> getCachedRank(K, u) < n /\ getCachedRank(L, u) # n
    BY <1>2, <1>3, <1>4, <2>1
  <2>2. new # n
    BY <1>2, <1>4
  <2> QED BY <1>1, <1>4, <2>1, <2>2, Zenon DEF TopN, AtRank, new
<1>5. ASSUME old < n, new >= n
      PROVE  TopN(L, n) = (TopN(K, n) \ {t}) \cup (AtRank(L, n - 1) \ (TopN(K, n) \ {t}))
  <2>1. ASSUME NEW u \in DOMAIN K, u # t
        PROVE  getCachedRank(L, u) < n <=> getCachedRank(K, u) < n \/ getCachedRank(L, u) = n - 1
    BY <1>2, <1>3, <1>5, <2>1
  <2>2. new # n - 1 /\ ~ (new < n)
    BY <1>2, <1>5
  <2> QED BY <1>1, <1>5, <2>1, <2>2, Zenon DEF TopN, AtRank, new
<1>6. ASSUME old < n <=> new < n
      PROVE  TopN(L, n) = TopN(K, n)
  <2>1. ASSUME NEW u \in DOMAIN K, u # t
        PROVE  getCachedRank(L, u) < n <=> getCachedRank(K, u) < n
    BY <1>2, <1>3, <1>6, <2>1
  <2> QED BY <1>1, <1>6, <2>1, Zenon DEF TopN, new, old
<1> QED BY <1>4, <1>5, <1>6 DEF old, new

\* The N best are at most N.
LEMMA TopIsBounded ==
    ASSUME NEW K, IsRanking(K), NEW n \in Nat
    PROVE  IsFiniteSet(TopN(K, n)) /\ Cardinality(TopN(K, n)) <= n
<1> DEFINE f == [t \in TopN(K, n) |-> getCachedRank(K, t)]
<1>1. \A t \in TopN(K, n) : t \in DOMAIN K /\ getCachedRank(K, t) < n
  BY Zenon DEF TopN
<1>2. \A t \in TopN(K, n) : getCachedRank(K, t) \in 0 .. n - 1
  BY <1>1, RanksAreNumbers
<1>3. \A t, u \in TopN(K, n) : getCachedRank(K, t) = getCachedRank(K, u) => t = u
  BY <1>1, RanksFollowKeys, Zenon
<1>4. f \in [TopN(K, n) -> 0 .. n - 1] /\ \A t, u \in TopN(K, n) : f[t] = f[u] => t = u
  BY <1>2, <1>3, Zenon
<1>5. f \in Injection(TopN(K, n), 0 .. n - 1)
  BY <1>4, Fun_IsInj, Zenon
<1> HIDE DEF f
<1> DEFINE size == Cardinality(0 .. n - 1)
<1>6. IsFiniteSet(0 .. n - 1) /\ size = IF 0 > n - 1 THEN 0 ELSE n - 1 - 0 + 1
  <2>1. n - 1 \in Int /\ 0 \in Int
    OBVIOUS
  <2> QED BY <2>1, FS_Interval, Zenon
<1>7. IsFiniteSet(TopN(K, n)) /\ Cardinality(TopN(K, n)) <= size
  BY <1>5, <1>6, FS_Injection, Zenon
<1> HIDE DEF size
<1>8. size = n
  BY <1>6
<1> QED BY <1>7, <1>8, Zenon

\* The best of a set of tracks.
Best(K, T) == {u \in T : \A v \in T \ {u} : Better(K[u], K[v])}

\* There is at most one.
LEMMA OneBest ==
    ASSUME NEW K, IsRanking(K), NEW T, T \subseteq DOMAIN K, NEW u \in Best(K, T), NEW v \in Best(K, T)
    PROVE  u = v
<1> SUFFICES ASSUME u # v PROVE FALSE
  BY Zenon
<1>1. Better(K[u], K[v]) /\ Better(K[v], K[u]) /\ u \in DOMAIN K /\ v \in DOMAIN K
  BY Zenon DEF Best
<1> QED BY <1>1, KeysAreOrdered, Zenon

\* The best of the tracks that are not among the N best has rank N.
LEMMA NextHasRankN ==
    ASSUME NEW K, IsRanking(K), NEW n \in Nat, NEW u \in DOMAIN K \ TopN(K, n)
    PROVE  u \in Best(K, DOMAIN K \ TopN(K, n)) <=> getCachedRank(K, u) = n
<1>1. getCachedRank(K, u) \in Nat /\ ~ (getCachedRank(K, u) < n)
  BY RanksAreNumbers, Zenon DEF TopN
<1>2. ASSUME getCachedRank(K, u) = n, NEW v \in DOMAIN K \ TopN(K, n), v # u
      PROVE  Better(K[u], K[v])
  <2>1. getCachedRank(K, v) \in Nat /\ ~ (getCachedRank(K, v) < n)
    BY RanksAreNumbers, Zenon DEF TopN
  <2>2. getCachedRank(K, v) # n
    BY <1>2, RanksFollowKeys, Zenon
  <2>3. n < getCachedRank(K, v)
    BY <2>1, <2>2
  <2> QED BY <1>2, <2>3, RanksFollowKeys, Zenon
<1>3. ASSUME u \in Best(K, DOMAIN K \ TopN(K, n))
      PROVE  getCachedRank(K, u) = n
  <2>1. ASSUME NEW v \in Above(K, u) PROVE v \in TopN(K, n)
    <3> SUFFICES ASSUME v \notin TopN(K, n) PROVE FALSE
      BY Zenon
    <3>1. v \in DOMAIN K /\ Better(K[v], K[u])
      BY Zenon DEF Above
    <3>2. v # u
      BY <3>1, KeysAreOrdered, Zenon
    <3>3. Better(K[u], K[v])
      BY <1>3, <3>1, <3>2, Zenon DEF Best
    <3> QED BY <3>1, <3>3, KeysAreOrdered, Zenon
  <2>2. Above(K, u) \in SUBSET TopN(K, n)
    BY <2>1, Zenon
  <2>3. IsFiniteSet(TopN(K, n)) /\ Cardinality(TopN(K, n)) <= n
    BY TopIsBounded, Zenon
  <2>4. Cardinality(Above(K, u)) <= Cardinality(TopN(K, n)) /\ Cardinality(TopN(K, n)) \in Nat
    BY <2>2, <2>3, FS_Subset, FS_CardinalityType, Zenon
  <2>5. getCachedRank(K, u) = Cardinality(Above(K, u))
    BY RanksAreNumbers, Zenon
  <2> QED BY <1>1, <2>3, <2>4, <2>5
<1> QED BY <1>2, <1>3, Zenon DEF Best

\* A track that goes from the N best is replaced by the best of the others; one
\* that was not among them is not.
LEMMA TopAfterLeave ==
    ASSUME NEW K, NEW L, NEW t, OneMore(K, L, t), NEW n \in Nat
    PROVE  /\ t \in TopN(L, n) => TopN(K, n) = (TopN(L, n) \ {t}) \cup Best(K, DOMAIN K \ TopN(L, n))
           /\ t \notin TopN(L, n) => TopN(K, n) = TopN(L, n)
<1>1. t \in DOMAIN L /\ t \notin DOMAIN K /\ DOMAIN L = DOMAIN K \cup {t} /\ IsRanking(K) /\ IsRanking(L)
  BY Zenon DEF OneMore
<1>2. getCachedRank(L, t) \in Nat
  BY <1>1, RanksAreNumbers, Zenon
<1>3. ASSUME NEW u \in DOMAIN K
      PROVE  /\ getCachedRank(K, u) \in Nat /\ getCachedRank(L, u) \in Nat
             /\ getCachedRank(L, u) # getCachedRank(L, t)
             /\ getCachedRank(L, u) = IF getCachedRank(L, t) < getCachedRank(L, u)
                                      THEN getCachedRank(K, u) + 1 ELSE getCachedRank(K, u)
  <2>1. u \in DOMAIN L /\ u # t
    BY <1>1, Zenon
  <2>2. getCachedRank(K, u) \in Nat /\ getCachedRank(L, u) \in Nat
    BY <1>1, <2>1, RanksAreNumbers, Zenon
  <2>3. getCachedRank(L, u) = IF Better(L[t], L[u]) THEN getCachedRank(K, u) + 1 ELSE getCachedRank(K, u)
    BY RankWithOneMore, Zenon
  <2>4. /\ Better(L[t], L[u]) <=> getCachedRank(L, t) < getCachedRank(L, u)
        /\ getCachedRank(L, u) # getCachedRank(L, t)
    BY <1>1, <2>1, RanksFollowKeys, Zenon
  <2> QED BY <2>2, <2>3, <2>4, Zenon
<1>4. ASSUME t \in TopN(L, n)
      PROVE  TopN(K, n) = (TopN(L, n) \ {t}) \cup Best(K, DOMAIN K \ TopN(L, n))
  <2>1. getCachedRank(L, t) < n
    BY <1>4, Zenon DEF TopN
  <2>2. DOMAIN K \ TopN(L, n) = DOMAIN L \ TopN(L, n)
    BY <1>1, <1>4, Zenon
  <2>3. Best(K, DOMAIN K \ TopN(L, n)) = Best(L, DOMAIN L \ TopN(L, n))
    BY <1>1, <1>4, <2>2, Zenon DEF Best, OneMore
  <2>4. ASSUME NEW u \in DOMAIN K \ TopN(L, n)
        PROVE  u \in Best(K, DOMAIN K \ TopN(L, n)) <=> getCachedRank(L, u) = n
    BY <1>1, <2>2, <2>3, NextHasRankN, Zenon
  <2>5. ASSUME NEW u \in DOMAIN K
        PROVE  getCachedRank(K, u) < n <=> getCachedRank(L, u) < n \/ getCachedRank(L, u) = n
    BY <1>2, <1>3, <2>1
  <2>6. ASSUME NEW u \in DOMAIN K
        PROVE  u \in TopN(L, n) <=> getCachedRank(L, u) < n
    BY <1>1, Zenon DEF TopN
  <2>7. ASSUME NEW u \in DOMAIN K
        PROVE  getCachedRank(L, u) = n => ~ (getCachedRank(L, u) < n)
    BY <1>3
  <2>8. Best(K, DOMAIN K \ TopN(L, n)) \subseteq DOMAIN K \ TopN(L, n) /\ TopN(K, n) \subseteq DOMAIN K
        /\ TopN(L, n) \ {t} \subseteq DOMAIN K
    BY <1>1, Zenon DEF Best, TopN
  <2>9. ASSUME NEW u \in DOMAIN K
        PROVE  u \in TopN(K, n) <=> u \in TopN(L, n) \/ u \in Best(K, DOMAIN K \ TopN(L, n))
    <3>1. u \in TopN(K, n) <=> getCachedRank(K, u) < n
      BY Zenon DEF TopN
    <3> QED BY <3>1, <2>4, <2>5, <2>6, <2>7, <2>8, Zenon
  <2> QED BY <1>1, <2>8, <2>9, Zenon
<1>5. ASSUME t \notin TopN(L, n)
      PROVE  TopN(K, n) = TopN(L, n)
  <2>1. ~ (getCachedRank(L, t) < n)
    BY <1>1, <1>5, Zenon DEF TopN
  <2>2. ASSUME NEW u \in DOMAIN K
        PROVE  getCachedRank(L, u) < n <=> getCachedRank(K, u) < n
    BY <1>2, <1>3, <2>1
  <2> QED BY <1>1, <1>5, <2>2, Zenon DEF TopN
<1> QED BY <1>4, <1>5

(***************************************************************************)
(* A group.                                                                *)
(***************************************************************************)
\* Assignments to the fields of a group.
WithSessions(G, x) == [G EXCEPT !.sessions = x]
WithSelected(G, x) == [G EXCEPT !.selected = x]
WithSel(G, x) == [G EXCEPT !.sel = x]
WithDes(G, x) == [G EXCEPT !.des = x]
WithQueue(G, x) == [G EXCEPT !.queue = x]
WithGot(G, x) == [G EXCEPT !.got = x]

LEMMA PutSessions ==
    ASSUME NEW G \in TopNGroup, NEW x \in SUBSET Sessions
    PROVE  /\ WithSessions(G, x) \in TopNGroup /\ WithSessions(G, x).sessions = x
           /\ WithSessions(G, x).selected = G.selected /\ WithSessions(G, x).sel = G.sel
           /\ WithSessions(G, x).des = G.des /\ WithSessions(G, x).queue = G.queue
           /\ WithSessions(G, x).got = G.got
<1> DEFINE S == SUBSET Sessions
           F == [Sessions -> SUBSET Tracks]
           T == SUBSET Tracks
           Q == Seq(Tracks)
           R == [sessions : S, selected : F, sel : T, des : T, queue : Q, got : F]
<1>1. TopNGroup = R /\ x \in S
  BY DEF TopNGroup
<1>2. G \in R
  BY <1>1, Zenon
<1> HIDE DEF S, F, T, Q
<1>3. [G EXCEPT !.sessions = x] \in R
  BY <1>1, <1>2
<1>4. /\ [G EXCEPT !.sessions = x].sessions = x
      /\ [G EXCEPT !.sessions = x].selected = G.selected
      /\ [G EXCEPT !.sessions = x].sel = G.sel
      /\ [G EXCEPT !.sessions = x].des = G.des
      /\ [G EXCEPT !.sessions = x].queue = G.queue
      /\ [G EXCEPT !.sessions = x].got = G.got
  BY <1>1, <1>2
<1> QED BY <1>1, <1>3, <1>4 DEF WithSessions

LEMMA PutSelected ==
    ASSUME NEW G \in TopNGroup, NEW x \in [Sessions -> SUBSET Tracks]
    PROVE  /\ WithSelected(G, x) \in TopNGroup /\ WithSelected(G, x).selected = x
           /\ WithSelected(G, x).sessions = G.sessions /\ WithSelected(G, x).sel = G.sel
           /\ WithSelected(G, x).des = G.des /\ WithSelected(G, x).queue = G.queue
           /\ WithSelected(G, x).got = G.got
<1> DEFINE S == SUBSET Sessions
           F == [Sessions -> SUBSET Tracks]
           T == SUBSET Tracks
           Q == Seq(Tracks)
           R == [sessions : S, selected : F, sel : T, des : T, queue : Q, got : F]
<1>1. TopNGroup = R /\ x \in F
  BY DEF TopNGroup
<1>2. G \in R
  BY <1>1, Zenon
<1> HIDE DEF S, F, T, Q
<1>3. [G EXCEPT !.selected = x] \in R
  BY <1>1, <1>2
<1>4. /\ [G EXCEPT !.selected = x].selected = x
      /\ [G EXCEPT !.selected = x].sessions = G.sessions
      /\ [G EXCEPT !.selected = x].sel = G.sel
      /\ [G EXCEPT !.selected = x].des = G.des
      /\ [G EXCEPT !.selected = x].queue = G.queue
      /\ [G EXCEPT !.selected = x].got = G.got
  BY <1>1, <1>2
<1> QED BY <1>1, <1>3, <1>4 DEF WithSelected

LEMMA PutSel ==
    ASSUME NEW G \in TopNGroup, NEW x \in SUBSET Tracks
    PROVE  /\ WithSel(G, x) \in TopNGroup /\ WithSel(G, x).sel = x
           /\ WithSel(G, x).sessions = G.sessions /\ WithSel(G, x).selected = G.selected
           /\ WithSel(G, x).des = G.des /\ WithSel(G, x).queue = G.queue
           /\ WithSel(G, x).got = G.got
<1> DEFINE S == SUBSET Sessions
           F == [Sessions -> SUBSET Tracks]
           T == SUBSET Tracks
           Q == Seq(Tracks)
           R == [sessions : S, selected : F, sel : T, des : T, queue : Q, got : F]
<1>1. TopNGroup = R /\ x \in T
  BY DEF TopNGroup
<1>2. G \in R
  BY <1>1, Zenon
<1> HIDE DEF S, F, T, Q
<1>3. [G EXCEPT !.sel = x] \in R
  BY <1>1, <1>2
<1>4. /\ [G EXCEPT !.sel = x].sel = x
      /\ [G EXCEPT !.sel = x].sessions = G.sessions
      /\ [G EXCEPT !.sel = x].selected = G.selected
      /\ [G EXCEPT !.sel = x].des = G.des
      /\ [G EXCEPT !.sel = x].queue = G.queue
      /\ [G EXCEPT !.sel = x].got = G.got
  BY <1>1, <1>2
<1> QED BY <1>1, <1>3, <1>4 DEF WithSel

LEMMA PutDes ==
    ASSUME NEW G \in TopNGroup, NEW x \in SUBSET Tracks
    PROVE  /\ WithDes(G, x) \in TopNGroup /\ WithDes(G, x).des = x
           /\ WithDes(G, x).sessions = G.sessions /\ WithDes(G, x).selected = G.selected
           /\ WithDes(G, x).sel = G.sel /\ WithDes(G, x).queue = G.queue
           /\ WithDes(G, x).got = G.got
<1> DEFINE S == SUBSET Sessions
           F == [Sessions -> SUBSET Tracks]
           T == SUBSET Tracks
           Q == Seq(Tracks)
           R == [sessions : S, selected : F, sel : T, des : T, queue : Q, got : F]
<1>1. TopNGroup = R /\ x \in T
  BY DEF TopNGroup
<1>2. G \in R
  BY <1>1, Zenon
<1> HIDE DEF S, F, T, Q
<1>3. [G EXCEPT !.des = x] \in R
  BY <1>1, <1>2
<1>4. /\ [G EXCEPT !.des = x].des = x
      /\ [G EXCEPT !.des = x].sessions = G.sessions
      /\ [G EXCEPT !.des = x].selected = G.selected
      /\ [G EXCEPT !.des = x].sel = G.sel
      /\ [G EXCEPT !.des = x].queue = G.queue
      /\ [G EXCEPT !.des = x].got = G.got
  BY <1>1, <1>2
<1> QED BY <1>1, <1>3, <1>4 DEF WithDes

LEMMA PutQueue ==
    ASSUME NEW G \in TopNGroup, NEW x \in Seq(Tracks)
    PROVE  /\ WithQueue(G, x) \in TopNGroup /\ WithQueue(G, x).queue = x
           /\ WithQueue(G, x).sessions = G.sessions /\ WithQueue(G, x).selected = G.selected
           /\ WithQueue(G, x).sel = G.sel /\ WithQueue(G, x).des = G.des
           /\ WithQueue(G, x).got = G.got
<1> DEFINE S == SUBSET Sessions
           F == [Sessions -> SUBSET Tracks]
           T == SUBSET Tracks
           Q == Seq(Tracks)
           R == [sessions : S, selected : F, sel : T, des : T, queue : Q, got : F]
<1>1. TopNGroup = R /\ x \in Q
  BY DEF TopNGroup
<1>2. G \in R
  BY <1>1, Zenon
<1> HIDE DEF S, F, T, Q
<1>3. [G EXCEPT !.queue = x] \in R
  BY <1>1, <1>2
<1>4. /\ [G EXCEPT !.queue = x].queue = x
      /\ [G EXCEPT !.queue = x].sessions = G.sessions
      /\ [G EXCEPT !.queue = x].selected = G.selected
      /\ [G EXCEPT !.queue = x].sel = G.sel
      /\ [G EXCEPT !.queue = x].des = G.des
      /\ [G EXCEPT !.queue = x].got = G.got
  BY <1>1, <1>2
<1> QED BY <1>1, <1>3, <1>4 DEF WithQueue

LEMMA PutGot ==
    ASSUME NEW G \in TopNGroup, NEW x \in [Sessions -> SUBSET Tracks]
    PROVE  /\ WithGot(G, x) \in TopNGroup /\ WithGot(G, x).got = x
           /\ WithGot(G, x).sessions = G.sessions /\ WithGot(G, x).selected = G.selected
           /\ WithGot(G, x).sel = G.sel /\ WithGot(G, x).des = G.des
           /\ WithGot(G, x).queue = G.queue
<1> DEFINE S == SUBSET Sessions
           F == [Sessions -> SUBSET Tracks]
           T == SUBSET Tracks
           Q == Seq(Tracks)
           R == [sessions : S, selected : F, sel : T, des : T, queue : Q, got : F]
<1>1. TopNGroup = R /\ x \in F
  BY DEF TopNGroup
<1>2. G \in R
  BY <1>1, Zenon
<1> HIDE DEF S, F, T, Q
<1>3. [G EXCEPT !.got = x] \in R
  BY <1>1, <1>2
<1>4. /\ [G EXCEPT !.got = x].got = x
      /\ [G EXCEPT !.got = x].sessions = G.sessions
      /\ [G EXCEPT !.got = x].selected = G.selected
      /\ [G EXCEPT !.got = x].sel = G.sel
      /\ [G EXCEPT !.got = x].des = G.des
      /\ [G EXCEPT !.got = x].queue = G.queue
  BY <1>1, <1>2
<1> QED BY <1>1, <1>3, <1>4 DEF WithGot

\* The sessions that never publish.
Watchers == Sessions \ {PubOf[t] : t \in Tracks}

\* A group that has selected T, puts nothing aside, and gives D to its watchers.
Shows(G, T, D) ==
    /\ G \in TopNGroup
    /\ G.sel = T /\ G.des = {} /\ G.queue = <<>>
    /\ \A s \in Watchers : G.got[s] = IF s \in G.sessions THEN D ELSE {}

\* What reconciles publishers does not concern the watchers.
LEMMA ReconcileShows ==
    ASSUME NEW K, DOMAIN K \subseteq Tracks, NEW G, NEW T, NEW D, Shows(G, T, D), NEW n,
           NEW S, S \cap Watchers = {}
    PROVE  /\ Shows(reconcilePublisherSelection(K, G, n, S), T, D)
           /\ reconcilePublisherSelection(K, G, n, S).sessions = G.sessions
<1> DEFINE selected == [s \in Sessions |-> IF s \in S THEN Personal(K, s, n) ELSE G.selected[s]]
           got == [s \in Sessions |->
                       IF s \in S
                       THEN (G.got[s] \ (G.selected[s] \ Personal(K, s, n))) \cup (Personal(K, s, n) \ G.selected[s])
                       ELSE G.got[s]]
           H == [G EXCEPT !.selected = selected, !.got = got]
<1>1. reconcilePublisherSelection(K, G, n, S) = H
  BY DEF reconcilePublisherSelection
<1>2. G \in TopNGroup /\ G.selected \in [Sessions -> SUBSET Tracks] /\ G.got \in [Sessions -> SUBSET Tracks]
  BY DEF Shows, TopNGroup
<1>3. \A s : Personal(K, s, n) \subseteq Tracks
  BY Zenon DEF Personal, Others
<1>4. selected \in [Sessions -> SUBSET Tracks]
  BY <1>2, <1>3
<1>5. got \in [Sessions -> SUBSET Tracks]
  BY <1>2, <1>3
<1>6. \A s \in Watchers : got[s] = G.got[s]
  BY Zenon DEF Watchers
<1> HIDE DEF selected, got
<1>7. /\ H \in TopNGroup /\ H.sel = G.sel /\ H.des = G.des /\ H.queue = G.queue /\ H.got = got
      /\ H.sessions = G.sessions
  <2> DEFINE G1 == WithSelected(G, selected)
  <2>1. G1 \in TopNGroup /\ G1.sel = G.sel /\ G1.des = G.des /\ G1.queue = G.queue /\ G1.sessions = G.sessions
    BY <1>2, <1>4, PutSelected, Zenon
  <2>2. H = WithGot(G1, got)
    BY DEF WithSelected, WithGot
  <2> HIDE DEF G1, H
  <2> QED BY <1>5, <2>1, <2>2, PutGot, Zenon
<1> HIDE DEF H
<1> QED BY <1>1, <1>6, <1>7, Zenon DEF Shows

\* A delivery to all watchers of a group, and one to none.
LEMMA DeliverShows ==
    ASSUME NEW G, NEW T, NEW D, Shows(G, T, D), NEW S, NEW X \in SUBSET Tracks
    PROVE  /\ (\A s \in Watchers : s \in S <=> s \in G.sessions) => Shows(Deliver(G, S, X), T, D \cup X)
           /\ S \cap Watchers = {} => Shows(Deliver(G, S, X), T, D)
<1> DEFINE got == [s \in Sessions |-> IF s \in S THEN G.got[s] \cup X ELSE G.got[s]]
           H == [G EXCEPT !.got = got]
<1>1. Deliver(G, S, X) = H
  BY DEF Deliver
<1>2. G \in TopNGroup /\ G.got \in [Sessions -> SUBSET Tracks]
  BY DEF Shows, TopNGroup
<1>3. got \in [Sessions -> SUBSET Tracks]
  BY <1>2
<1>4. \A s \in Watchers : got[s] = IF s \in S THEN G.got[s] \cup X ELSE G.got[s]
  BY Zenon DEF Watchers
<1> HIDE DEF got
<1>5. /\ H \in TopNGroup /\ H.sel = G.sel /\ H.des = G.des /\ H.queue = G.queue /\ H.got = got
      /\ H.sessions = G.sessions
  <2>1. H = WithGot(G, got)
    BY DEF WithGot
  <2> HIDE DEF H
  <2> QED BY <1>2, <1>3, <2>1, PutGot, Zenon
<1> HIDE DEF H
<1>6. ASSUME \A s \in Watchers : s \in S <=> s \in G.sessions
      PROVE  \A s \in Watchers : got[s] = IF s \in G.sessions THEN D \cup X ELSE {}
  BY <1>4, <1>6, Zenon DEF Shows
<1>7. ASSUME S \cap Watchers = {}
      PROVE  \A s \in Watchers : got[s] = IF s \in G.sessions THEN D ELSE {}
  BY <1>4, <1>7, Zenon DEF Shows
<1> QED BY <1>1, <1>5, <1>6, <1>7, Zenon DEF Shows

\* Watchers are viewers, and not publishers.
LEMMA WatchersAreViewers ==
    ASSUME NEW K, DOMAIN K \subseteq Tracks, NEW G
    PROVE  /\ Publishers(K, G) \cap Watchers = {}
           /\ \A s \in Watchers : s \in Viewers(K, G) <=> s \in G.sessions
BY Zenon DEF Publishers, Viewers, isPublisher, Watchers

\* A track that notifyTrackSelected announces reaches the watchers.
LEMMA NotifyShows ==
    ASSUME NEW K, DOMAIN K \subseteq Tracks, NEW G, NEW T, NEW D, Shows(G, T, D), NEW n, NEW t \in Tracks
    PROVE  Shows(notifyTrackSelected(K, G, n, t), T, D \cup {t})
<1> DEFINE H == reconcilePublisherSelection(K, G, n, Publishers(K, G))
<1>1. Shows(H, T, D) /\ H.sessions = G.sessions
  <2>1. Publishers(K, G) \cap Watchers = {}
    BY WatchersAreViewers, Zenon
  <2> QED BY <2>1, ReconcileShows
<1>2. \A s \in Watchers : s \in Viewers(K, G) <=> s \in H.sessions
  BY <1>1, WatchersAreViewers, Zenon
<1> HIDE DEF H
<1>3. Shows(Deliver(H, Viewers(K, G), {t}), T, D \cup {t})
  BY <1>1, <1>2, DeliverShows, Zenon
<1> QED BY <1>3, Zenon DEF notifyTrackSelected, H

\* A track is selected; the queue has nothing to remove.
LEMMA SelectShows ==
    ASSUME NEW G, NEW T, NEW D, Shows(G, T, D), NEW t \in Tracks
    PROVE  /\ Shows(Select(G, t), T \cup {t}, D)
           /\ removeFromDeselectedQueue(Select(G, t), t) = Select(G, t)
<1> DEFINE H == [G EXCEPT !.sel = @ \cup {t}, !.des = @ \ {t}]
<1>1. /\ H \in TopNGroup /\ H.sel = G.sel \cup {t} /\ H.des = G.des \ {t} /\ H.queue = G.queue
      /\ H.got = G.got /\ H.sessions = G.sessions
  <2> DEFINE G1 == WithSel(G, G.sel \cup {t})
  <2>1. G \in TopNGroup /\ G.sel \cup {t} \in SUBSET Tracks /\ G.des \ {t} \in SUBSET Tracks
    BY DEF TopNGroup, Shows
  <2>2. /\ G1 \in TopNGroup /\ G1.sel = G.sel \cup {t} /\ G1.queue = G.queue /\ G1.got = G.got
        /\ G1.sessions = G.sessions
    BY <2>1, PutSel, Zenon
  <2>3. H = WithDes(G1, G.des \ {t})
    BY DEF WithSel, WithDes
  <2> HIDE DEF G1, H
  <2> QED BY <2>1, <2>2, <2>3, PutDes, Zenon
<1>2. H.des = {} /\ H.sel = T \cup {t} /\ H.queue = <<>>
  BY <1>1, Zenon DEF Shows
<1>3. t \notin Range(H.queue)
  BY <1>2 DEF Range
<1> HIDE DEF H
<1>4. Shows(H, T \cup {t}, D) /\ removeFromDeselectedQueue(H, t) = H
  BY <1>1, <1>2, <1>3, Zenon DEF Shows, removeFromDeselectedQueue
<1> QED BY <1>4, Zenon DEF Select, H

\* With no place in the queue, the track that enters it is evicted at once.
LEMMA TrimShows ==
    ASSUME maxDeselected = 0, NEW G \in TopNGroup, NEW t \in Tracks, G.queue = <<t>>
    PROVE  LET H == trimDeselectedQueue(G)
           IN /\ H \in TopNGroup /\ H.sel = G.sel \ {t} /\ H.des = G.des \ {t} /\ H.queue = <<>>
              /\ H.sessions = G.sessions
              /\ \A s \in Sessions : H.got[s] = IF s \in G.sessions THEN G.got[s] \ {t} ELSE G.got[s]
<1> DEFINE excess == IF Len(G.queue) > maxDeselected THEN Len(G.queue) - maxDeselected ELSE 0
           evicted == {G.queue[i] : i \in 1 .. excess}
           queue == SubSeq(G.queue, excess + 1, Len(G.queue))
           got == [s \in Sessions |-> IF s \in G.sessions THEN G.got[s] \ evicted ELSE G.got[s]]
           H == trimDeselectedQueue(G)
<1>1. G.got \in [Sessions -> SUBSET Tracks] /\ G.sel \in SUBSET Tracks /\ G.des \in SUBSET Tracks
  BY DEF TopNGroup
<1>2. H = [G EXCEPT !.queue = queue, !.sel = @ \ evicted, !.des = @ \ evicted, !.got = got]
  BY Zenon DEF trimDeselectedQueue
<1>3. excess = 1
  OBVIOUS
<1>4. queue = <<>> /\ queue \in Seq(Tracks)
  BY <1>3
<1> HIDE DEF excess
<1>5. evicted = {t}
  BY <1>3
<1> HIDE DEF queue, evicted
<1>6. got \in [Sessions -> SUBSET Tracks]
  BY <1>1
<1>7. \A s \in Sessions : got[s] = IF s \in G.sessions THEN G.got[s] \ {t} ELSE G.got[s]
  BY <1>5
<1> HIDE DEF got, H
<1> DEFINE G1 == WithQueue(G, queue)
           G2 == WithSel(G1, G.sel \ evicted)
           G3 == WithDes(G2, G.des \ evicted)
<1>8. H = WithGot(G3, got)
  BY <1>2 DEF WithQueue, WithSel, WithDes, WithGot
<1>9. G.sel \ evicted \in SUBSET Tracks /\ G.des \ evicted \in SUBSET Tracks
  BY <1>1
<1>10. G1 \in TopNGroup /\ G1.queue = queue /\ G1.sessions = G.sessions
  BY <1>4, PutQueue, Zenon
<1> HIDE DEF G1
<1>11. G2 \in TopNGroup /\ G2.queue = queue /\ G2.sessions = G.sessions /\ G2.sel = G.sel \ evicted
  BY <1>9, <1>10, PutSel, Zenon
<1> HIDE DEF G2
<1>12. /\ G3 \in TopNGroup /\ G3.queue = queue /\ G3.sessions = G.sessions /\ G3.sel = G.sel \ evicted
       /\ G3.des = G.des \ evicted
  BY <1>9, <1>11, PutDes, Zenon
<1> HIDE DEF G3
<1>13. /\ H \in TopNGroup /\ H.queue = queue /\ H.sessions = G.sessions /\ H.sel = G.sel \ evicted
       /\ H.des = G.des \ evicted /\ H.got = got
  BY <1>6, <1>8, <1>12, PutGot, Zenon
<1> QED BY <1>4, <1>5, <1>7, <1>13, Zenon DEF H

\* A track that is demoted is taken from the watchers.
LEMMA DemoteShows ==
    ASSUME maxDeselected = 0, NEW G, NEW T, NEW D, Shows(G, T, D), NEW t \in Tracks
    PROVE  Shows(demoteTrack(G, t), T \ {t}, D \ {t})
<1> DEFINE queue == Append(G.queue, t)
           G1 == WithSel(G, G.sel \ {t})
           G2 == WithDes(G1, G.des \cup {t})
           G3 == WithQueue(G2, queue)
           H == trimDeselectedQueue(G3)
<1>1. /\ G \in TopNGroup /\ G.sel = T /\ G.des = {} /\ G.queue = <<>> /\ queue = <<t>> /\ queue \in Seq(Tracks)
      /\ G.sel \ {t} \in SUBSET Tracks /\ G.des \cup {t} \in SUBSET Tracks
  BY DEF Shows, TopNGroup
<1>2. demoteTrack(G, t) = H
  BY DEF demoteTrack, WithSel, WithDes, WithQueue
<1> HIDE DEF queue
<1>3. G1 \in TopNGroup /\ G1.sel = G.sel \ {t} /\ G1.got = G.got /\ G1.sessions = G.sessions
  BY <1>1, PutSel, Zenon
<1> HIDE DEF G1
<1>4. /\ G2 \in TopNGroup /\ G2.sel = G.sel \ {t} /\ G2.got = G.got /\ G2.sessions = G.sessions
      /\ G2.des = G.des \cup {t}
  BY <1>1, <1>3, PutDes, Zenon
<1> HIDE DEF G2
<1>5. /\ G3 \in TopNGroup /\ G3.sel = T \ {t} /\ G3.got = G.got /\ G3.sessions = G.sessions
      /\ G3.des = {t} /\ G3.queue = queue
  <2>1. /\ G3 \in TopNGroup /\ G3.sel = G2.sel /\ G3.got = G2.got /\ G3.sessions = G2.sessions
        /\ G3.des = G2.des /\ G3.queue = queue
    BY <1>1, <1>4, PutQueue, Zenon
  <2> QED BY <1>1, <1>4, <2>1
<1> HIDE DEF G3
<1>6. /\ H \in TopNGroup /\ H.sel = G3.sel \ {t} /\ H.des = G3.des \ {t} /\ H.queue = <<>>
      /\ H.sessions = G.sessions
      /\ \A s \in Sessions : H.got[s] = IF s \in G.sessions THEN G.got[s] \ {t} ELSE G.got[s]
  <2>1. G3 \in TopNGroup /\ G3.queue = <<t>> /\ G3.sessions = G.sessions /\ G3.got = G.got
    BY <1>1, <1>5, Zenon
  <2>2. /\ H \in TopNGroup /\ H.sel = G3.sel \ {t} /\ H.des = G3.des \ {t} /\ H.queue = <<>>
        /\ H.sessions = G3.sessions
        /\ \A s \in Sessions : H.got[s] = IF s \in G3.sessions THEN G3.got[s] \ {t} ELSE G3.got[s]
    BY <2>1, TrimShows, Zenon
  <2> HIDE DEF H
  <2> QED BY <2>1, <2>2, Zenon
<1> HIDE DEF H
<1>7. H.sel = T \ {t} /\ H.des = {}
  BY <1>5, <1>6, Zenon
<1>8. ASSUME NEW s \in Watchers
      PROVE  H.got[s] = IF s \in H.sessions THEN D \ {t} ELSE {}
  BY <1>6, Zenon DEF Shows, Watchers
<1> QED BY <1>2, <1>6, <1>7, <1>8, Zenon DEF Shows

\* The track at rank N, if it is selected, is taken from the watchers.
LEMMA DemoteAtRankShows ==
    ASSUME maxDeselected = 0, NEW K, IsRanking(K), DOMAIN K \subseteq Tracks,
           NEW n, NEW G, NEW T, Shows(G, T, T)
    PROVE  Shows(demoteTrackAtRank(K, G, n), T \ AtRank(K, n), T \ AtRank(K, n))
<1> DEFINE at == AtRank(K, n) \cap G.sel
           t == CHOOSE u \in at : TRUE
<1>1. demoteTrackAtRank(K, G, n) = IF at = {} THEN G ELSE demoteTrack(G, t)
  BY Zenon DEF demoteTrackAtRank
<1> HIDE DEF t
<1>2. at = AtRank(K, n) \cap T
  BY Zenon DEF Shows
<1>3. CASE at = {}
  <2>1. T \ AtRank(K, n) = T
    BY <1>2, <1>3, Zenon
  <2> QED BY <1>1, <1>3, <2>1, Zenon
<1>4. CASE at # {}
  <2>1. t \in at
    BY <1>4, Zenon DEF t
  <2>2. \A u \in at : u \in DOMAIN K /\ getCachedRank(K, u) = n
    BY Zenon DEF AtRank
  <2>3. \A u \in at : u = t
    BY <2>1, <2>2, RanksFollowKeys, Zenon
  <2>4. T \ AtRank(K, n) = T \ {t} /\ t \in Tracks
    BY <1>2, <2>1, <2>2, <2>3, Zenon
  <2>5. Shows(demoteTrack(G, t), T \ {t}, T \ {t})
    BY <2>4, DemoteShows, Zenon
  <2> QED BY <1>1, <1>4, <2>4, <2>5, Zenon
<1> QED BY <1>3, <1>4, Zenon

\* The track that is promoted, if any, is selected and reaches the watchers.
LEMMA PromoteShows ==
    ASSUME NEW K, DOMAIN K \subseteq Tracks, NEW G, NEW T, Shows(G, T, T), NEW n,
           NEW X \in SUBSET Tracks, \A u, v \in X : u = v
    PROVE  Shows(Promoted(K, G, n, X), T \cup X, T \cup X)
<1> DEFINE t == CHOOSE u \in X : TRUE
<1>1. Promoted(K, G, n, X) =
          IF X = {} THEN G ELSE notifyTrackSelected(K, removeFromDeselectedQueue(Select(G, t), t), n, t)
  BY Zenon DEF Promoted
<1>2. CASE X = {}
  BY <1>1, <1>2
<1>3. CASE X # {}
  <2>1. t \in X
    BY <1>3, Zenon
  <2> HIDE DEF t
  <2>2. X = {t} /\ t \in Tracks
    BY <2>1, Zenon
  <2>3. Shows(Select(G, t), T \cup {t}, T) /\ removeFromDeselectedQueue(Select(G, t), t) = Select(G, t)
    BY <2>2, SelectShows, Zenon
  <2>4. Shows(notifyTrackSelected(K, Select(G, t), n, t), T \cup {t}, T \cup {t})
    BY <2>2, <2>3, NotifyShows
  <2> QED BY <1>1, <1>3, <2>2, <2>3, <2>4, Zenon
<1> QED BY <1>2, <1>3, Zenon

(***************************************************************************)
(* A group, after a change of the ranking.                                 *)
(***************************************************************************)
\* A session that publishes its first track is no watcher.
LEMMA NewPublisherShows ==
    ASSUME NEW K, DOMAIN K \subseteq Tracks, NEW G, NEW T, Shows(G, T, T), NEW n, NEW t \in Tracks
    PROVE  Shows(reconcileNewPublisher(K, G, n, PubOf[t]), T, T)
<1> DEFINE s == PubOf[t]
           seed == IF G.selected[s] = {} THEN TopN(K, n) ELSE G.selected[s]
           selected == [G.selected EXCEPT ![s] = seed]
           H == WithSelected(G, selected)
<1>1. reconcileNewPublisher(K, G, n, s) =
          IF s \in G.sessions THEN reconcilePublisherSelection(K, H, n, {s}) ELSE G
  BY DEF reconcileNewPublisher, WithSelected
<1>2. G \in TopNGroup /\ G.selected \in [Sessions -> SUBSET Tracks] /\ {s} \cap Watchers = {}
      /\ G.sessions \subseteq Sessions
  BY DEF Shows, TopNGroup, Watchers
<1>3. ASSUME s \in G.sessions
      PROVE  Shows(reconcilePublisherSelection(K, H, n, {s}), T, T)
  <2>1. TopN(K, n) \in SUBSET Tracks /\ G.selected[s] \in SUBSET Tracks
    BY <1>2, <1>3, Zenon DEF TopN
  <2>2. seed \in SUBSET Tracks
    BY <2>1, Zenon
  <2> HIDE DEF seed, s
  <2>3. selected \in [Sessions -> SUBSET Tracks]
    <3> DEFINE F == G.selected
               P == SUBSET Tracks
    <3>1. F \in [Sessions -> P] /\ seed \in P /\ s \in Sessions
      BY <1>2, <1>3, <2>2, Zenon
    <3> HIDE DEF F, P
    <3>2. [F EXCEPT ![s] = seed] \in [Sessions -> P]
      BY <3>1
    <3> QED BY <3>2 DEF F, P
  <2> HIDE DEF selected
  <2>4. /\ H \in TopNGroup /\ H.sel = G.sel /\ H.des = G.des /\ H.queue = G.queue /\ H.got = G.got
        /\ H.sessions = G.sessions
    BY <1>2, <2>3, PutSelected, Zenon
  <2> HIDE DEF H
  <2>5. Shows(H, T, T)
    BY <2>4, Zenon DEF Shows
  <2> QED BY <1>2, <2>5, ReconcileShows
<1> QED BY <1>1, <1>3, Zenon

\* A group follows when a track is registered.
LEMMA JoinsShows ==
    ASSUME maxDeselected = 0, NEW K, NEW L, DOMAIN L \subseteq Tracks, NEW t, OneMore(K, L, t),
           NEW n \in Nat, NEW G, Shows(G, TopN(K, n), TopN(K, n))
    PROVE  Shows(Joins(L, G, n, t), TopN(L, n), TopN(L, n))
<1> DEFINE T == TopN(K, n)
           G1 == Select(G, t)
           G2 == notifyTrackSelected(L, G1, n, t)
           G3 == reconcilePublisherSelection(L, G, n, Publishers(L, G))
<1>1. t \in Tracks /\ IsRanking(L)
  BY Zenon DEF OneMore
<1>2. Joins(L, G, n, t) = IF getCachedRank(L, t) < n THEN demoteTrackAtRank(L, G2, n) ELSE G3
  BY Zenon DEF Joins
<1>3. CASE getCachedRank(L, t) < n
  <2>1. Shows(G1, T \cup {t}, T)
    BY <1>1, SelectShows, Zenon
  <2> HIDE DEF G1, T
  <2>2. Shows(G2, T \cup {t}, T \cup {t})
    BY <1>1, <2>1, NotifyShows
  <2> HIDE DEF G2
  <2>3. Shows(demoteTrackAtRank(L, G2, n), (T \cup {t}) \ AtRank(L, n), (T \cup {t}) \ AtRank(L, n))
    BY <1>1, <2>2, DemoteAtRankShows
  <2>4. TopN(L, n) = (T \cup {t}) \ AtRank(L, n)
    BY <1>3, TopAfterJoin DEF T
  <2> QED BY <1>2, <1>3, <2>3, <2>4, Zenon
<1>4. CASE ~ (getCachedRank(L, t) < n)
  <2>1. Publishers(L, G) \cap Watchers = {}
    BY WatchersAreViewers, Zenon
  <2>2. Shows(G3, T, T)
    BY <2>1, ReconcileShows
  <2>3. TopN(L, n) = T
    BY <1>4, TopAfterJoin
  <2> QED BY <1>2, <1>4, <2>2, <2>3, Zenon
<1> QED BY <1>3, <1>4, Zenon

\* A group follows when a track moves past its threshold, or does not.
LEMMA MovedShows ==
    ASSUME maxDeselected = 0, NEW K, NEW L, DOMAIN L \subseteq Tracks, NEW t, Rekeyed(K, L, t),
           NEW n \in Nat, NEW G, Shows(G, TopN(K, n), TopN(K, n))
    PROVE  Shows(Moved(L, G, n, t, getCachedRank(K, t), getCachedRank(L, t)), TopN(L, n), TopN(L, n))
<1> DEFINE T == TopN(K, n)
           old == getCachedRank(K, t)
           new == getCachedRank(L, t)
           enters == old >= n /\ new < n
           leaves == old < n /\ new >= n
           G1 == IF enters THEN removeFromDeselectedQueue(Select(G, t), t)
                 ELSE IF leaves THEN demoteTrack(G, t) ELSE G
           G2 == reconcilePublisherSelection(L, G1, n, Publishers(L, G1) \ {PubOf[t]})
           V == IF enters THEN Viewers(L, G1) ELSE {}
           G3 == Deliver(G2, V, {t})
           H == Moved(L, G, n, t, old, new)
<1>1. H = IF enters THEN demoteTrackAtRank(L, G3, n)
          ELSE IF leaves THEN Promoted(L, G3, n, AtRank(L, n - 1) \ G3.sel) ELSE G3
  BY Zenon DEF Moved
<1>2. t \in Tracks /\ IsRanking(L) /\ old \in Nat /\ new \in Nat
  BY RanksAreNumbers, Zenon DEF Rekeyed
<1>3. /\ (Publishers(L, G1) \ {PubOf[t]}) \cap Watchers = {}
      /\ \A s \in Watchers : s \in Viewers(L, G1) <=> s \in G1.sessions
  BY WatchersAreViewers, Zenon
<1> HIDE DEF old, new
<1>4. CASE enters
  <2>1. Shows(G1, T \cup {t}, T)
    BY <1>2, <1>4, SelectShows, Zenon
  <2> HIDE DEF G1
  <2>2. Shows(G2, T \cup {t}, T) /\ G2.sessions = G1.sessions
    BY <1>3, <2>1, ReconcileShows
  <2>3. \A s \in Watchers : s \in V <=> s \in G2.sessions
    BY <1>3, <1>4, <2>2, Zenon
  <2> HIDE DEF G2, V
  <2>4. Shows(G3, T \cup {t}, T \cup {t})
    BY <1>2, <2>2, <2>3, DeliverShows, Zenon
  <2> HIDE DEF G3
  <2>5. Shows(demoteTrackAtRank(L, G3, n), (T \cup {t}) \ AtRank(L, n), (T \cup {t}) \ AtRank(L, n))
    BY <1>2, <2>4, DemoteAtRankShows
  <2>6. TopN(L, n) = (T \cup {t}) \ AtRank(L, n)
    BY <1>4, TopAfterMove DEF old, new
  <2> QED BY <1>1, <1>4, <2>5, <2>6, Zenon DEF old, new
<1>5. CASE ~ enters /\ leaves
  <2>1. Shows(G1, T \ {t}, T \ {t})
    BY <1>2, <1>5, DemoteShows, Zenon
  <2> HIDE DEF G1
  <2>2. Shows(G2, T \ {t}, T \ {t})
    BY <1>3, <2>1, ReconcileShows
  <2>3. V \cap Watchers = {}
    BY <1>5, Zenon
  <2> HIDE DEF G2, V
  <2>4. Shows(G3, T \ {t}, T \ {t})
    BY <1>2, <2>2, <2>3, DeliverShows, Zenon
  <2> HIDE DEF G3
  <2>5. G3.sel = T \ {t}
    BY <2>4, Zenon DEF Shows
  <2> DEFINE X == AtRank(L, n - 1) \ G3.sel
  <2>6. X \in SUBSET Tracks
    BY Zenon DEF AtRank
  <2>7. \A u, v \in X : u = v
    BY <1>2, RanksFollowKeys, Zenon DEF AtRank
  <2> HIDE DEF X
  <2>8. Shows(Promoted(L, G3, n, X), (T \ {t}) \cup X, (T \ {t}) \cup X)
    BY <2>4, <2>6, <2>7, PromoteShows
  <2>9. TopN(L, n) = (T \ {t}) \cup X
    BY <1>5, <2>5, TopAfterMove DEF old, new, X
  <2> QED BY <1>1, <1>5, <2>8, <2>9, Zenon DEF old, new, X
<1>6. CASE ~ enters /\ ~ leaves
  <2>1. G1 = G
    BY <1>6, Zenon
  <2> HIDE DEF G1
  <2>2. Shows(G2, T, T)
    BY <1>3, <2>1, ReconcileShows
  <2>3. V \cap Watchers = {}
    BY <1>6, Zenon
  <2> HIDE DEF G2, V
  <2>4. Shows(G3, T, T)
    BY <1>2, <2>2, <2>3, DeliverShows, Zenon
  <2> HIDE DEF G3
  <2>5. old < n <=> new < n
    BY <1>2, <1>6
  <2>6. TopN(L, n) = T
    BY <2>5, TopAfterMove DEF old, new
  <2> QED BY <1>1, <1>6, <2>4, <2>6, Zenon DEF old, new
<1> QED BY <1>4, <1>5, <1>6, Zenon

\* A track that ends is taken from every session.
LEMMA EndedShows ==
    ASSUME NEW G, NEW T, Shows(G, T, T), NEW t
    PROVE  Shows(Ended(G, t), T, T \ {t})
<1> DEFINE got == [s \in Sessions |-> G.got[s] \ {t}]
           H == WithGot(G, got)
<1>1. G \in TopNGroup /\ G.got \in [Sessions -> SUBSET Tracks]
  BY DEF Shows, TopNGroup
<1>2. got \in [Sessions -> SUBSET Tracks]
  BY <1>1
<1>3. Ended(G, t) = H
  BY DEF Ended, WithGot
<1>4. \A s \in Watchers : got[s] = IF s \in G.sessions THEN T \ {t} ELSE {}
  <2>1. \A s \in Watchers : got[s] = G.got[s] \ {t}
    BY Zenon DEF Watchers
  <2> QED BY <2>1, Zenon DEF Shows
<1> HIDE DEF got
<1>5. /\ H \in TopNGroup /\ H.sel = G.sel /\ H.des = G.des /\ H.queue = G.queue /\ H.got = got
      /\ H.sessions = G.sessions
  BY <1>1, <1>2, PutGot, Zenon
<1> HIDE DEF H
<1> QED BY <1>3, <1>4, <1>5, Zenon DEF Shows

\* A group follows when a track is removed: the queue is empty, so that its
\* place goes to the next in rank.
LEMMA LeavesShows ==
    ASSUME NEW K, NEW L, DOMAIN L \subseteq Tracks, NEW t, OneMore(K, L, t),
           NEW n \in Nat, NEW G, Shows(G, TopN(L, n), TopN(L, n) \ {t})
    PROVE  Shows(Leaves(K, G, n, t), TopN(K, n), TopN(K, n))
<1> DEFINE T == TopN(L, n)
           G1 == WithSel(G, G.sel \ {t})
           G2 == WithDes(G1, G.des \ {t})
           gone == removeFromDeselectedQueue(G2, t)
<1>1. IsRanking(K) /\ DOMAIN K \subseteq Tracks /\ t \notin DOMAIN K
  BY Zenon DEF OneMore
<1>2. /\ G \in TopNGroup /\ G.sel = T /\ G.des = {} /\ G.queue = <<>>
      /\ G.sel \ {t} \in SUBSET Tracks /\ G.des \ {t} \in SUBSET Tracks
  BY DEF Shows, TopNGroup
<1>3. /\ t \in T => TopN(K, n) = (T \ {t}) \cup Best(K, DOMAIN K \ T)
      /\ t \notin T => TopN(K, n) = T
  BY TopAfterLeave
<1>4. CASE t \in T
  <2>1. Leaves(K, G, n, t) = IF gone.queue = <<>> THEN promoteNextAvailableTrack(K, gone, n, t)
            ELSE notifyTrackSelected(K, Select([gone EXCEPT !.queue = Tail(@)], Head(gone.queue)), n, Head(gone.queue))
    BY <1>2, <1>4 DEF Leaves, WithSel, WithDes
  <2>2. /\ G1 \in TopNGroup /\ G1.sel = G.sel \ {t} /\ G1.des = G.des /\ G1.queue = G.queue
        /\ G1.got = G.got /\ G1.sessions = G.sessions
    BY <1>2, PutSel, Zenon
  <2> HIDE DEF G1
  <2>3. /\ G2 \in TopNGroup /\ G2.sel = G.sel \ {t} /\ G2.des = G.des \ {t} /\ G2.queue = G.queue
        /\ G2.got = G.got /\ G2.sessions = G.sessions
    BY <1>2, <2>2, PutDes, Zenon
  <2> HIDE DEF G2
  <2>4. t \notin Range(G2.queue)
    BY <1>2, <2>3 DEF Range
  <2>5. gone = G2
    BY <2>4, Zenon DEF removeFromDeselectedQueue
  <2> HIDE DEF gone
  <2>6. G2.sel = T \ {t} /\ G2.des = {} /\ G2.queue = <<>>
    BY <1>2, <2>3, Zenon
  <2>7. Shows(G2, T \ {t}, T \ {t})
    BY <2>3, <2>6, Zenon DEF Shows
  <2> DEFINE X == Best(K, DOMAIN K \ (G2.sel \cup {t}))
  <2>8. promoteNextAvailableTrack(K, G2, n, t) = Promoted(K, G2, n, X)
    BY Zenon DEF promoteNextAvailableTrack, Best
  <2>9. DOMAIN K \ (G2.sel \cup {t}) = DOMAIN K \ T
    BY <1>4, <2>6, Zenon
  <2>10. X = Best(K, DOMAIN K \ T) /\ X \in SUBSET Tracks
    BY <1>1, <2>9, Zenon DEF Best
  <2>11. \A u, v \in X : u = v
    <3>1. DOMAIN K \ T \subseteq DOMAIN K
      BY Zenon
    <3> QED BY <1>1, <2>10, <3>1, OneBest, Zenon
  <2> HIDE DEF X
  <2>12. Shows(Promoted(K, G2, n, X), (T \ {t}) \cup X, (T \ {t}) \cup X)
    <3> DEFINE U == T \ {t}
    <3>1. Shows(G2, U, U) /\ DOMAIN K \subseteq Tracks /\ X \in SUBSET Tracks
      BY <1>1, <2>7, <2>10, Zenon
    <3> HIDE DEF U
    <3>2. Shows(Promoted(K, G2, n, X), U \cup X, U \cup X)
      BY <2>11, <3>1, PromoteShows
    <3> QED BY <3>2, Zenon DEF U
  <2>13. TopN(K, n) = (T \ {t}) \cup X
    BY <1>4, <1>3, <2>10, Zenon
  <2> QED BY <2>1, <2>5, <2>6, <2>8, <2>12, <2>13, Zenon
<1>5. CASE t \notin T
  <2>1. Leaves(K, G, n, t) = G
    BY <1>2, <1>5, Zenon DEF Leaves
  <2>2. T \ {t} = T
    BY <1>5, Zenon
  <2>3. TopN(K, n) = T
    BY <1>5, <1>3, Zenon
  <2> QED BY <2>1, <2>2, <2>3, Zenon
<1> QED BY <1>4, <1>5, Zenon

\* The fast path: a move that crosses no threshold leaves every selection.
LEMMA FastPathKeepsTop ==
    ASSUME maxDeselected = 0, NEW K, NEW L, NEW t, Rekeyed(K, L, t), NEW n \in DOMAIN groups, n \in Nat,
           ~ crossesThreshold(L, getCachedRank(K, t), getCachedRank(L, t))
    PROVE  TopN(L, n) = TopN(K, n)
<1> DEFINE old == getCachedRank(K, t)
           new == getCachedRank(L, t)
           N == DOMAIN groups
           extended == UNION {{m + TrackCount(L, s) : s \in Publishers(L, groups[m])} : m \in N}
           below(k, T) == \E m \in T : k < m + maxDeselected
           crossed == \E m \in N : (old < m /\ m <= new) \/ (new < m /\ m <= old)
<1>1. old \in Nat /\ new \in Nat
  BY RanksAreNumbers, Zenon DEF Rekeyed
<1>2. ~ (/\ below(old, N \cup extended) \/ below(new, N \cup extended)
         /\ \/ below(old, N) # below(new, N)
            \/ crossed
            \/ DOMAIN L # {} /\ \E m \in N \cup extended : old < m \/ new < m)
  BY Zenon DEF crossesThreshold
<1> HIDE DEF extended, old, new
<1>3. ~ ((old < n /\ n <= new) \/ (new < n /\ n <= old))
  <2> SUFFICES ASSUME (old < n /\ n <= new) \/ (new < n /\ n <= old) PROVE FALSE
    BY Zenon
  <2>1. crossed
    BY Zenon
  <2>2. n + maxDeselected = n
    OBVIOUS
  <2>3. below(old, N \cup extended) \/ below(new, N \cup extended)
    BY <2>2, Zenon
  <2> QED BY <1>2, <2>1, <2>3, Zenon
<1>4. old < n <=> new < n
  BY <1>1, <1>3
<1> QED BY <1>4, TopAfterMove DEF old, new

(***************************************************************************)
(* A group, when a session comes or goes.                                  *)
(***************************************************************************)
\* A function into sets of tracks, changed at one session.
LEMMA PutTracks ==
    ASSUME NEW f \in [Sessions -> SUBSET Tracks], NEW s \in Sessions, NEW x \in SUBSET Tracks
    PROVE  /\ [f EXCEPT ![s] = x] \in [Sessions -> SUBSET Tracks]
           /\ \A u \in Sessions : [f EXCEPT ![s] = x][u] = IF u = s THEN x ELSE f[u]
<1> DEFINE P == SUBSET Tracks
<1>1. f \in [Sessions -> P] /\ x \in P
  OBVIOUS
<1> HIDE DEF P
<1>2. /\ [f EXCEPT ![s] = x] \in [Sessions -> P]
      /\ \A u \in Sessions : [f EXCEPT ![s] = x][u] = IF u = s THEN x ELSE f[u]
  BY <1>1
<1> QED BY <1>2 DEF P

\* A session is entered in a group, and erased from it.
Added(G, s) == [G EXCEPT !.sessions = @ \cup {s}, !.selected[s] = {}]
Erased(G, s) == [G EXCEPT !.sessions = @ \ {s}, !.selected[s] = {}, !.got[s] = {}]

\* A session that joins, a viewer or a publisher, and is served.
LEMMA AddShows ==
    ASSUME DOMAIN ranked \subseteq Tracks, NEW n, NEW G, Shows(G, TopN(ranked, n), TopN(ranked, n)),
           NEW s \in Sessions, s \notin G.sessions
    PROVE  LET H == Added(G, s)
               T == TopN(ranked, n)
           IN /\ isPublisher(ranked, s) => Shows(reconcilePublisherSelection(ranked, H, n, {s}), T, T)
              /\ ~ isPublisher(ranked, s) => Shows(Deliver(H, {s}, T), T, T)
<1> DEFINE H == Added(G, s)
           T == TopN(ranked, n)
           selected == [G.selected EXCEPT ![s] = {}]
           G1 == WithSessions(G, G.sessions \cup {s})
<1>1. /\ G \in TopNGroup /\ G.sessions \cup {s} \in SUBSET Sessions /\ G.selected \in [Sessions -> SUBSET Tracks]
      /\ G.got \in [Sessions -> SUBSET Tracks] /\ T \in SUBSET Tracks
  BY DEF Shows, TopNGroup, TopN
<1>2. selected \in [Sessions -> SUBSET Tracks]
  BY <1>1, PutTracks, Zenon
<1>3. H = WithSelected(G1, selected)
  BY DEF Added, WithSelected, WithSessions
<1> HIDE DEF selected, T, H
<1>4. /\ G1 \in TopNGroup /\ G1.sessions = G.sessions \cup {s} /\ G1.sel = G.sel /\ G1.des = G.des
      /\ G1.queue = G.queue /\ G1.got = G.got
  BY <1>1, PutSessions, Zenon
<1> HIDE DEF G1
<1>5. /\ H \in TopNGroup /\ H.sessions = G.sessions \cup {s} /\ H.sel = G.sel /\ H.des = G.des
      /\ H.queue = G.queue /\ H.got = G.got
  BY <1>2, <1>3, <1>4, PutSelected, Zenon
<1>6. G.sel = T /\ G.des = {} /\ G.queue = <<>>
      /\ \A u \in Watchers : G.got[u] = IF u \in G.sessions THEN T ELSE {}
  BY Zenon DEF Shows, T
<1>7. ASSUME isPublisher(ranked, s)
      PROVE  Shows(reconcilePublisherSelection(ranked, H, n, {s}), T, T)
  <2>1. s \notin Watchers
    BY <1>7, Zenon DEF isPublisher, Watchers
  <2>2. Shows(H, T, T)
    BY <1>5, <1>6, <2>1, Zenon DEF Shows
  <2>3. {s} \cap Watchers = {}
    BY <2>1, Zenon
  <2> QED BY <2>2, <2>3, ReconcileShows
<1>8. Shows(Deliver(H, {s}, T), T, T)
  <2> DEFINE got == [u \in Sessions |-> IF u \in {s} THEN H.got[u] \cup T ELSE H.got[u]]
             H1 == WithGot(H, got)
  <2>1. Deliver(H, {s}, T) = H1
    BY DEF Deliver, WithGot
  <2>2. H.got \in [Sessions -> SUBSET Tracks]
    BY <1>1, <1>5, Zenon
  <2>3. got \in [Sessions -> SUBSET Tracks]
    BY <1>1, <2>2
  <2>4. \A u \in Watchers : got[u] = IF u \in H.sessions THEN T ELSE {}
    <3>1. \A u \in Watchers : got[u] = IF u \in {s} THEN H.got[u] \cup T ELSE H.got[u]
      BY Zenon DEF Watchers
    <3> HIDE DEF got
    <3>2. ASSUME NEW u \in Watchers
          PROVE  got[u] = IF u \in H.sessions THEN T ELSE {}
      <4>1. CASE u = s
        <5>1. got[u] = G.got[u] \cup T /\ G.got[u] = {} /\ u \in H.sessions
          BY <1>5, <1>6, <3>1, <4>1, Zenon
        <5> QED BY <5>1, Zenon
      <4>2. CASE u # s
        BY <1>5, <1>6, <3>1, <4>2, Zenon
      <4> QED BY <4>1, <4>2, Zenon
    <3> QED BY <3>2, Zenon
  <2> HIDE DEF got
  <2>5. /\ H1 \in TopNGroup /\ H1.sessions = H.sessions /\ H1.sel = H.sel /\ H1.des = H.des
        /\ H1.queue = H.queue /\ H1.got = got
    BY <1>5, <2>3, PutGot, Zenon
  <2> HIDE DEF H1
  <2> QED BY <1>5, <1>6, <2>1, <2>4, <2>5, Zenon DEF Shows
<1> QED BY <1>7, <1>8, Zenon DEF T, H

\* A session that leaves, and is served no more.
LEMMA RemoveShows ==
    ASSUME NEW G, NEW T, Shows(G, T, T), NEW s \in Sessions
    PROVE  Shows(Erased(G, s), T, T)
<1> DEFINE H == Erased(G, s)
           selected == [G.selected EXCEPT ![s] = {}]
           got == [G.got EXCEPT ![s] = {}]
           G1 == WithSessions(G, G.sessions \ {s})
           G2 == WithSelected(G1, selected)
<1>1. /\ G \in TopNGroup /\ G.sessions \ {s} \in SUBSET Sessions /\ G.selected \in [Sessions -> SUBSET Tracks]
      /\ G.got \in [Sessions -> SUBSET Tracks]
  BY DEF Shows, TopNGroup
<1>2. selected \in [Sessions -> SUBSET Tracks]
  BY <1>1, PutTracks, Zenon
<1>3. got \in [Sessions -> SUBSET Tracks] /\ \A u \in Sessions : got[u] = IF u = s THEN {} ELSE G.got[u]
  BY <1>1, PutTracks, Zenon
<1>4. H = WithGot(G2, got)
  BY DEF Erased, WithGot, WithSelected, WithSessions
<1> HIDE DEF selected, got, H
<1>5. /\ G1 \in TopNGroup /\ G1.sessions = G.sessions \ {s} /\ G1.sel = G.sel /\ G1.des = G.des
      /\ G1.queue = G.queue
  BY <1>1, PutSessions, Zenon
<1> HIDE DEF G1
<1>6. /\ G2 \in TopNGroup /\ G2.sessions = G.sessions \ {s} /\ G2.sel = G.sel /\ G2.des = G.des
      /\ G2.queue = G.queue
  BY <1>2, <1>5, PutSelected, Zenon
<1> HIDE DEF G2
<1>7. /\ H \in TopNGroup /\ H.sessions = G.sessions \ {s} /\ H.sel = G.sel /\ H.des = G.des
      /\ H.queue = G.queue /\ H.got = got
  BY <1>3, <1>4, <1>6, PutGot, Zenon
<1>8. G.sel = T /\ G.des = {} /\ G.queue = <<>>
      /\ \A u \in Watchers : u \in Sessions /\ G.got[u] = IF u \in G.sessions THEN T ELSE {}
  BY Zenon DEF Shows, Watchers
<1>9. ASSUME NEW u \in Watchers
      PROVE  got[u] = IF u \in H.sessions THEN T ELSE {}
  <2>1. CASE u = s
    BY <1>3, <1>7, <1>8, <2>1, Zenon
  <2>2. CASE u # s
    BY <1>3, <1>7, <1>8, <2>2, Zenon
  <2> QED BY <2>1, <2>2, Zenon
<1> QED BY <1>7, <1>8, <1>9, Zenon DEF Shows, H

(***************************************************************************)
(* The invariant.                                                          *)
(***************************************************************************)
\* Arrival numbers are below nextSeq_; until an idle track is put aside, every
\* group shows the N best of the ranking.
RInv ==
    /\ sweeps \in Nat /\ nextSeq \in Nat
    /\ DOMAIN ranked \subseteq Tracks /\ IsRanking(ranked)
    /\ \A t \in DOMAIN ranked : ranked[t] \in [value : Nat, seq : Nat] /\ ranked[t].seq < nextSeq
    /\ sweeps = 0 => \A n \in DOMAIN groups : n \in Nat /\ Shows(groups[n], TopN(ranked, n), TopN(ranked, n))

\* A ranking is one again after each of its changes.
LEMMA RegisteredRanking ==
    ASSUME RInv, NEW t \in Tracks, t \notin DOMAIN ranked, NEW v \in Nat
    PROVE  LET K == Registered(t, v)
           IN /\ OneMore(ranked, K, t) /\ DOMAIN K \subseteq Tracks
              /\ \A u \in DOMAIN K : K[u] \in [value : Nat, seq : Nat] /\ K[u].seq < nextSeq + 1
<1> DEFINE K == Registered(t, v)
<1>1. /\ DOMAIN K = DOMAIN ranked \cup {t}
      /\ K[t] = [value |-> v, seq |-> nextSeq]
      /\ \A u \in DOMAIN ranked : K[u] = ranked[u]
  BY Zenon DEF Registered
<1> HIDE DEF K
<1>2. /\ nextSeq \in Nat /\ IsRanking(ranked) /\ DOMAIN ranked \subseteq Tracks
      /\ \A u \in DOMAIN ranked : ranked[u] \in [value : Nat, seq : Nat] /\ ranked[u].seq < nextSeq
  BY Zenon DEF RInv
<1>3. \A u \in DOMAIN K : K[u] \in [value : Nat, seq : Nat] /\ K[u].seq < nextSeq + 1
  <2>1. K[t] \in [value : Nat, seq : Nat] /\ K[t].seq < nextSeq + 1
    BY <1>1, <1>2
  <2>2. \A u \in DOMAIN ranked : ranked[u].seq < nextSeq + 1
    BY <1>2
  <2> QED BY <1>1, <1>2, <2>1, <2>2, Zenon
<1>4. IsFiniteSet(DOMAIN K)
  <2>1. IsFiniteSet(DOMAIN ranked)
    BY <1>2, Zenon DEF IsRanking
  <2>2. IsFiniteSet(DOMAIN ranked \cup {t})
    BY <2>1, FS_AddElement
  <2> QED BY <1>1, <2>2, Zenon
<1>5. \A u \in DOMAIN K : K[u].value \in Nat /\ K[u].seq \in Nat
  BY <1>3
<1>6. \A u, w \in DOMAIN K : K[u].seq = K[w].seq => u = w
  <2>1. K[t].seq = nextSeq
    BY <1>1
  <2>2. \A u \in DOMAIN ranked : K[u].seq # nextSeq
    BY <1>1, <1>2
  <2>3. \A u, w \in DOMAIN ranked : K[u].seq = K[w].seq => u = w
    BY <1>1, <1>2, Zenon DEF IsRanking
  <2> QED BY <1>1, <2>1, <2>2, <2>3, Zenon
<1>7. IsRanking(K)
  BY <1>4, <1>5, <1>6, Zenon DEF IsRanking
<1>8. OneMore(ranked, K, t) /\ DOMAIN K \subseteq Tracks
  BY <1>1, <1>2, <1>7, Zenon DEF OneMore
<1> QED BY <1>3, <1>8, Zenon DEF K

LEMMA RekeyedRanking ==
    ASSUME RInv, NEW t \in DOMAIN ranked, NEW v \in Nat
    PROVE  LET K == [ranked EXCEPT ![t].value = v]
           IN /\ Rekeyed(ranked, K, t) /\ DOMAIN K \subseteq Tracks
              /\ \A u \in DOMAIN K : K[u] \in [value : Nat, seq : Nat] /\ K[u].seq < nextSeq
<1> DEFINE K == [ranked EXCEPT ![t].value = v]
<1>1. /\ nextSeq \in Nat /\ IsRanking(ranked) /\ DOMAIN ranked \subseteq Tracks
      /\ \A u \in DOMAIN ranked : ranked[u] \in [value : Nat, seq : Nat] /\ ranked[u].seq < nextSeq
  BY Zenon DEF RInv
<1>2. /\ DOMAIN K = DOMAIN ranked
      /\ K[t] = [ranked[t] EXCEPT !.value = v]
      /\ \A u \in DOMAIN ranked \ {t} : K[u] = ranked[u]
  OBVIOUS
<1> HIDE DEF K
<1>3. K[t] \in [value : Nat, seq : Nat] /\ K[t].seq = ranked[t].seq
  <2> DEFINE k == ranked[t]
  <2>1. k \in [value : Nat, seq : Nat]
    BY <1>1, Zenon
  <2> HIDE DEF k
  <2>2. [k EXCEPT !.value = v] \in [value : Nat, seq : Nat] /\ [k EXCEPT !.value = v].seq = k.seq
    BY <2>1
  <2> QED BY <1>2, <2>2 DEF k
<1>4. \A u \in DOMAIN K : K[u] \in [value : Nat, seq : Nat] /\ K[u].seq = ranked[u].seq
  BY <1>1, <1>2, <1>3, Zenon
<1>5. \A u \in DOMAIN K : K[u].value \in Nat /\ K[u].seq \in Nat
  BY <1>4
<1>6. IsRanking(K)
  BY <1>1, <1>2, <1>4, <1>5, Zenon DEF IsRanking
<1>7. Rekeyed(ranked, K, t)
  BY <1>1, <1>2, <1>6, Zenon DEF Rekeyed
<1> QED BY <1>1, <1>2, <1>4, <1>7, Zenon DEF K

LEMMA ReducedRanking ==
    ASSUME RInv, NEW t \in DOMAIN ranked
    PROVE  LET K == [u \in DOMAIN ranked \ {t} |-> ranked[u]]
           IN /\ OneMore(K, ranked, t) /\ DOMAIN K \subseteq Tracks
              /\ \A u \in DOMAIN K : K[u] \in [value : Nat, seq : Nat] /\ K[u].seq < nextSeq
<1> DEFINE K == [u \in DOMAIN ranked \ {t} |-> ranked[u]]
<1>1. /\ IsRanking(ranked) /\ DOMAIN ranked \subseteq Tracks
      /\ \A u \in DOMAIN ranked : ranked[u] \in [value : Nat, seq : Nat] /\ ranked[u].seq < nextSeq
  BY Zenon DEF RInv
<1>2. DOMAIN K = DOMAIN ranked \ {t} /\ \A u \in DOMAIN K : K[u] = ranked[u]
  BY Zenon
<1> HIDE DEF K
<1>3. IsRanking(K)
  BY <1>1, <1>2, FS_RemoveElement, Zenon DEF IsRanking
<1>4. OneMore(K, ranked, t)
  BY <1>1, <1>2, <1>3, Zenon DEF OneMore
<1> QED BY <1>1, <1>2, <1>4, Zenon DEF K

\* It is enough to look at the groups as long as nothing was put aside.
GroupsShow(K, Gs) == \A n \in DOMAIN Gs : n \in Nat /\ Shows(Gs[n], TopN(K, n), TopN(K, n))

LEMMA RegisterKeeps ==
    ASSUME maxDeselected = 0, RInv, NEW t \in Tracks, NEW v \in Values, registerTrack(t, v)
    PROVE  RInv'
<1> DEFINE K == Registered(t, v)
<1>1. v \in Nat
  BY RankingAssumption
<1>2. /\ t \notin DOMAIN ranked /\ ranked' = K /\ nextSeq' = nextSeq + 1 /\ sweeps' = sweeps
      /\ groups' = [n \in DOMAIN groups |-> Joins(K, reconcileNewPublisher(K, groups[n], n, PubOf[t]), n, t)]
  BY Zenon DEF registerTrack
<1>3. /\ OneMore(ranked, K, t) /\ DOMAIN K \subseteq Tracks
      /\ \A u \in DOMAIN K : K[u] \in [value : Nat, seq : Nat] /\ K[u].seq < nextSeq + 1
  BY <1>1, <1>2, RegisteredRanking, Zenon
<1> HIDE DEF K
<1>4. sweeps \in Nat /\ nextSeq \in Nat /\ (sweeps = 0 => GroupsShow(ranked, groups))
  BY Zenon DEF RInv, GroupsShow
<1>5. ASSUME sweeps = 0, NEW n \in DOMAIN groups
      PROVE  n \in Nat /\ Shows(groups'[n], TopN(K, n), TopN(K, n))
  <2> DEFINE G == reconcileNewPublisher(K, groups[n], n, PubOf[t])
  <2>1. n \in Nat /\ Shows(groups[n], TopN(ranked, n), TopN(ranked, n))
    BY <1>4, <1>5, Zenon DEF GroupsShow
  <2>2. Shows(G, TopN(ranked, n), TopN(ranked, n))
    <3> DEFINE T == TopN(ranked, n)
               G0 == groups[n]
    <3>1. Shows(G0, T, T) /\ DOMAIN K \subseteq Tracks
      BY <1>3, <2>1, Zenon
    <3> HIDE DEF T, G0
    <3>2. Shows(reconcileNewPublisher(K, G0, n, PubOf[t]), T, T)
      BY ONLY <3>1, t \in Tracks, NewPublisherShows
    <3> QED BY <3>2, Zenon DEF T, G0
  <2>3. groups'[n] = Joins(K, G, n, t)
    BY <1>2, Zenon
  <2> HIDE DEF G
  <2>4. Shows(Joins(K, G, n, t), TopN(K, n), TopN(K, n))
    BY <1>3, <2>1, <2>2, JoinsShows
  <2> QED BY <2>1, <2>3, <2>4, Zenon
<1>6. sweeps = 0 => GroupsShow(K, groups')
  <2>1. DOMAIN groups' = DOMAIN groups
    BY <1>2, Zenon
  <2> QED BY <1>5, <2>1, Zenon DEF GroupsShow
<1>7. nextSeq' \in Nat
  BY <1>2, <1>4
<1>8. IsRanking(K)
  BY <1>3, Zenon DEF OneMore
<1> QED BY <1>2, <1>3, <1>4, <1>6, <1>7, <1>8, Zenon DEF RInv, GroupsShow

LEMMA UpdateKeeps ==
    ASSUME maxDeselected = 0, RInv, NEW t \in Tracks, NEW v \in Values, NEW order, updateSortValue(t, v, order)
    PROVE  RInv'
<1> DEFINE K == [ranked EXCEPT ![t].value = v]
           old == getCachedRank(ranked, t)
           new == getCachedRank(K, t)
           Gs == [n \in DOMAIN groups |-> Moved(K, groups[n], n, t, old, new)]
<1>1. v \in Nat
  BY RankingAssumption
<1>2. /\ t \in DOMAIN ranked /\ ranked' = K /\ nextSeq' = nextSeq
      /\ \/ /\ crossesThreshold(K, old, new)
            /\ groups' = sweepIdle(K, Gs, order) /\ sweeps' = sweeps + (IF order = <<>> THEN 0 ELSE 1)
         \/ ~ crossesThreshold(K, old, new) /\ groups' = groups /\ sweeps' = sweeps
  BY Zenon DEF updateSortValue
<1>3. /\ Rekeyed(ranked, K, t) /\ DOMAIN K \subseteq Tracks
      /\ \A u \in DOMAIN K : K[u] \in [value : Nat, seq : Nat] /\ K[u].seq < nextSeq
  BY <1>1, <1>2, RekeyedRanking, Zenon
<1> HIDE DEF K
<1>4. sweeps \in Nat /\ nextSeq \in Nat /\ (sweeps = 0 => GroupsShow(ranked, groups))
  BY Zenon DEF RInv, GroupsShow
<1>5. ASSUME sweeps = 0
      PROVE  GroupsShow(K, Gs)
  <2>1. ASSUME NEW n \in DOMAIN groups
        PROVE  n \in Nat /\ Shows(Gs[n], TopN(K, n), TopN(K, n))
    <3>1. n \in Nat /\ Shows(groups[n], TopN(ranked, n), TopN(ranked, n))
      BY <1>4, <1>5, Zenon DEF GroupsShow
    <3>2. Shows(Moved(K, groups[n], n, t, old, new), TopN(K, n), TopN(K, n))
      BY <1>3, <3>1, MovedShows
    <3> QED BY <3>1, <3>2, Zenon
  <2> QED BY <2>1, Zenon DEF GroupsShow
<1>6. ASSUME sweeps = 0, ~ crossesThreshold(K, old, new)
      PROVE  GroupsShow(K, groups)
  <2>1. ASSUME NEW n \in DOMAIN groups
        PROVE  n \in Nat /\ Shows(groups[n], TopN(K, n), TopN(K, n))
    <3>1. n \in Nat /\ Shows(groups[n], TopN(ranked, n), TopN(ranked, n))
      BY <1>4, <1>6, Zenon DEF GroupsShow
    <3>2. TopN(K, n) = TopN(ranked, n)
      BY <1>3, <1>6, <3>1, FastPathKeepsTop, Zenon
    <3> QED BY <3>1, <3>2, Zenon
  <2> QED BY <2>1, Zenon DEF GroupsShow
<1>7. /\ sweeps' \in Nat
      /\ sweeps' = 0 => /\ sweeps = 0
                        /\ crossesThreshold(K, old, new) => order = <<>>
  <2> DEFINE C == crossesThreshold(K, old, new)
  <2>1. \/ C /\ sweeps' = sweeps + (IF order = <<>> THEN 0 ELSE 1)
        \/ ~ C /\ sweeps' = sweeps
    BY <1>2, Zenon
  <2> HIDE DEF C
  <2>2. /\ sweeps' \in Nat
        /\ sweeps' = 0 => sweeps = 0 /\ (C => order = <<>>)
    BY <1>4, <2>1
  <2> QED BY <2>2, Zenon DEF C
<1>8. sweeps' = 0 => GroupsShow(K, groups')
  <2>1. order = <<>> => sweepIdle(K, Gs, order) = Gs
    BY Zenon DEF sweepIdle
  <2> HIDE DEF Gs, old, new
  <2> QED BY <1>2, <1>5, <1>6, <1>7, <2>1, Zenon
<1>9. IsRanking(K)
  BY <1>3, Zenon DEF Rekeyed
<1> QED BY <1>2, <1>3, <1>4, <1>7, <1>8, <1>9, Zenon DEF RInv, GroupsShow

LEMMA ActivityKeeps ==
    ASSUME RInv, NEW t, NEW order, onActivity(t, order)
    PROVE  RInv'
<1>1. sweeps \in Nat /\ sweeps' = sweeps + (IF order = <<>> THEN 0 ELSE 1)
  BY Zenon DEF RInv, onActivity
<1>2. sweeps' \in Nat /\ (sweeps' = 0 => sweeps = 0 /\ order = <<>>)
  BY <1>1
<1>3. order = <<>> => groups' = groups
  BY Zenon DEF onActivity, sweepIdle
<1>4. ranked' = ranked /\ nextSeq' = nextSeq
  BY Zenon DEF onActivity
<1> QED BY <1>2, <1>3, <1>4, Zenon DEF RInv

LEMMA RemoveKeeps ==
    ASSUME RInv, NEW t \in Tracks, removeTrack(t)
    PROVE  RInv'
<1> DEFINE K == [u \in DOMAIN ranked \ {t} |-> ranked[u]]
<1>1. /\ t \in DOMAIN ranked /\ ranked' = K /\ nextSeq' = nextSeq /\ sweeps' = sweeps
      /\ groups' = [n \in DOMAIN groups |-> Leaves(K, Ended(groups[n], t), n, t)]
  BY Zenon DEF removeTrack
<1>2. /\ OneMore(K, ranked, t) /\ DOMAIN K \subseteq Tracks
      /\ \A u \in DOMAIN K : K[u] \in [value : Nat, seq : Nat] /\ K[u].seq < nextSeq
  BY <1>1, ReducedRanking, Zenon
<1> HIDE DEF K
<1>3. /\ sweeps \in Nat /\ nextSeq \in Nat /\ DOMAIN ranked \subseteq Tracks
      /\ sweeps = 0 => GroupsShow(ranked, groups)
  BY Zenon DEF RInv, GroupsShow
<1>4. ASSUME sweeps = 0, NEW n \in DOMAIN groups
      PROVE  n \in Nat /\ Shows(groups'[n], TopN(K, n), TopN(K, n))
  <2> DEFINE G == Ended(groups[n], t)
  <2>1. n \in Nat /\ Shows(groups[n], TopN(ranked, n), TopN(ranked, n))
    BY <1>3, <1>4, Zenon DEF GroupsShow
  <2>2. Shows(G, TopN(ranked, n), TopN(ranked, n) \ {t})
    BY <2>1, EndedShows
  <2>3. groups'[n] = Leaves(K, G, n, t)
    BY <1>1, Zenon
  <2> HIDE DEF G
  <2>4. Shows(Leaves(K, G, n, t), TopN(K, n), TopN(K, n))
    BY <1>2, <1>3, <2>1, <2>2, LeavesShows
  <2> QED BY <2>1, <2>3, <2>4, Zenon
<1>5. sweeps = 0 => GroupsShow(K, groups')
  <2>1. DOMAIN groups' = DOMAIN groups
    BY <1>1, Zenon
  <2> QED BY <1>4, <2>1, Zenon DEF GroupsShow
<1>6. IsRanking(K)
  BY <1>2, Zenon DEF OneMore
<1> QED BY <1>1, <1>2, <1>3, <1>5, <1>6, Zenon DEF RInv, GroupsShow

\* A new group starts with the N best.
LEMMA GroupIsThere ==
    ASSUME RInv, sweeps = 0, NEW n \in Nat
    PROVE  Shows(getOrCreateTopNGroup(n), TopN(ranked, n), TopN(ranked, n))
<1>1. CASE n \in DOMAIN groups
  BY <1>1, Zenon DEF RInv, getOrCreateTopNGroup
<1>2. CASE n \notin DOMAIN groups
  <2> DEFINE T == TopN(ranked, n)
             none == [s \in Sessions |-> {}]
             G == [sessions |-> {}, selected |-> none, sel |-> T, des |-> {}, queue |-> <<>>, got |-> none]
  <2>1. T \in SUBSET Tracks
    BY Zenon DEF T, TopN, RInv
  <2>2. none \in [Sessions -> SUBSET Tracks] /\ \A s \in Watchers : none[s] = {}
    BY DEF Watchers
  <2>3. getOrCreateTopNGroup(n) = G
    BY <1>2, Zenon DEF getOrCreateTopNGroup
  <2> HIDE DEF T, none
  <2>4. /\ G \in TopNGroup /\ G.sel = T /\ G.des = {} /\ G.queue = <<>> /\ G.sessions = {} /\ G.got = none
    BY <2>1, <2>2 DEF TopNGroup
  <2> HIDE DEF G
  <2>5. Shows(G, T, T)
    BY <2>2, <2>4, Zenon DEF Shows
  <2> QED BY <2>3, <2>5, Zenon DEF T
<1> QED BY <1>1, <1>2, Zenon

LEMMA AddSessionKeeps ==
    ASSUME RInv, NEW n \in Ns, NEW s \in Sessions, addSessionToTopNGroup(n, s)
    PROVE  RInv'
<1> DEFINE G0 == getOrCreateTopNGroup(n)
           G == Added(G0, s)
           T == TopN(ranked, n)
           told == IF isPublisher(ranked, s) THEN reconcilePublisherSelection(ranked, G, n, {s})
                   ELSE Deliver(G, {s}, T)
<1>1. /\ \A m \in DOMAIN groups : s \notin groups[m].sessions
      /\ groups' = [m \in DOMAIN groups \cup {n} |-> IF m = n THEN told ELSE groups[m]]
      /\ ranked' = ranked /\ nextSeq' = nextSeq /\ sweeps' = sweeps
  BY Zenon DEF addSessionToTopNGroup, Added
<1>2. n \in Nat
  BY RankingAssumption
<1>3. /\ DOMAIN ranked \subseteq Tracks
      /\ sweeps = 0 => GroupsShow(ranked, groups)
  BY Zenon DEF RInv, GroupsShow
<1>4. s \notin G0.sessions
  <2>1. CASE n \in DOMAIN groups
    BY <1>1, <2>1, Zenon DEF getOrCreateTopNGroup
  <2>2. CASE n \notin DOMAIN groups
    BY <2>2 DEF getOrCreateTopNGroup
  <2> QED BY <2>1, <2>2, Zenon
<1>5. ASSUME sweeps = 0
      PROVE  Shows(told, T, T)
  <2>1. Shows(G0, T, T)
    BY <1>2, <1>5, GroupIsThere, Zenon
  <2> HIDE DEF G0
  <2>2. /\ isPublisher(ranked, s) => Shows(reconcilePublisherSelection(ranked, G, n, {s}), T, T)
        /\ ~ isPublisher(ranked, s) => Shows(Deliver(G, {s}, T), T, T)
    BY <1>3, <1>4, <2>1, AddShows
  <2> HIDE DEF G, T
  <2> QED BY <2>2, Zenon
<1> HIDE DEF told
<1>6. ASSUME sweeps = 0, NEW m \in DOMAIN groups'
      PROVE  m \in Nat /\ Shows(groups'[m], TopN(ranked, m), TopN(ranked, m))
  <2>1. m \in DOMAIN groups \cup {n} /\ groups'[m] = IF m = n THEN told ELSE groups[m]
    BY <1>1, <1>6, Zenon
  <2>2. CASE m = n
    BY <1>2, <1>5, <1>6, <2>1, <2>2, Zenon
  <2>3. CASE m # n
    BY <1>3, <1>6, <2>1, <2>3, Zenon DEF GroupsShow
  <2> QED BY <2>2, <2>3, Zenon
<1>7. sweeps = 0 => GroupsShow(ranked, groups')
  BY <1>6, Zenon DEF GroupsShow
<1> QED BY <1>1, <1>7, Zenon DEF RInv, GroupsShow

LEMMA RemoveSessionKeeps ==
    ASSUME RInv, NEW n \in DOMAIN groups, NEW s \in Sessions, removeSessionFromTopNGroup(n, s)
    PROVE  RInv'
<1>1. /\ \/ groups' = [m \in DOMAIN groups \ {n} |-> groups[m]]
         \/ groups' = [groups EXCEPT ![n] = Erased(groups[n], s)]
      /\ ranked' = ranked /\ nextSeq' = nextSeq /\ sweeps' = sweeps
  BY Zenon DEF removeSessionFromTopNGroup, Erased
<1>2. sweeps = 0 => GroupsShow(ranked, groups)
  BY Zenon DEF RInv, GroupsShow
<1>3. ASSUME sweeps = 0
      PROVE  GroupsShow(ranked, groups')
  <2>1. CASE groups' = [m \in DOMAIN groups \ {n} |-> groups[m]]
    BY <1>2, <1>3, <2>1, Zenon DEF GroupsShow
  <2>2. CASE groups' = [groups EXCEPT ![n] = Erased(groups[n], s)]
    <3>1. Shows(groups[n], TopN(ranked, n), TopN(ranked, n))
      BY <1>2, <1>3, Zenon DEF GroupsShow
    <3>2. Shows(Erased(groups[n], s), TopN(ranked, n), TopN(ranked, n))
      BY <3>1, RemoveShows, Zenon
    <3> QED BY <1>2, <1>3, <2>2, <3>2, Zenon DEF GroupsShow
  <2> QED BY <1>1, <2>1, <2>2, Zenon
<1> QED BY <1>1, <1>3, Zenon DEF RInv, GroupsShow

\* RInv is inductive.
THEOREM RankingInvariant == ASSUME maxDeselected = 0 PROVE Spec => []RInv
<1>1. Init => RInv
  <2> SUFFICES ASSUME Init PROVE RInv
    OBVIOUS
  <2>1. ranked = <<>> /\ groups = <<>> /\ nextSeq = 0 /\ sweeps = 0
    BY Zenon DEF Init
  <2>2. DOMAIN ranked = {} /\ DOMAIN groups = {} /\ nextSeq \in Nat /\ sweeps \in Nat
    BY <2>1
  <2> QED BY <2>2, FS_EmptySet, Zenon DEF RInv, IsRanking
<1>2. RInv /\ [Next]_vars => RInv'
  <2> SUFFICES ASSUME RInv, [Next]_vars PROVE RInv'
    OBVIOUS
  <2>1. ASSUME NEW t \in Tracks, NEW v \in Values, registerTrack(t, v) PROVE RInv'
    BY <2>1, RegisterKeeps, Zenon
  <2>2. ASSUME NEW t \in Tracks, NEW v \in Values, NEW order \in Idle(t), updateSortValue(t, v, order) PROVE RInv'
    BY <2>2, UpdateKeeps, Zenon
  <2>3. ASSUME NEW t \in Tracks, NEW order \in Idle(t), onActivity(t, order) PROVE RInv'
    BY <2>3, ActivityKeeps, Zenon
  <2>4. ASSUME NEW t \in Tracks, removeTrack(t) PROVE RInv'
    BY <2>4, RemoveKeeps, Zenon
  <2>5. ASSUME NEW n \in Ns, NEW s \in Sessions, addSessionToTopNGroup(n, s) PROVE RInv'
    BY <2>5, AddSessionKeeps, Zenon
  <2>6. ASSUME NEW n \in DOMAIN groups, NEW s \in Sessions, removeSessionFromTopNGroup(n, s) PROVE RInv'
    BY <2>6, RemoveSessionKeeps, Zenon
  <2>7. CASE UNCHANGED vars
    BY <2>7, Zenon DEF vars, RInv
  <2> QED BY <2>1, <2>2, <2>3, <2>4, <2>5, <2>6, <2>7, Zenon DEF Next
<1> QED BY <1>1, <1>2, PTL DEF Spec

\* As long as no idle track was put aside, the shared selection of every group,
\* which registerTrack, updateSortValue and removeTrack only ever patch, and
\* which the fast path of updateSortValue does not even look at, is the N best
\* of the ranking.
THEOREM SelectionIsExact == ASSUME maxDeselected = 0 PROVE Spec => []SelectionIsTopN
<1>1. RInv => SelectionIsTopN
  BY Zenon DEF RInv, Shows, SelectionIsTopN
<1> QED BY <1>1, RankingInvariant, PTL

\* And the callbacks, each of which names one track, add up to that selection
\* for every session that publishes nothing.
THEOREM ViewersGetTheSelection == ASSUME maxDeselected = 0 PROVE Spec => []ViewersFollow
<1>1. RInv => ViewersFollow
  <2> SUFFICES ASSUME RInv, sweeps = 0, NEW n \in DOMAIN groups,
                      NEW s \in groups[n].sessions \ {PubOf[t] : t \in Tracks}
               PROVE  groups[n].got[s] = groups[n].sel \cup groups[n].des
    BY Zenon DEF ViewersFollow
  <2>1. Shows(groups[n], TopN(ranked, n), TopN(ranked, n))
    BY Zenon DEF RInv
  <2>2. groups[n].sessions \subseteq Sessions
    BY <2>1 DEF Shows, TopNGroup
  <2>3. s \in Watchers
    BY <2>2, Zenon DEF Watchers
  <2>4. groups[n].got[s] = groups[n].sel /\ groups[n].des = {}
    BY <2>1, <2>3, Zenon DEF Shows
  <2> QED BY <2>4, Zenon
<1> QED BY <1>1, RankingInvariant, PTL
=============================================================================
