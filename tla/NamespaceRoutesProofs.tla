------------------------ MODULE NamespaceRoutesProofs ------------------------
(***************************************************************************)
(* The namespace tree, for any finite set of namespaces: no count of       *)
(* active children falls short of the children it stands for, pruning      *)
(* loses nothing, and those told of a namespace are told of what is        *)
(* current.  Last, the requests parked until a publisher appears.          *)
(***************************************************************************)
EXTENDS MCNamespaces, FiniteSetTheorems, WellFoundedInduction, TLAPS

(***************************************************************************)
(* Namespaces and their prefixes.                                          *)
(***************************************************************************)
\* A non-empty set of numbers has a least one.
LEMMA LeastNatural ==
    ASSUME NEW S, S \subseteq Nat, S # {}
    PROVE  \E m \in S : \A k \in S : m <= k
<1>1. PICK m \in S : \A k \in S : ~ (<<k, m>> \in OpToRel(<, Nat))
  BY NatLessThanWellFounded, WFMin, Zenon
<1>2. \A k \in S : ~ (k < m)
  BY <1>1, Zenon DEF OpToRel
<1> QED BY <1>2

\* A namespace is below another when it starts with it.
LEMMA UnderMeans ==
    ASSUME NEW p \in Namespaces, NEW n \in Namespaces
    PROVE  /\ Len(p) \in Nat
           /\ Under(p, n) <=> Len(p) <= Len(n) /\ \A i \in 1 .. Len(p) : n[i] = p[i]
<1>1. p \in Seq(Labels) /\ n \in Seq(Labels)
  BY TreeAssumption, Zenon
<1>2. Len(p) \in Nat /\ Len(n) \in Nat
  BY <1>1
<1>3. Len(p) <= Len(n) => (SubSeq(n, 1, Len(p)) = p <=> \A i \in 1 .. Len(p) : n[i] = p[i])
  BY <1>1, <1>2
<1> QED BY <1>2, <1>3, Zenon DEF Under

\* Namespaces are the same when their labels are.
LEMMA SameLabels ==
    ASSUME NEW p \in Namespaces, NEW q \in Namespaces, Len(p) = Len(q), \A i \in 1 .. Len(p) : p[i] = q[i]
    PROVE  p = q
<1>1. p \in Seq(Labels) /\ q \in Seq(Labels)
  BY TreeAssumption, Zenon
<1> QED BY <1>1

\* Under is a partial order in which the prefixes of a namespace form a chain.
LEMMA UnderOrder ==
    ASSUME NEW p \in Namespaces, NEW q \in Namespaces, NEW n \in Namespaces
    PROVE  /\ Under(n, n)
           /\ Under(p, q) /\ Under(q, n) => Under(p, n)
           /\ Under(p, q) /\ Under(q, p) => p = q
           /\ Under(p, n) /\ Under(q, n) => Under(p, q) \/ Under(q, p)
           /\ Under(p, q) /\ p # q => Len(p) < Len(q)
           /\ Under(p, n) /\ Under(q, n) /\ Len(p) = Len(q) => p = q
<1>1. Under(n, n)
  BY UnderMeans
<1>2. Under(p, q) /\ Under(q, n) => Under(p, n)
  BY UnderMeans
<1>3. ASSUME Under(p, q), Len(p) >= Len(q)
      PROVE  p = q
  <2>1. Len(p) = Len(q) /\ \A i \in 1 .. Len(p) : p[i] = q[i]
    BY <1>3, UnderMeans
  <2> QED BY <2>1, SameLabels, Zenon
<1>4. Under(p, q) /\ Under(q, p) => p = q
  BY <1>3, UnderMeans, Zenon
<1>5. Under(p, n) /\ Under(q, n) => Under(p, q) \/ Under(q, p)
  BY UnderMeans
<1>6. Under(p, q) /\ p # q => Len(p) < Len(q)
  BY <1>3, UnderMeans
<1>7. ASSUME Under(p, n), Under(q, n), Len(p) = Len(q)
      PROVE  p = q
  <2>1. \A i \in 1 .. Len(p) : p[i] = q[i]
    BY <1>7, UnderMeans
  <2> QED BY <1>7, <2>1, SameLabels, Zenon
<1> QED BY <1>1, <1>2, <1>4, <1>5, <1>6, <1>7, Zenon

\* The children of p: one label more.
Child(p, c) == Len(c) = Len(p) + 1 /\ Under(p, c)

\* The child of p on the way to n.
LEMMA OnTheWay ==
    ASSUME NEW p \in Namespaces, NEW n \in Namespaces, Under(p, n), p # n
    PROVE  \E c \in Namespaces : Child(p, c) /\ Under(c, n)
<1> DEFINE c == SubSeq(n, 1, Len(p) + 1)
<1>1. n \in Seq(Labels) /\ Len(p) \in Nat /\ Len(n) \in Nat /\ Len(p) + 1 <= Len(n)
  BY UnderOrder, UnderMeans, TreeAssumption
<1>2. c \in Namespaces
  BY <1>1, TreeAssumption
<1>3. Len(c) = Len(p) + 1 /\ \A i \in 1 .. Len(p) + 1 : c[i] = n[i]
  BY <1>1
<1>4. \A i \in 1 .. Len(p) : p[i] = n[i]
  BY UnderMeans, Zenon
<1> HIDE DEF c
<1>5. Under(p, c) /\ Under(c, n)
  BY <1>1, <1>2, <1>3, <1>4, UnderMeans
<1> QED BY <1>2, <1>3, <1>5, Zenon DEF Child

\* What is above a child is its parent or above that.
LEMMA AboveChild ==
    ASSUME NEW p \in Namespaces, NEW c \in Namespaces, Child(p, c), NEW q \in Namespaces, Under(q, c), q # c
    PROVE  Under(q, p)
<1>1. Len(q) < Len(c) /\ Len(c) = Len(p) + 1 /\ Under(p, c)
  BY UnderOrder, Zenon DEF Child
<1>2. Len(p) \in Nat /\ Len(q) \in Nat
  BY UnderMeans, Zenon
<1>3. Under(q, p) \/ Under(p, q)
  BY <1>1, UnderOrder, Zenon
<1>4. Under(p, q) => p = q
  BY <1>1, <1>2, UnderOrder
<1> QED BY <1>3, <1>4, UnderOrder, Zenon

\* The highest of some nodes on the way to n.
LEMMA Highest ==
    ASSUME NEW n \in Namespaces, NEW S, S # {}, \A p \in S : p \in Namespaces /\ Under(p, n)
    PROVE  \E top \in S : \A q \in S : Under(top, q)
<1>1. {Len(p) : p \in S} \subseteq Nat /\ {Len(p) : p \in S} # {}
  BY UnderMeans, Zenon
<1>2. PICK m \in {Len(p) : p \in S} : \A k \in {Len(p) : p \in S} : m <= k
  BY <1>1, LeastNatural, Zenon
<1>3. PICK top \in S : Len(top) = m
  BY <1>2, Zenon
<1>4. \A q \in S : Len(top) <= Len(q)
  BY <1>2, <1>3, Zenon
<1>5. ASSUME NEW q \in S
      PROVE  Under(top, q)
  <2>1. Under(top, q) \/ Under(q, top)
    BY <1>3, UnderOrder, Zenon
  <2>2. Len(top) <= Len(q) /\ Len(top) \in Nat /\ Len(q) \in Nat
    BY <1>3, <1>4, UnderMeans, Zenon
  <2>3. ~ (Len(q) < Len(top))
    BY <2>2
  <2> QED BY <2>1, <2>3, UnderOrder, Zenon
<1> QED BY <1>5, Zenon

\* The way to x leaves the way to n below some node p.
LEMMA Fork ==
    ASSUME NEW n \in Namespaces, NEW x \in Namespaces, ~ Under(n, x), ~ Under(x, n)
    PROVE  \E p, c, d \in Namespaces :
              /\ Child(p, c) /\ Under(c, n) /\ Child(p, d) /\ Under(d, x) /\ c # d
              /\ \A q \in Namespaces : Under(q, n) /\ Under(q, x) => Under(q, p)
<1> DEFINE Apart == {c \in Namespaces : Under(c, n) /\ ~ Under(c, x)}
<1>1. n \in Apart
  BY UnderOrder, Zenon
<1>2. PICK c \in Apart : \A q \in Apart : Under(c, q)
  BY <1>1, Highest, Zenon
<1>3. Len(c) \in Nat /\ Len(c) > 0 /\ c \in Namespaces
  BY <1>2, UnderMeans
<1>k. PICK k \in Nat : Len(c) = k + 1
  <2>1. Len(c) - 1 \in Nat /\ Len(c) = (Len(c) - 1) + 1
    BY <1>3
  <2> QED BY <2>1, Zenon
<1> DEFINE p == SubSeq(c, 1, k)
<1>4. p \in Namespaces /\ Child(p, c)
  <2>1. c \in Seq(Labels) /\ k \in 0 .. Len(c)
    BY <1>3, <1>k, TreeAssumption
  <2>2. p \in Namespaces
    BY <1>3, <2>1, TreeAssumption, Zenon
  <2>3. Len(p) = k /\ \A i \in 1 .. k : p[i] = c[i]
    BY <1>k, <2>1
  <2> HIDE DEF p
  <2>4. Under(p, c)
    BY <1>3, <1>k, <2>2, <2>3, UnderMeans
  <2> QED BY <1>k, <2>2, <2>3, <2>4, Zenon DEF Child
<1> HIDE DEF p
<1>5. Under(p, c) /\ p # c
  BY <1>3, <1>4 DEF Child
<1>6. Under(p, n) /\ Under(p, x)
  <2>1. Under(p, n)
    BY <1>2, <1>4, <1>5, UnderOrder
  <2>2. ~ Under(c, p)
    BY <1>3, <1>4, <1>5, UnderOrder, Zenon
  <2> QED BY <1>2, <1>4, <2>1, <2>2, Zenon
<1>7. p # x
  BY <1>6, Zenon
<1>8. PICK d \in Namespaces : Child(p, d) /\ Under(d, x)
  BY <1>4, <1>6, <1>7, OnTheWay, Zenon
<1>9. \A q \in Namespaces : Under(q, n) /\ Under(q, x) => Under(q, p)
  <2> SUFFICES ASSUME NEW q \in Namespaces, Under(q, n), Under(q, x)
               PROVE  Under(q, p)
    BY Zenon
  <2>1. ~ Under(c, q)
    BY <1>2, <1>3, UnderOrder, Zenon
  <2>2. Under(q, c) /\ q # c
    BY <1>2, <1>3, <2>1, UnderOrder
  <2> QED BY <1>3, <1>4, <2>2, AboveChild, Zenon
<1> QED BY <1>2, <1>3, <1>4, <1>8, <1>9, Zenon

-----------------------------------------------------------------------------
(***************************************************************************)
(* The shape of the tree: the nodes N, the counts A of active children and *)
(* the nodes C that have content.                                          *)
(***************************************************************************)
KeptIn(A, C, n) == n \in C \/ A[n] > 0

Kids(N, A, C, p) == {c \in N : Child(p, c) /\ KeptIn(A, C, c)}

\* The nodes are closed under prefixes, what has content or counts an active
\* child is one of them and is counted all the way up, and no node counts less
\* than the children it must keep.
Sound(N, A, C) ==
    /\ C \subseteq N /\ N \subseteq Namespaces /\ A \in [Namespaces -> Nat]
    /\ <<>> \in N
    /\ \A n \in N : Above(n) \subseteq N
    /\ \A n \in Namespaces \ N : A[n] = 0
    /\ \A n \in Namespaces : KeptIn(A, C, n) => \A p \in Above(n) : A[p] > 0
    /\ \A p \in Namespaces : Cardinality(Kids(N, A, C, p)) <= A[p]

\* Counting the children of a node.
LEMMA KidsCount ==
    ASSUME NEW N, N \subseteq Namespaces, NEW A, NEW C, NEW p
    PROVE  LET K == Kids(N, A, C, p) IN
           /\ IsFiniteSet(K) /\ Cardinality(K) \in Nat
           /\ \A S \in SUBSET K : Cardinality(S) <= Cardinality(K)
           /\ \A S, x : S \subseteq K \cup {x} => Cardinality(S) <= Cardinality(K) + 1
           /\ \A S : \A x \in K : S \subseteq K \ {x} => Cardinality(S) <= Cardinality(K) - 1
           /\ \A x \in K : Cardinality(K) >= 1
           /\ \A x, y \in K : x # y => Cardinality(K) >= 2
<1> DEFINE K == Kids(N, A, C, p)
<1>1. IsFiniteSet(K)
  <2>1. K \in SUBSET Namespaces
    BY Zenon DEF Kids
  <2> QED BY <2>1, FS_Subset, TreeAssumption, Zenon
<1> HIDE DEF K
<1>2. Cardinality(K) \in Nat
  BY <1>1, FS_CardinalityType, Zenon
<1>3. \A S \in SUBSET K : Cardinality(S) <= Cardinality(K)
  BY <1>1, FS_Subset, Zenon
<1>4. \A S, x : S \subseteq K \cup {x} => Cardinality(S) <= Cardinality(K) + 1
  <2> SUFFICES ASSUME NEW S, NEW x, S \subseteq K \cup {x}
               PROVE  Cardinality(S) <= Cardinality(K) + 1
    BY Zenon
  <2>1. IsFiniteSet(K \cup {x}) /\ Cardinality(K \cup {x}) \in {Cardinality(K), Cardinality(K) + 1}
    BY <1>1, FS_AddElement, Zenon
  <2>2. S \in SUBSET (K \cup {x})
    BY Zenon
  <2>3. IsFiniteSet(S) /\ Cardinality(S) <= Cardinality(K \cup {x})
    BY <2>1, <2>2, FS_Subset, Zenon
  <2>4. Cardinality(S) \in Nat
    BY <2>3, FS_CardinalityType, Zenon
  <2> QED BY <1>2, <2>1, <2>3, <2>4
<1>5. \A S : \A x \in K : S \subseteq K \ {x} => Cardinality(S) <= Cardinality(K) - 1
  <2> SUFFICES ASSUME NEW S, NEW x \in K, S \subseteq K \ {x}
               PROVE  Cardinality(S) <= Cardinality(K) - 1
    BY Zenon
  <2>1. IsFiniteSet(K \ {x}) /\ Cardinality(K \ {x}) = Cardinality(K) - 1
    BY <1>1, FS_RemoveElement, Zenon
  <2>2. S \in SUBSET (K \ {x})
    BY Zenon
  <2> QED BY <2>1, <2>2, FS_Subset
<1>6. \A x \in K : Cardinality(K) >= 1
  BY <1>1, <1>2, FS_EmptySet
<1>7. \A x, y \in K : x # y => Cardinality(K) >= 2
  <2> SUFFICES ASSUME NEW x \in K, NEW y \in K, x # y
               PROVE  Cardinality(K) >= 2
    BY Zenon
  <2>1. {x} \subseteq K \ {y} /\ Cardinality({x}) = 1
    BY FS_Singleton, Zenon
  <2>2. 1 <= Cardinality(K) - 1
    BY <1>5, <2>1, Zenon
  <2> QED BY <1>2, <2>2
<1> QED BY <1>1, <1>2, <1>3, <1>4, <1>5, <1>6, <1>7, Zenon DEF K

\* findNode adds nodes that hold nothing.
LEMMA SoundCreated ==
    ASSUME NEW N, NEW A, NEW C, Sound(N, A, C), NEW n \in Namespaces
    PROVE  Sound(N \cup Above(n) \cup {n}, A, C)
<1> DEFINE M == N \cup Above(n) \cup {n}
<1>1. C \subseteq M /\ M \subseteq Namespaces /\ A \in [Namespaces -> Nat] /\ <<>> \in M
  BY Zenon DEF Sound, Above
<1>2. \A x \in M : Above(x) \subseteq M
  BY UnderOrder, Zenon DEF Sound, Above
<1>3. \A x \in Namespaces \ M : A[x] = 0
  BY Zenon DEF Sound
<1>4. \A p \in Namespaces : Kids(M, A, C, p) = Kids(N, A, C, p)
  <2>1. \A c \in M : KeptIn(A, C, c) => c \in N
    BY <1>1 DEF Sound, KeptIn
  <2> HIDE DEF M
  <2>2. N \subseteq M
    BY Zenon DEF M
  <2> QED BY <2>1, <2>2, Zenon DEF Kids
<1> HIDE DEF M
<1> QED BY <1>1, <1>2, <1>3, <1>4, Zenon DEF Sound, M

\* The nodes of S above n, each of them, from n up to and including the first
\* that is not in S.
Climb(n, S) == {p \in Above(n) : \A q \in Above(n) : Under(p, q) /\ p # q => q \in S}

\* The climb from n goes on to the parent of c exactly when c is n or was climbed and is in S.
LEMMA Climbing ==
    ASSUME NEW n \in Namespaces, NEW S, NEW p \in Namespaces, NEW c \in Namespaces, Child(p, c)
    PROVE  /\ c = n => p \in Climb(n, S)
           /\ c \in Climb(n, S) /\ c \in S => p \in Climb(n, S)
           /\ p \in Climb(n, S) /\ Under(c, n) => c = n \/ (c \in Climb(n, S) /\ c \in S)
<1>1. Under(p, c) /\ p # c
  BY UnderMeans DEF Child
<1>2. ASSUME c = n
      PROVE  p \in Climb(n, S)
  <2>1. p \in Above(n)
    BY <1>1, <1>2, Zenon DEF Above
  <2>2. \A q \in Above(n) : Under(p, q) => p = q
    BY <1>2, AboveChild, UnderOrder, Zenon DEF Above
  <2> QED BY <2>1, <2>2, Zenon DEF Climb
<1>3. ASSUME c \in Climb(n, S), c \in S
      PROVE  p \in Climb(n, S)
  <2>1. Under(c, n) /\ c # n
    BY <1>3, Zenon DEF Climb, Above
  <2>2. p \in Above(n)
    BY <1>1, <2>1, UnderOrder DEF Above
  <2>3. ASSUME NEW q \in Above(n), Under(p, q), p # q
        PROVE  q \in S
    <3>1. q \in Namespaces /\ Under(q, n)
      BY <2>3, Zenon DEF Above
    <3>2. Under(q, c) \/ Under(c, q)
      BY <2>1, <3>1, UnderOrder, Zenon
    <3>3. Under(q, c) => q = c
      BY <2>3, <3>1, AboveChild, UnderOrder, Zenon
    <3> QED BY <1>3, <3>2, <3>3, Zenon DEF Climb
  <2> QED BY <2>2, <2>3, Zenon DEF Climb
<1>4. ASSUME p \in Climb(n, S), Under(c, n), c # n
      PROVE  c \in Climb(n, S) /\ c \in S
  <2>1. c \in Above(n)
    BY <1>4, Zenon DEF Above
  <2>2. c \in S
    BY <1>1, <1>4, <2>1, Zenon DEF Climb
  <2>3. \A q \in Above(n) : Under(c, q) /\ c # q => q \in S
    <3> SUFFICES ASSUME NEW q \in Above(n), Under(c, q), c # q
                 PROVE  q \in S
      BY Zenon
    <3>1. q \in Namespaces
      BY Zenon DEF Above
    <3>2. Under(p, q) /\ p # q
      BY <1>1, <3>1, UnderOrder
    <3> QED BY <1>4, <3>2, Zenon DEF Climb
  <2> QED BY <2>1, <2>2, <2>3, Zenon DEF Climb
<1> QED BY <1>2, <1>3, <1>4, Zenon

\* incrementActiveChildren when n gets its first content.
LEMMA SoundGrown ==
    ASSUME NEW N, NEW A, NEW C, Sound(N, A, C), NEW n \in N,
           NEW S, S = {q \in Namespaces : A[q] = 0 /\ q \notin C},
           NEW B, B = [p \in Namespaces |-> IF p \in Climb(n, S) THEN A[p] + 1 ELSE A[p]]
    PROVE  Sound(N, B, C \cup {n})
<1> DEFINE D == C \cup {n}
<1>0. C \subseteq N /\ N \subseteq Namespaces /\ A \in [Namespaces -> Nat] /\ n \in Namespaces
  BY Zenon DEF Sound
<1>1. /\ B \in [Namespaces -> Nat]
      /\ \A p \in Namespaces : /\ p \in Climb(n, S) => B[p] = A[p] + 1
                               /\ p \notin Climb(n, S) => B[p] = A[p]
  BY <1>0
<1>2. \A p \in Climb(n, S) : p \in N /\ p \in Namespaces /\ Under(p, n) /\ p # n
  BY <1>0, Zenon DEF Climb, Above, Sound
<1>3. ASSUME NEW c \in Namespaces, KeptIn(B, D, c), ~ KeptIn(A, C, c)
      PROVE  c = n \/ (c \in Climb(n, S) /\ c \in S)
  BY <1>0, <1>1, <1>3 DEF KeptIn
<1>4. ASSUME NEW c \in Namespaces, KeptIn(B, D, c), ~ KeptIn(A, C, c), NEW p \in Above(c)
      PROVE  B[p] > 0
  <2>1. p \in Namespaces /\ Under(p, c) /\ p # c
    BY Zenon DEF Above
  <2>2. p \in Above(n)
    <3>1. CASE c = n
      BY <3>1, Zenon
    <3>2. CASE c \in Climb(n, S)
      <4>1. Under(c, n) /\ c # n
        BY <1>2, <3>2, Zenon
      <4>2. Under(p, n) /\ p # n
        BY <1>0, <2>1, <4>1, UnderOrder
      <4> QED BY <2>1, <4>2, Zenon DEF Above
    <3> QED BY <1>3, <1>4, <3>1, <3>2, Zenon
  <2>3. CASE p \in Climb(n, S)
    BY <1>0, <1>1, <2>1, <2>3
  <2>4. CASE p \notin Climb(n, S)
    <3>1. PICK q \in Above(n) : Under(p, q) /\ p # q /\ q \notin S
      BY <2>2, <2>4, Zenon DEF Climb
    <3>2. q \in Namespaces /\ KeptIn(A, C, q) /\ p \in Above(q)
      BY <1>0, <2>1, <3>1 DEF KeptIn, Above
    <3>3. A[p] > 0
      BY <3>2, Zenon DEF Sound
    <3> QED BY <1>1, <2>1, <2>4, <3>3, Zenon
  <2> QED BY <2>3, <2>4, Zenon
<1>5. \A c \in Namespaces : KeptIn(B, D, c) => \A p \in Above(c) : B[p] > 0
  <2> SUFFICES ASSUME NEW c \in Namespaces, KeptIn(A, C, c), NEW p \in Above(c)
               PROVE  B[p] > 0
    BY <1>4, Zenon
  <2>1. A[p] > 0 /\ p \in Namespaces
    BY Zenon DEF Sound, Above
  <2> QED BY <1>0, <1>1, <2>1
<1>6. ASSUME NEW p \in Namespaces
      PROVE  Cardinality(Kids(N, B, D, p)) <= B[p]
  <2> DEFINE K == Kids(N, A, C, p)
             L == Kids(N, B, D, p)
  <2>0. Cardinality(K) <= A[p] /\ Cardinality(K) \in Nat /\ A[p] \in Nat
    BY <1>0, <1>6, KidsCount, Zenon DEF Sound
  <2>1. \A c \in L : c \in Namespaces /\ Child(p, c) /\ (c \notin K => c = n \/ (c \in Climb(n, S) /\ c \in S))
    BY <1>0, <1>3, Zenon DEF Kids
  <2>2. CASE p \in Climb(n, S)
    <3>1. PICK x \in Namespaces : Child(p, x) /\ Under(x, n)
      BY <1>0, <1>2, <2>2, OnTheWay, Zenon
    <3>2. ASSUME NEW c \in L, c \notin K
          PROVE  c = x
      <4>1. c \in Namespaces /\ Child(p, c) /\ Under(c, n)
        BY <1>0, <1>2, <2>1, <3>2, UnderOrder, ZenonT(60)
      <4> QED BY <1>0, <3>1, <4>1, UnderOrder, Zenon DEF Child
    <3>3. L \subseteq K \cup {x}
      BY <3>2, Zenon
    <3> HIDE DEF L
    <3>4. Cardinality(L) <= Cardinality(K) + 1 /\ B[p] = A[p] + 1
      BY <1>0, <1>1, <2>2, <3>3, KidsCount, Zenon
    <3>5. IsFiniteSet(L) /\ Cardinality(L) \in Nat
      BY <1>0, KidsCount, Zenon DEF L
    <3> HIDE DEF K
    <3> QED BY <2>0, <3>4, <3>5 DEF L
  <2>3. CASE p \notin Climb(n, S)
    <3>1. L \subseteq K
      BY <1>0, <2>1, <2>3, Climbing, Zenon
    <3> HIDE DEF L
    <3>2. Cardinality(L) <= Cardinality(K) /\ B[p] = A[p]
      BY <1>0, <1>1, <2>3, <3>1, KidsCount, Zenon
    <3>3. Cardinality(L) \in Nat
      BY <1>0, KidsCount, Zenon DEF L
    <3> HIDE DEF K
    <3> QED BY <2>0, <3>2, <3>3 DEF L
  <2> QED BY <2>2, <2>3, Zenon
<1>7. \A x \in Namespaces \ N : B[x] = 0
  BY <1>1, <1>2, Zenon DEF Sound
<1>8. /\ D \subseteq N /\ <<>> \in N
      /\ \A x \in N : Above(x) \subseteq N
  BY Zenon DEF Sound
<1> HIDE DEF D
<1> QED BY <1>0, <1>1, <1>5, <1>6, <1>7, <1>8, Zenon DEF Sound, D

\* The nodes that are kept by one active child alone, the ones that go with n
\* when it is one of them, and the nodes and the counts when top goes.
Lone(A, C) == {q \in Namespaces : A[q] = 1 /\ q \notin C}

Gone(A, C, n) == {n} \cup {p \in Climb(n, Lone(A, C)) : p # <<>> /\ p \in Lone(A, C)}

Tops(top, G) == top \in G /\ \A q \in G : Under(top, q)

Remaining(N, top) == {p \in N : ~ Under(top, p)}

Lowered(A, C, n, top) ==
    [p \in Namespaces |-> IF Under(top, p) THEN 0
                          ELSE IF p \in Climb(n, Lone(A, C)) THEN A[p] - 1 ELSE A[p]]

\* tryPruneChild when n, which has no active child, loses its last content: the
\* highest node that this leaves without anything goes with all below it, and
\* nothing of that had content or led to any.
LEMMA SoundPruned ==
    ASSUME NEW N, NEW A, NEW C, Sound(N, A, C), NEW n \in C, n # <<>>, A[n] = 0,
           NEW top, Tops(top, Gone(A, C, n))
    PROVE  /\ Sound(Remaining(N, top), Lowered(A, C, n, top), C \ {n})
           /\ \A x \in C \ {n} : ~ Under(top, x)
           /\ \A p \in Climb(n, Lone(A, C)) : A[p] > 0
<1> DEFINE S == Lone(A, C)
           gone == Gone(A, C, n)
           B == Lowered(A, C, n, top)
<1>a. S = {q \in Namespaces : A[q] = 1 /\ q \notin C}
  BY Zenon DEF Lone
<1>b. gone = {n} \cup {p \in Climb(n, S) : p # <<>> /\ p \in S}
  BY Zenon DEF Gone
<1>c. B = [p \in Namespaces |-> IF Under(top, p) THEN 0
                                ELSE IF p \in Climb(n, S) THEN A[p] - 1 ELSE A[p]]
  BY Zenon DEF Lowered
<1>d. top \in gone /\ \A q \in gone : Under(top, q)
  BY Zenon DEF Tops
<1> HIDE DEF S, gone, B
<1> DEFINE M == {p \in N : ~ Under(top, p)}
           D == C \ {n}
<1>0. /\ C \subseteq N /\ N \subseteq Namespaces /\ A \in [Namespaces -> Nat]
      /\ n \in Namespaces /\ n \in N /\ KeptIn(A, C, n)
  BY Zenon DEF Sound, KeptIn
<1>1. \A p \in Above(n) : p \in Namespaces /\ p \in N /\ A[p] > 0
  BY <1>0, Zenon DEF Above, Sound
<1>2. \A p \in Climb(n, S) : p \in Namespaces /\ p \in N /\ Under(p, n) /\ p # n /\ A[p] > 0
  BY <1>1, Zenon DEF Climb, Above
<1>3. /\ top \in Namespaces /\ Under(top, n) /\ top # <<>>
      /\ top = n \/ (top \in Climb(n, S) /\ top \in S)
  BY <1>0, <1>2, <1>b, <1>d, UnderOrder, Zenon
<1>4. ASSUME NEW q \in Namespaces, Under(top, q), Under(q, n), q # n
      PROVE  q \in S
  <2>1. top # n
    BY <1>0, <1>4, UnderOrder
  <2>2. q \in Above(n)
    BY <1>4, Zenon DEF Above
  <2> QED BY <1>3, <1>4, <2>1, <2>2, Zenon DEF Climb
<1>5. \A x \in Namespaces : KeptIn(A, C, x) => x \in N
  BY <1>0 DEF Sound, KeptIn
<1>6. ASSUME NEW x \in Namespaces, NEW p \in Namespaces, NEW d \in Namespaces,
             KeptIn(A, C, x), Child(p, d), Under(d, x)
      PROVE  d \in Kids(N, A, C, p)
  <2>1. d = x \/ d \in Above(x)
    BY <1>6, Zenon DEF Above
  <2>2. KeptIn(A, C, d)
    BY <1>6, <2>1, Zenon DEF Sound, KeptIn
  <2> QED BY <1>5, <1>6, <2>2, Zenon DEF Kids
<1>7. ASSUME NEW p \in Namespaces, NEW c \in Kids(N, A, C, p), NEW d \in Kids(N, A, C, p), c # d
      PROVE  A[p] >= 2
  <2>1. Cardinality(Kids(N, A, C, p)) >= 2 /\ Cardinality(Kids(N, A, C, p)) \in Nat
    BY <1>0, <1>7, KidsCount, Zenon
  <2>2. Cardinality(Kids(N, A, C, p)) <= A[p] /\ A[p] \in Nat
    BY <1>0, <1>7, Zenon DEF Sound
  <2> QED BY <2>1, <2>2
<1>8. ASSUME NEW x \in Namespaces, Under(top, x), KeptIn(A, C, x)
      PROVE  Under(x, n)
  <2>1. CASE Under(n, x) /\ x # n
    <3>1. n \in Above(x)
      BY <1>0, <2>1, Zenon DEF Above
    <3> QED BY <1>8, <3>1 DEF Sound
  <2>2. CASE ~ Under(n, x) /\ ~ Under(x, n)
    <3>1. PICK p, c, d \in Namespaces :
              /\ Child(p, c) /\ Under(c, n) /\ Child(p, d) /\ Under(d, x) /\ c # d
              /\ \A q \in Namespaces : Under(q, n) /\ Under(q, x) => Under(q, p)
      BY <1>0, <2>2, Fork, Zenon
    <3>2. c \in Kids(N, A, C, p) /\ d \in Kids(N, A, C, p)
      BY <1>0, <1>6, <1>8, <3>1, Zenon
    <3>3. A[p] >= 2
      BY <1>7, <3>1, <3>2, Zenon
    <3>4. Under(top, p)
      BY <1>3, <1>8, <3>1, Zenon
    <3>5. Under(p, c) /\ p # c
      BY <3>1, UnderMeans DEF Child
    <3>6. Under(p, n) /\ p # n
      BY <1>0, <3>1, <3>5, UnderOrder
    <3> QED BY <1>a, <1>4, <3>1, <3>3, <3>4, <3>6
  <2> QED BY <1>0, <2>1, <2>2, UnderOrder, Zenon
<1>9. \A x \in D : ~ Under(top, x)
  BY <1>0, <1>4, <1>8, <1>a, Zenon DEF KeptIn
<1>10. /\ B \in [Namespaces -> Nat]
       /\ \A p \in Namespaces : /\ Under(top, p) => B[p] = 0
                                /\ ~ Under(top, p) /\ p \in Climb(n, S) => B[p] = A[p] - 1
                                /\ ~ Under(top, p) /\ p \notin Climb(n, S) => B[p] = A[p]
  BY <1>0, <1>2, <1>c
<1>11. \A x \in Namespaces : KeptIn(B, D, x) => KeptIn(A, C, x) /\ ~ Under(top, x)
  BY <1>0, <1>9, <1>10 DEF KeptIn
<1>12. ASSUME NEW p \in Climb(n, S), NEW c \in Namespaces, Child(p, c), Under(c, n)
       PROVE  Under(top, c)
  <2>1. c = n \/ (c \in Climb(n, S) /\ c \in S)
    BY <1>0, <1>2, <1>12, Climbing, Zenon
  <2>2. Len(c) = Len(p) + 1 /\ Len(p) \in Nat
    BY <1>2, <1>12, UnderMeans, Zenon DEF Child
  <2>3. c # <<>>
    BY <2>2
  <2> QED BY <2>1, <2>3, <1>b, <1>d, Zenon
<1>13. ASSUME NEW x \in Namespaces, KeptIn(B, D, x), NEW p \in Above(x)
       PROVE  B[p] > 0
  <2>1. p \in Namespaces /\ Under(p, x) /\ p # x /\ KeptIn(A, C, x) /\ ~ Under(top, x)
    BY <1>11, <1>13, Zenon DEF Above
  <2>2. A[p] > 0
    BY <2>1, Zenon DEF Sound
  <2>3. ~ Under(top, p)
    BY <1>3, <2>1, UnderOrder, Zenon
  <2>4. CASE p \in Climb(n, S)
    <3>1. PICK c \in Namespaces : Child(p, c) /\ Under(c, n)
      BY <1>0, <1>2, <2>4, OnTheWay, Zenon
    <3>2. PICK d \in Namespaces : Child(p, d) /\ Under(d, x)
      BY <2>1, OnTheWay, Zenon
    <3>3. c # d
      BY <1>3, <1>12, <2>1, <2>4, <3>1, <3>2, UnderOrder
    <3>4. A[p] >= 2
      BY <1>0, <1>6, <1>7, <2>1, <3>1, <3>2, <3>3, Zenon
    <3> QED BY <1>0, <1>10, <2>1, <2>3, <2>4, <3>4
  <2> QED BY <1>10, <2>1, <2>2, <2>3, <2>4, Zenon
<1>14. ASSUME NEW p \in Namespaces
       PROVE  Cardinality(Kids(M, B, D, p)) <= B[p]
  <2> DEFINE K == Kids(N, A, C, p)
             L == Kids(M, B, D, p)
  <2>0. Cardinality(K) <= A[p] /\ Cardinality(K) \in Nat /\ A[p] \in Nat
    BY <1>0, <1>14, KidsCount, Zenon DEF Sound
  <2>1. L \subseteq K /\ \A c \in L : c \in Namespaces /\ Child(p, c) /\ ~ Under(top, c)
    BY <1>0, <1>11, Zenon DEF Kids
  <2>2. Cardinality(L) \in Nat
    BY <1>0, KidsCount, Zenon
  <2>3. CASE Under(top, p)
    <3>1. L = {}
      BY <1>3, <1>14, <2>1, <2>3, UnderOrder, Zenon DEF Child
    <3> HIDE DEF L
    <3>2. Cardinality(L) = 0
      BY <3>1, FS_EmptySet, Zenon
    <3>3. B[p] = 0
      BY <1>10, <1>14, <2>3, Zenon
    <3> QED BY <3>2, <3>3 DEF L
  <2>4. CASE ~ Under(top, p) /\ p \in Climb(n, S)
    <3>1. PICK x \in Namespaces : Child(p, x) /\ Under(x, n)
      BY <1>0, <1>2, <2>4, OnTheWay, Zenon
    <3>2. x \in K /\ Under(top, x)
      BY <1>0, <1>6, <1>12, <2>4, <3>1, Zenon
    <3>3. L \subseteq K \ {x}
      BY <2>1, <3>2, Zenon
    <3> HIDE DEF L
    <3>4. Cardinality(L) <= Cardinality(K) - 1 /\ B[p] = A[p] - 1
      BY <1>0, <1>10, <2>4, <3>2, <3>3, KidsCount, Zenon
    <3> HIDE DEF K
    <3> QED BY <2>0, <2>2, <3>4 DEF L
  <2>5. CASE ~ Under(top, p) /\ p \notin Climb(n, S)
    <3> HIDE DEF L
    <3>1. Cardinality(L) <= Cardinality(K) /\ B[p] = A[p]
      BY <1>0, <1>10, <2>1, <2>5, KidsCount, Zenon
    <3> HIDE DEF K
    <3> QED BY <2>0, <2>2, <3>1 DEF L
  <2> QED BY <2>3, <2>4, <2>5, Zenon
<1>15. M \subseteq Namespaces /\ D \subseteq M /\ <<>> \in M
  <2>1. ~ Under(top, <<>>)
    BY <1>3, UnderOrder, UnderMeans, TreeAssumption
  <2> QED BY <1>0, <1>9, <2>1, Zenon DEF Sound
<1>16. \A x \in M : Above(x) \subseteq M
  BY <1>0, <1>3, UnderOrder, Zenon DEF Sound, Above
<1>17. \A x \in Namespaces \ M : B[x] = 0
  BY <1>2, <1>10 DEF Sound
<1>18. Sound(M, B, D)
  <2> HIDE DEF M, D
  <2> QED BY <1>10, <1>13, <1>14, <1>15, <1>16, <1>17, Zenon DEF Sound
<1> QED BY <1>2, <1>9, <1>18, Zenon DEF S, B, Remaining

\* A node that loses its content and still counts an active child, or the root.
LEMMA SoundEmptied ==
    ASSUME NEW N, NEW A, NEW C, Sound(N, A, C), NEW n \in Namespaces, A[n] > 0 \/ n = <<>>
    PROVE  Sound(N, A, C \ {n})
<1> DEFINE D == C \ {n}
<1>1. \A x \in Namespaces : KeptIn(A, D, x) => KeptIn(A, C, x)
  BY Zenon DEF KeptIn
<1>2. ASSUME NEW p \in Namespaces
      PROVE  Kids(N, A, D, p) = Kids(N, A, C, p)
  <2>1. \A c \in Namespaces : Child(p, c) /\ KeptIn(A, C, c) => KeptIn(A, D, c)
    <3>1. \A c \in Namespaces : Child(p, c) => c # <<>>
      BY <1>2, UnderMeans DEF Child
    <3> QED BY <3>1, Zenon DEF KeptIn
  <2> QED BY <1>1, <2>1, Zenon DEF Kids, Sound
<1> HIDE DEF D
<1>3. D \subseteq C
  BY Zenon DEF D
<1> QED BY <1>1, <1>2, <1>3, Zenon DEF Sound, D

-----------------------------------------------------------------------------
(***************************************************************************)
(* The tree as a record.                                                   *)
(***************************************************************************)
Contents(T) == {n \in Namespaces : hasContent(T, n)}

WellFormed(T) == T \in Tree /\ Sound(T.nodes, T.active, Contents(T))

\* Two trees hold the same things, whatever their nodes and their books.
SameThings(T, U) == T.routes = U.routes /\ T.pubs = U.pubs /\ T.subs = U.subs /\ T.seq = U.seq

\* V's book is U's, less what was at nodes without a route.
BookKept(V, U) == \A p \in Namespaces : V.ads[p] = U.ads[p] \/ (V.ads[p] = {} /\ V.routes[p] = {})

\* What has content depends on the things alone.
LEMMA ContentsOfThings ==
    ASSUME NEW T, NEW U, SameThings(T, U)
    PROVE  Contents(T) = Contents(U)
BY Zenon DEF SameThings, Contents, hasContent

\* findNode adds nodes and nothing else.
LEMMA CreatedOK ==
    ASSUME NEW T, WellFormed(T), NEW n \in Namespaces
    PROVE  /\ WellFormed(Created(T, n)) /\ n \in Created(T, n).nodes
           /\ SameThings(Created(T, n), T) /\ Created(T, n).ads = T.ads
<1> DEFINE C == Created(T, n)
           M == T.nodes \cup Above(n) \cup {n}
<1>0. T \in Tree
  BY Zenon DEF WellFormed
<1>1. M \in SUBSET Namespaces /\ C = [T EXCEPT !.nodes = M]
  BY <1>0, Zenon DEF Created, Tree, Above
<1>2. Sound(M, T.active, Contents(T))
  BY SoundCreated, Zenon DEF WellFormed
<1> HIDE DEF M
<1>3. /\ C \in Tree /\ C.nodes = M /\ C.active = T.active /\ C.ads = T.ads
      /\ SameThings(C, T)
  BY <1>0, <1>1, Zenon DEF Tree, SameThings
<1> HIDE DEF C
<1>4. Contents(C) = Contents(T)
  BY <1>3, ContentsOfThings, Zenon
<1>5. n \in M
  BY Zenon DEF M
<1> QED BY <1>2, <1>3, <1>4, <1>5, Zenon DEF WellFormed, C

\* incrementActiveChildren keeps the counts when the node has just become active.
LEMMA IncrementOK ==
    ASSUME NEW T, WellFormed(T), NEW n \in T.nodes,
           NEW U \in Tree, U.nodes = T.nodes, U.active = T.active, Contents(U) = Contents(T) \cup {n}
    PROVE  /\ WellFormed(incrementActiveChildren(U, n))
           /\ SameThings(incrementActiveChildren(U, n), U)
           /\ incrementActiveChildren(U, n).ads = U.ads
<1> DEFINE A == T.active
           S == {q \in Namespaces : A[q] = 0 /\ q \notin Contents(T)}
           B == [p \in Namespaces |-> IF p \in Climb(n, S) THEN A[p] + 1 ELSE A[p]]
           V == incrementActiveChildren(U, n)
           climbs(q) == U.active[q] = 0 /\ ~ hasContent(U, q)
           counted == {p \in Above(n) : \A q \in Above(n) : Under(p, q) /\ p # q => climbs(q)}
<1>1. V = [U EXCEPT !.active = [p \in Namespaces |-> IF p \in counted THEN U.active[p] + 1 ELSE U.active[p]]]
  BY Zenon DEF incrementActiveChildren
<1>2. \A q \in Above(n) : climbs(q) <=> q \in S
  <2>1. \A q \in Above(n) : q \in Namespaces /\ q # n
    BY Zenon DEF Above
  <2>2. \A q \in Above(n) : hasContent(U, q) <=> q \in Contents(T)
    BY <2>1, Zenon DEF Contents
  <2> QED BY <2>1, <2>2, Zenon
<1>3. counted = Climb(n, S)
  BY <1>2, Zenon DEF Climb
<1> HIDE DEF S, counted
<1>4. Sound(T.nodes, B, Contents(U))
  <2>1. Sound(T.nodes, A, Contents(T))
    BY Zenon DEF WellFormed
  <2>2. S = {q \in Namespaces : A[q] = 0 /\ q \notin Contents(T)}
    BY Zenon DEF S
  <2>3. B = [p \in Namespaces |-> IF p \in Climb(n, S) THEN A[p] + 1 ELSE A[p]]
    BY Zenon
  <2> HIDE DEF A, B
  <2>4. Sound(T.nodes, B, Contents(T) \cup {n})
    BY <2>1, <2>2, <2>3, SoundGrown
  <2> QED BY <2>4, Zenon
<1>5. B \in [Namespaces -> Nat]
  BY <1>4, Zenon DEF Sound
<1>6. V = [U EXCEPT !.active = B]
  BY <1>1, <1>3, Zenon
<1> HIDE DEF V, B
<1>7. /\ V \in Tree /\ V.nodes = T.nodes /\ V.active = B /\ V.ads = U.ads
      /\ SameThings(V, U)
  BY <1>5, <1>6, Zenon DEF Tree, SameThings
<1>8. Contents(V) = Contents(U)
  BY <1>7, ContentsOfThings, Zenon
<1> QED BY <1>4, <1>7, <1>8, Zenon DEF WellFormed, V

\* tryPruneChild takes nodes that hold nothing.
LEMMA PruneOK ==
    ASSUME NEW T, WellFormed(T), NEW n \in Contents(T), n # <<>>, T.active[n] = 0,
           NEW U \in Tree, U.nodes = T.nodes, U.active = T.active, Contents(U) = Contents(T) \ {n}
    PROVE  /\ WellFormed(tryPruneChild(U, n))
           /\ SameThings(tryPruneChild(U, n), U)
           /\ BookKept(tryPruneChild(U, n), U)
<1> DEFINE N == T.nodes
           A == T.active
           S == {q \in Namespaces : A[q] = 1 /\ q \notin Contents(T)}
           V == tryPruneChild(U, n)
           empties(p) == ~ hasContent(U, p) /\ U.active[p] = 1
           counted == {p \in Above(n) : \A q \in Above(n) : Under(p, q) /\ p # q => empties(q)}
           gone == {n} \cup {p \in counted : p # <<>> /\ empties(p)}
           top == CHOOSE p \in gone : \A q \in gone : Under(p, q)
           B == [p \in Namespaces |-> IF Under(top, p) THEN 0
                                      ELSE IF p \in Climb(n, S) THEN A[p] - 1 ELSE A[p]]
           W == [U EXCEPT !.active = [p \in Namespaces |-> IF p \in counted THEN U.active[p] - 1 ELSE U.active[p]]]
<1>1. V = Removed(W, top)
  BY Zenon DEF tryPruneChild
<1>2. \A q \in Above(n) : empties(q) <=> q \in S
  <2>1. \A q \in Above(n) : q \in Namespaces /\ q # n
    BY Zenon DEF Above
  <2>2. \A q \in Above(n) : hasContent(U, q) <=> q \in Contents(T)
    BY <2>1, Zenon DEF Contents
  <2> QED BY <2>1, <2>2, Zenon
<1>3. counted = Climb(n, S)
  BY <1>2, Zenon DEF Climb
<1>4. gone = {n} \cup {p \in Climb(n, S) : p # <<>> /\ p \in S}
  <2>1. \A p \in counted : p \in Above(n)
    BY Zenon
  <2> HIDE DEF counted
  <2> QED BY <1>2, <1>3, <2>1, Zenon
<1>5. n \in Namespaces /\ n \in gone /\ \A p \in gone : p \in Namespaces /\ Under(p, n)
  <2>1. n \in Namespaces /\ n \in gone
    BY Zenon DEF Contents
  <2>2. \A p \in Climb(n, S) : p \in Namespaces /\ Under(p, n)
    BY Zenon DEF Climb, Above
  <2> HIDE DEF S
  <2> QED BY <1>4, <2>1, <2>2, UnderOrder
<1> HIDE DEF gone
<1>6. top \in gone /\ \A q \in gone : Under(top, q)
  <2>1. \E p \in gone : \A q \in gone : Under(p, q)
    BY <1>5, Highest, Zenon
  <2> QED BY <2>1, Zenon
<1> HIDE DEF top, S, counted
<1>7. /\ Sound({p \in N : ~ Under(top, p)}, B, Contents(T) \ {n})
      /\ \A x \in Contents(T) \ {n} : ~ Under(top, x)
      /\ \A p \in Climb(n, S) : A[p] > 0
  <2>1. Sound(N, A, Contents(T)) /\ A[n] = 0
    BY Zenon DEF WellFormed
  <2>2. S = Lone(A, Contents(T)) /\ gone = Gone(A, Contents(T), n) /\ B = Lowered(A, Contents(T), n, top)
    BY <1>4, Zenon DEF S, Lone, Gone, Lowered
  <2>3. Tops(top, Gone(A, Contents(T), n))
    BY <1>6, <2>2, Zenon DEF Tops
  <2> HIDE DEF A, B, N
  <2>4. /\ Sound(Remaining(N, top), Lowered(A, Contents(T), n, top), Contents(T) \ {n})
        /\ \A x \in Contents(T) \ {n} : ~ Under(top, x)
        /\ \A p \in Climb(n, Lone(A, Contents(T))) : A[p] > 0
    BY <2>1, <2>3, SoundPruned, Zenon
  <2> QED BY <2>2, <2>4, Zenon DEF Remaining
<1>8. B \in [Namespaces -> Nat]
  BY <1>7, Zenon DEF Sound
<1>9. U.nodes = N /\ U.active = A /\ A \in [Namespaces -> Nat]
  BY Zenon DEF Sound, WellFormed
<1> DEFINE Z == [p \in Namespaces |-> IF p \in counted THEN U.active[p] - 1 ELSE U.active[p]]
           M == {p \in N : ~ Under(top, p)}
           G == [p \in Namespaces |-> IF Under(top, p) THEN {} ELSE U.ads[p]]
<1>10. \A p \in Namespaces : Under(top, p) => U.routes[p] = {} /\ U.pubs[p] = {} /\ U.subs[p] = {}
  <2>1. \A p \in Namespaces : Under(top, p) => p \notin Contents(U)
    BY <1>7, Zenon
  <2> QED BY <2>1, Zenon DEF Contents, hasContent
<1>11. /\ U.routes = [p \in Namespaces |-> IF Under(top, p) THEN {} ELSE U.routes[p]]
       /\ U.pubs = [p \in Namespaces |-> IF Under(top, p) THEN {} ELSE U.pubs[p]]
       /\ U.subs = [p \in Namespaces |-> IF Under(top, p) THEN {} ELSE U.subs[p]]
  BY <1>10, Zenon DEF Tree
<1>12. [p \in Namespaces |-> IF Under(top, p) THEN 0 ELSE Z[p]] = B
  BY <1>3, <1>9, Zenon
<1>13. M \in SUBSET Namespaces /\ G \in [Namespaces -> SUBSET Advertisement]
  BY Zenon DEF Tree
<1>14. W = [U EXCEPT !.active = Z]
  BY Zenon
<1> HIDE DEF Z, W
<1>15. /\ W.nodes = N /\ W.active = Z /\ W.ads = U.ads /\ W.seq = U.seq
       /\ W.routes = U.routes /\ W.pubs = U.pubs /\ W.subs = U.subs
       /\ DOMAIN W = DOMAIN U
  BY <1>9, <1>14, Zenon DEF Tree
<1>16. V = [W EXCEPT !.nodes = M, !.active = B, !.routes = U.routes, !.pubs = U.pubs, !.subs = U.subs, !.ads = G]
  BY <1>1, <1>11, <1>12, <1>15, ZenonT(60) DEF Removed
<1> HIDE DEF V, B, M, G
<1>17. /\ V \in Tree /\ V.nodes = M /\ V.active = B /\ V.ads = G
       /\ SameThings(V, U)
  <2>1. W \in [nodes : SUBSET Namespaces, active : {Z}, routes : {U.routes}, pubs : {U.pubs}, subs : {U.subs},
               ads : {U.ads}, seq : {U.seq}]
    BY <1>14, Zenon DEF Tree
  <2>2. V = [nodes |-> M, active |-> B, routes |-> U.routes, pubs |-> U.pubs, subs |-> U.subs, ads |-> G, seq |-> U.seq]
    BY <1>16, <2>1, Zenon
  <2> QED BY <1>8, <1>13, <2>2, Zenon DEF Tree, SameThings
<1>18. Contents(V) = Contents(T) \ {n}
  BY <1>17, ContentsOfThings, Zenon
<1>19. BookKept(V, U)
  <2>1. \A p \in Namespaces : G[p] = U.ads[p] \/ (G[p] = {} /\ U.routes[p] = {})
    BY <1>10, Zenon DEF G
  <2> QED BY <1>17, <2>1, Zenon DEF BookKept, SameThings
<1> QED BY <1>7, <1>17, <1>18, <1>19, Zenon DEF WellFormed, V, M

\* ~NodeMutationGuard: whatever changed at n, the counts stay right and no other
\* node's content goes.
LEMMA MutatedOK ==
    ASSUME NEW T, WellFormed(T), NEW n \in T.nodes,
           NEW U \in Tree, U.nodes = T.nodes, U.active = T.active,
           \A p \in Namespaces \ {n} : hasContent(U, p) <=> hasContent(T, p)
    PROVE  /\ WellFormed(Mutated(T, U, n))
           /\ SameThings(Mutated(T, U, n), U)
           /\ BookKept(Mutated(T, U, n), U)
<1>0. n \in Namespaces /\ T.active[n] \in Nat /\ Sound(T.nodes, T.active, Contents(T))
  BY Zenon DEF WellFormed, Sound
<1>1. CASE ~ hasContent(T, n) /\ hasContent(U, n)
  <2>1. Contents(U) = Contents(T) \cup {n}
    BY <1>0, <1>1, Zenon DEF Contents
  <2>2. Mutated(T, U, n) = incrementActiveChildren(U, n)
    BY <1>1, Zenon DEF Mutated
  <2> QED BY <2>1, <2>2, IncrementOK DEF BookKept
<1>2. CASE hasContent(T, n) /\ ~ hasContent(U, n)
  <2>1. Contents(U) = Contents(T) \ {n} /\ n \in Contents(T)
    BY <1>0, <1>2, Zenon DEF Contents
  <2>2. CASE T.active[n] = 0 /\ n # <<>>
    <3>1. Mutated(T, U, n) = tryPruneChild(U, n)
      BY <1>2, <2>2 DEF Mutated, shouldKeep
    <3> QED BY <2>1, <2>2, <3>1, PruneOK, Zenon
  <2>3. CASE T.active[n] > 0 \/ n = <<>>
    <3>1. Mutated(T, U, n) = U
      BY <1>2, <2>3, Zenon DEF Mutated, shouldKeep
    <3>2. Sound(U.nodes, U.active, Contents(U))
      BY <1>0, <2>1, <2>3, SoundEmptied
    <3> QED BY <3>1, <3>2, Zenon DEF WellFormed, SameThings, BookKept
  <2> QED BY <1>0, <2>2, <2>3
<1>3. CASE hasContent(T, n) <=> hasContent(U, n)
  <2>1. Mutated(T, U, n) = U
    BY <1>3, Zenon DEF Mutated, shouldKeep
  <2>2. Contents(U) = Contents(T)
    BY <1>3, Zenon DEF Contents
  <2> QED BY <1>0, <2>1, <2>2, Zenon DEF WellFormed, SameThings, BookKept
<1> QED BY <1>1, <1>2, <1>3, Zenon

-----------------------------------------------------------------------------
(***************************************************************************)
(* The methods of the tree.                                                *)
(***************************************************************************)
\* V is well formed, and is T but for the routes of n, which has some.
Rerouted(V, T, n) ==
    /\ WellFormed(V) /\ V.subs = T.subs /\ BookKept(V, T)
    /\ V.routes[n] # {} /\ \A p \in Namespaces \ {n} : V.routes[p] = T.routes[p]

\* reviseRoute puts a route in the place of another.
LEMMA ReviseOK ==
    ASSUME NEW T, WellFormed(T), T.seq < MaxSeq, NEW n \in Namespaces, NEW r \in T.routes[n],
           NEW offer \in Offers \cup {Plain}, NEW peer \in Nat
    PROVE  Rerouted(reviseRoute(T, n, r, offer, peer), T, n)
<1> DEFINE fresh == ~ SameOrigin(r.offer.path, offer.path)
           k == IF fresh THEN T.seq + 1 ELSE r.seq
           m == IF fresh THEN k ELSE T.seq
           x == [r EXCEPT !.offer = offer, !.seq = k, !.peer = peer]
           Q == (T.routes[n] \ {r}) \cup {x}
           V == reviseRoute(T, n, r, offer, peer)
<1>0. /\ T \in Tree /\ T.routes[n] \in SUBSET Route /\ T.seq \in 0 .. MaxSeq /\ MaxSeq \in Nat
      /\ Sound(T.nodes, T.active, Contents(T))
  BY TreeAssumption, Zenon DEF WellFormed, Tree
<1>1. r \in Route
  BY <1>0, Zenon
<1>2. k \in 1 .. MaxSeq /\ m \in 0 .. MaxSeq
  BY <1>0, <1>1 DEF Route
<1> HIDE DEF k
<1>3. x \in Route
  BY <1>1, <1>2, Zenon DEF Route
<1> HIDE DEF x
<1>4. Q \in SUBSET Route /\ Q # {}
  BY <1>0, <1>3, Zenon
<1>5. V = [T EXCEPT !.seq = m, !.routes[n] = Q]
  BY Zenon DEF reviseRoute, k, x
<1> HIDE DEF m, Q, V
<1>6. /\ V \in Tree /\ V.nodes = T.nodes /\ V.active = T.active
      /\ V.pubs = T.pubs /\ V.subs = T.subs /\ V.ads = T.ads /\ V.routes = [T.routes EXCEPT ![n] = Q]
  BY <1>0, <1>2, <1>4, <1>5, Zenon DEF Tree
<1>7. V.routes[n] # {} /\ \A p \in Namespaces \ {n} : V.routes[p] = T.routes[p]
  <2>1. T.routes \in [Namespaces -> SUBSET Route]
    BY <1>0, Zenon DEF Tree
  <2> QED BY <1>4, <1>6, <2>1, Zenon
<1>8. \A p \in Namespaces : V.routes[p] = {} <=> T.routes[p] = {}
  BY <1>7, Zenon
<1>9. Contents(V) = Contents(T)
  BY <1>6, <1>8 DEF Contents, hasContent
<1>10. WellFormed(V)
  BY <1>0, <1>6, <1>9, Zenon DEF WellFormed
<1> QED BY <1>6, <1>7, <1>10, Zenon DEF Rerouted, BookKept, V

\* setPublisher revises the route or replaces the ones it displaces.
LEMMA SetPublisherOK ==
    ASSUME NEW T, WellFormed(T), T.seq < MaxSeq, NEW n \in Namespaces, NEW s \in Sessions,
           NEW callback \in BOOLEAN, NEW peer \in Nat, NEW req \in Nat, NEW offer \in Offers \cup {Plain}
    PROVE  Rerouted(setPublisher(T, n, s, callback, peer, req, offer), T, n)
<1> DEFINE old == Displaced(T, n, s)
           inPlace == {r \in old : r.session = s /\ s \in Cluster /\ ~ r.callback /\ ~ callback}
           C == Created(T, n)
           new == [session |-> s, callback |-> callback, peer |-> peer, req |-> req,
                   offer |-> offer, seq |-> T.seq + 1]
           V == setPublisher(T, n, s, callback, peer, req, offer)
<1>0. /\ T \in Tree /\ T.routes[n] \in SUBSET Route /\ T.seq \in 0 .. MaxSeq /\ MaxSeq \in Nat
  BY TreeAssumption, Zenon DEF WellFormed, Tree
<1>1. WellFormed(C) /\ n \in C.nodes /\ SameThings(C, T) /\ C.ads = T.ads
  BY CreatedOK, Zenon
<1>2. C \in Tree /\ C.routes = T.routes /\ C.pubs = T.pubs /\ C.subs = T.subs /\ C.seq = T.seq
  BY <1>1, Zenon DEF WellFormed, SameThings
<1>3. CASE inPlace # {}
  <2> DEFINE r == CHOOSE q \in inPlace : TRUE
  <2>1. r \in inPlace
    BY <1>3, Zenon
  <2>2. r \in C.routes[n]
    BY <1>2, <2>1, Zenon DEF Displaced
  <2>3. V = reviseRoute(C, n, r, offer, peer)
    BY <1>3, Zenon DEF setPublisher
  <2> HIDE DEF r, C, V
  <2>4. Rerouted(V, C, n)
    BY <1>1, <1>2, <2>2, <2>3, ReviseOK, Zenon
  <2> QED BY <1>1, <1>2, <2>4 DEF Rerouted, BookKept, V
<1>4. CASE inPlace = {}
  <2> DEFINE Q == (C.routes[n] \ old) \cup {new}
             U == [C EXCEPT !.routes[n] = Q, !.seq = C.seq + 1]
  <2>1. V = Mutated(C, U, n)
    BY <1>4, Zenon DEF setPublisher
  <2>2. new \in Route
    BY <1>0 DEF Route
  <2> HIDE DEF new
  <2>3. Q \in SUBSET Route /\ Q # {} /\ C.seq + 1 \in 0 .. MaxSeq
    BY <1>0, <1>2, <2>2
  <2> HIDE DEF Q, C, V
  <2>4. /\ U \in Tree /\ U.nodes = C.nodes /\ U.active = C.active
        /\ U.pubs = C.pubs /\ U.subs = C.subs /\ U.ads = C.ads /\ U.routes = [C.routes EXCEPT ![n] = Q]
    BY <1>2, <2>3, Zenon DEF Tree
  <2> HIDE DEF U
  <2>5. U.routes[n] # {} /\ \A p \in Namespaces \ {n} : U.routes[p] = C.routes[p]
    BY <1>2, <2>3, <2>4, Zenon DEF Tree
  <2>6. \A p \in Namespaces \ {n} : hasContent(U, p) <=> hasContent(C, p)
    BY <2>4, <2>5, Zenon DEF hasContent
  <2>7. WellFormed(V) /\ SameThings(V, U) /\ BookKept(V, U)
    BY <1>1, <2>1, <2>4, <2>6, MutatedOK, Zenon
  <2> QED BY <1>1, <1>2, <2>4, <2>5, <2>7 DEF SameThings, BookKept, Rerouted, V
<1> QED BY <1>3, <1>4, Zenon

\* V is well formed, and is T but for the published tracks.
Republished(V, T) == WellFormed(V) /\ V.subs = T.subs /\ V.routes = T.routes /\ BookKept(V, T)

\* addPublish and unpublishTrack.
LEMMA PublishesOK ==
    ASSUME NEW T, WellFormed(T), NEW n \in Namespaces, NEW name \in TrackNames
    PROVE  /\ Republished(addPublish(T, n, name), T)
           /\ Republished(unpublishTrack(T, n, name), T)
<1>1. ASSUME NEW C, WellFormed(C), n \in C.nodes, NEW Q \in SUBSET TrackNames
      PROVE  Republished(Mutated(C, [C EXCEPT !.pubs[n] = Q], n), C)
  <2> DEFINE U == [C EXCEPT !.pubs[n] = Q]
             V == Mutated(C, U, n)
  <2>1. C \in Tree
    BY <1>1, Zenon DEF WellFormed
  <2>2. /\ U \in Tree /\ U.nodes = C.nodes /\ U.active = C.active /\ U.ads = C.ads
        /\ U.routes = C.routes /\ U.subs = C.subs /\ U.pubs = [C.pubs EXCEPT ![n] = Q]
    BY <2>1, Zenon DEF Tree
  <2> HIDE DEF U
  <2>3. \A p \in Namespaces \ {n} : hasContent(U, p) <=> hasContent(C, p)
    <3>1. \A p \in Namespaces \ {n} : U.pubs[p] = C.pubs[p]
      BY <2>1, <2>2, Zenon DEF Tree
    <3> QED BY <2>2, <3>1, Zenon DEF hasContent
  <2>4. WellFormed(V) /\ SameThings(V, U) /\ BookKept(V, U)
    BY <1>1, <2>2, <2>3, MutatedOK, Zenon
  <2> HIDE DEF V
  <2>5. Republished(V, C)
    BY <2>2, <2>4, Zenon DEF SameThings, BookKept, Republished
  <2> QED BY <2>5, Zenon DEF V, U
<1>2. T \in Tree /\ T.pubs[n] \in SUBSET TrackNames
  BY Zenon DEF WellFormed, Tree
<1>3. Republished(addPublish(T, n, name), T)
  <2> DEFINE C == Created(T, n)
             Q == C.pubs[n] \cup {name}
             V == addPublish(T, n, name)
  <2>1. WellFormed(C) /\ n \in C.nodes /\ C.subs = T.subs /\ C.pubs = T.pubs /\ C.routes = T.routes /\ C.ads = T.ads
    BY CreatedOK, Zenon DEF SameThings
  <2>2. V = Mutated(C, [C EXCEPT !.pubs[n] = Q], n)
    BY Zenon DEF addPublish
  <2>3. Q \in SUBSET TrackNames
    BY <1>2, <2>1, Zenon
  <2> HIDE DEF C, Q, V
  <2>4. Republished(V, C)
    BY <1>1, <2>1, <2>2, <2>3, Zenon
  <2> QED BY <2>1, <2>4, Zenon DEF Republished, BookKept, V
<1>4. Republished(unpublishTrack(T, n, name), T)
  <2> DEFINE Q == T.pubs[n] \ {name}
             V == unpublishTrack(T, n, name)
  <2>1. V = IF n \in T.nodes THEN Mutated(T, [T EXCEPT !.pubs[n] = Q], n) ELSE T
    BY Zenon DEF unpublishTrack
  <2>2. Q \in SUBSET TrackNames
    BY <1>2, Zenon
  <2>3. Republished(T, T)
    BY Zenon DEF Republished, BookKept
  <2> HIDE DEF Q
  <2> QED BY <1>1, <2>1, <2>2, <2>3, Zenon
<1> QED BY <1>3, <1>4, Zenon

\* V is well formed, with T's routes, and its subscribers are T's, with Q at
\* node n.
Resubscribed(V, T, n, Q) ==
    WellFormed(V) /\ V.routes = T.routes /\ V.subs = [T.subs EXCEPT ![n] = Q]

\* The book without what sub was told below n.
Forgotten(T, n, sub) ==
    [p \in Namespaces |->
        IF Under(n, p) THEN {a \in T.ads[p] : a.session # sub.session \/ a.depth # Len(n)} ELSE T.ads[p]]

Joined(V, T, n, sub) == Resubscribed(V, T, n, T.subs[n] \cup {sub}) /\ BookKept(V, T)

Parted(V, T, n, sub) ==
    /\ Resubscribed(V, T, n, T.subs[n] \ {sub})
    /\ \A p \in Namespaces : V.ads[p] = Forgotten(T, n, sub)[p] \/ (V.ads[p] = {} /\ V.routes[p] = {})

\* addNamespaceSubscriber and removeNamespaceSubscriber change the subscribers
\* of their node and of no other, whatever is pruned.
LEMMA SubscribersOK ==
    ASSUME NEW T, WellFormed(T), NEW n \in Namespaces, NEW sub \in Subscription
    PROVE  /\ Joined(addNamespaceSubscriber(T, n, sub), T, n, sub)
           /\ sub \in T.subs[n] => Parted(removeNamespaceSubscriber(T, n, sub), T, n, sub)
<1>1. ASSUME NEW C, WellFormed(C), n \in C.nodes, NEW Q \in SUBSET Subscription
      PROVE  LET V == Mutated(C, [C EXCEPT !.subs[n] = Q], n)
             IN Resubscribed(V, C, n, Q) /\ BookKept(V, C)
  <2> DEFINE U == [C EXCEPT !.subs[n] = Q]
             V == Mutated(C, U, n)
  <2>1. C \in Tree
    BY <1>1, Zenon DEF WellFormed
  <2>2. /\ U \in Tree /\ U.nodes = C.nodes /\ U.active = C.active /\ U.ads = C.ads
        /\ U.routes = C.routes /\ U.pubs = C.pubs /\ U.subs = [C.subs EXCEPT ![n] = Q]
    BY <2>1, Zenon DEF Tree
  <2> HIDE DEF U
  <2>3. \A p \in Namespaces \ {n} : hasContent(U, p) <=> hasContent(C, p)
    <3>1. \A p \in Namespaces \ {n} : U.subs[p] = C.subs[p]
      BY <2>1, <2>2, Zenon DEF Tree
    <3> QED BY <2>2, <3>1, Zenon DEF hasContent
  <2>4. WellFormed(V) /\ SameThings(V, U) /\ BookKept(V, U)
    BY <1>1, <2>2, <2>3, MutatedOK, Zenon
  <2> HIDE DEF V
  <2>5. Resubscribed(V, C, n, Q) /\ BookKept(V, C)
    BY <2>2, <2>4, Zenon DEF SameThings, BookKept, Resubscribed
  <2> QED BY <2>5, Zenon DEF U, V
<1>2. T \in Tree /\ T.subs[n] \in SUBSET Subscription
  BY Zenon DEF WellFormed, Tree
<1>3. Joined(addNamespaceSubscriber(T, n, sub), T, n, sub)
  <2> DEFINE C == Created(T, n)
             Q == C.subs[n] \cup {sub}
             V == addNamespaceSubscriber(T, n, sub)
  <2>1. WellFormed(C) /\ n \in C.nodes /\ C.subs = T.subs /\ C.routes = T.routes /\ C.ads = T.ads
    BY CreatedOK, Zenon DEF SameThings
  <2>2. V = Mutated(C, [C EXCEPT !.subs[n] = Q], n)
    BY Zenon DEF addNamespaceSubscriber
  <2>3. Q \in SUBSET Subscription /\ Q = T.subs[n] \cup {sub}
    BY <1>2, <2>1, Zenon
  <2> HIDE DEF C, Q, V
  <2>4. Resubscribed(V, C, n, Q) /\ BookKept(V, C)
    BY <1>1, <2>1, <2>2, <2>3, Zenon
  <2>5. Resubscribed(V, T, n, Q) /\ BookKept(V, T)
    BY <2>1, <2>4 DEF Resubscribed, BookKept
  <2> QED BY <2>3, <2>5, Zenon DEF Joined, V
<1>4. ASSUME sub \in T.subs[n]
      PROVE  Parted(removeNamespaceSubscriber(T, n, sub), T, n, sub)
  <2> DEFINE G == Forgotten(T, n, sub)
             F == [T EXCEPT !.ads = G]
             Q == F.subs[n] \ {sub}
             V == removeNamespaceSubscriber(T, n, sub)
  <2>1. V = Mutated(F, [F EXCEPT !.subs[n] = Q], n)
    BY Zenon DEF removeNamespaceSubscriber, Forgotten
  <2>2. G \in [Namespaces -> SUBSET Advertisement]
    BY <1>2, Zenon DEF Tree, Forgotten
  <2> HIDE DEF G
  <2>3. /\ F \in Tree /\ F.nodes = T.nodes /\ F.active = T.active /\ F.ads = G
        /\ SameThings(F, T)
    BY <1>2, <2>2, Zenon DEF Tree, SameThings
  <2> HIDE DEF F
  <2>4. Contents(F) = Contents(T)
    BY <2>3, ContentsOfThings, Zenon
  <2>5. WellFormed(F)
    BY <2>3, <2>4, Zenon DEF WellFormed
  <2>6. n \in F.nodes
    <3>1. n \in Contents(T)
      BY <1>4, Zenon DEF Contents, hasContent
    <3> QED BY <2>3, <3>1, Zenon DEF WellFormed, Sound
  <2>7. F.subs = T.subs /\ F.routes = T.routes /\ Q \in SUBSET Subscription /\ Q = T.subs[n] \ {sub}
    BY <1>2, <2>3, Zenon DEF SameThings
  <2> HIDE DEF Q, V
  <2>8. Resubscribed(V, F, n, Q) /\ BookKept(V, F)
    BY <1>1, <2>1, <2>5, <2>6, <2>7, Zenon
  <2>9. Resubscribed(V, T, n, Q)
    BY <2>7, <2>8, Zenon DEF Resubscribed
  <2>10. \A p \in Namespaces : V.ads[p] = G[p] \/ (V.ads[p] = {} /\ V.routes[p] = {})
    BY <2>3, <2>8, Zenon DEF BookKept
  <2> QED BY <2>7, <2>9, <2>10, Zenon DEF Parted, V, G
<1> QED BY <1>3, <1>4, Zenon

\* The book of advertisements is no part of the tree's shape.
LEMMA BookOK ==
    ASSUME NEW T, T \in Tree, NEW G \in [Namespaces -> SUBSET Advertisement],
           NEW V, V = [T EXCEPT !.ads = G]
    PROVE  /\ V \in Tree /\ V.nodes = T.nodes /\ V.active = T.active /\ V.ads = G
           /\ SameThings(V, T)
           /\ WellFormed(T) => WellFormed(V)
<1>1. /\ V \in Tree /\ V.nodes = T.nodes /\ V.active = T.active /\ V.ads = G
      /\ SameThings(V, T)
  BY Zenon DEF Tree, SameThings
<1>2. Contents(V) = Contents(T)
  BY <1>1, ContentsOfThings, Zenon
<1> QED BY <1>1, <1>2, Zenon DEF WellFormed

\* Entries of the book, and what is sent, come from the routes of the node.
LEMMA SentTypes ==
    ASSUME NEW T, T \in Tree, NEW n \in Namespaces, NEW o \in OpenSubscription
    PROVE  /\ Sent(T, n, o) \subseteq T.ads[n] /\ Kept(T, n, o) \subseteq T.ads[n]
           /\ NewlySent(T, n, o) \subseteq Advertisement
<1>1. Sent(T, n, o) \subseteq T.ads[n] /\ Kept(T, n, o) \subseteq T.ads[n]
  BY Zenon DEF Sent, Kept
<1>2. advertisableRoute(T, n, o.sub) \subseteq Route
  <2>1. T.routes[n] \in SUBSET Route
    BY Zenon DEF Tree
  <2> QED BY <2>1, Zenon DEF advertisableRoute, selectRoute
<1>3. o.sub.session \in Sessions /\ Len(o.prefix) \in Nat
  <2>1. o.sub \in Subscription /\ o.prefix \in Namespaces
    BY Zenon DEF OpenSubscription
  <2> QED BY <2>1, UnderMeans, Zenon DEF Subscription
<1>4. \A r \in Route : r.seq \in 1 .. MaxSeq /\ r.offer \in Offers \cup {Plain}
  BY Zenon DEF Route
<1>5. \A r \in Route : [session |-> o.sub.session, depth |-> Len(o.prefix), seq |-> r.seq, offer |-> r.offer]
                          \in Advertisement
  BY <1>3, <1>4, Zenon DEF Advertisement
<1>6. NewlySent(T, n, o) \subseteq Advertisement
  BY <1>2, <1>5, Zenon DEF NewlySent
<1> QED BY <1>1, <1>6, Zenon

\* reconcileAdvertisement changes the node's page of the book alone.
LEMMA ReconciledOK ==
    ASSUME NEW T, T \in Tree, NEW n \in Namespaces, NEW O \in SUBSET OpenSubscription
    PROVE  LET V == Reconciled(T, n, O) IN
           /\ V \in Tree /\ V.nodes = T.nodes /\ V.active = T.active
           /\ SameThings(V, T)
           /\ V.ads[n] = (T.ads[n] \ UNION {Sent(T, n, o) : o \in O})
                         \cup UNION {Kept(T, n, o) \cup NewlySent(T, n, o) : o \in O}
           /\ V.ads[n] \in SUBSET Advertisement
           /\ \A p \in Namespaces \ {n} : V.ads[p] = T.ads[p]
           /\ WellFormed(T) => WellFormed(V)
<1> DEFINE Q == (T.ads[n] \ UNION {Sent(T, n, o) : o \in O})
                \cup UNION {Kept(T, n, o) \cup NewlySent(T, n, o) : o \in O}
           G == [T.ads EXCEPT ![n] = Q]
           V == Reconciled(T, n, O)
<1>1. T.ads \in [Namespaces -> SUBSET Advertisement]
  BY Zenon DEF Tree
<1>2. Q \in SUBSET Advertisement
  <2>1. T.ads[n] \in SUBSET Advertisement
    BY <1>1, Zenon
  <2>2. \A o \in O : Kept(T, n, o) \subseteq Advertisement /\ NewlySent(T, n, o) \subseteq Advertisement
    BY <2>1, SentTypes, Zenon
  <2> QED BY <2>1, <2>2, Zenon
<1>3. V = [T EXCEPT !.ads[n] = Q]
  BY Zenon DEF Reconciled
<1> HIDE DEF Q, V
<1>4. /\ V = [T EXCEPT !.ads = G] /\ G \in [Namespaces -> SUBSET Advertisement]
      /\ G[n] = Q /\ \A p \in Namespaces \ {n} : G[p] = T.ads[p]
  BY <1>1, <1>2, <1>3, Zenon DEF Tree
<1> HIDE DEF G
<1>5. /\ V \in Tree /\ V.nodes = T.nodes /\ V.active = T.active /\ V.ads = G
      /\ SameThings(V, T)
      /\ WellFormed(T) => WellFormed(V)
  BY <1>4, BookOK
<1> QED BY <1>2, <1>4, <1>5, Zenon DEF V, Q

\* What a reconciliation leaves as it is, without the entries it writes.
LEMMA ReconciledParts ==
    ASSUME NEW T, T \in Tree, NEW n \in Namespaces, NEW O \in SUBSET OpenSubscription
    PROVE  LET V == Reconciled(T, n, O)
           IN V \in Tree /\ V.nodes = T.nodes /\ V.active = T.active /\ SameThings(V, T)
<1> DEFINE V == Reconciled(T, n, O)
<1>1. V \in Tree
  BY ReconciledOK, Zenon
<1>2. V.nodes = T.nodes /\ V.active = T.active
  BY ReconciledOK, Zenon
<1>3. SameThings(V, T)
  BY ReconciledOK, Zenon
<1> QED BY <1>1, <1>2, <1>3, Zenon

\* The subscriptions collected on the way to a node.
LEMMA SubscribersOfTypes ==
    ASSUME NEW T, T \in Tree, NEW n \in Namespaces
    PROVE  SubscribersOf(T, n) \in SUBSET OpenSubscription
<1>1. \A p \in Above(n) \cup {n} : p \in Namespaces /\ T.subs[p] \in SUBSET Subscription
  BY Zenon DEF Tree, Above
<1>2. \A p \in Above(n) \cup {n} : \A sub \in T.subs[p] : [sub |-> sub, prefix |-> p] \in OpenSubscription
  BY <1>1, Zenon DEF OpenSubscription
<1> QED BY <1>2 DEF SubscribersOf

\* The messages are of their type.
LEMMA TellTypes ==
    ASSUME TypeOK, NEW T, T \in Tree, NEW N \in SUBSET Namespaces, NEW O \in SUBSET OpenSubscription
    PROVE  TellAll(T, N, O) \subseteq Told
<1>1. \A o \in O, n \in N : \A a \in NewlySent(T, n, o) : a \in Advertisement
  BY SentTypes, Zenon
<1>2. \A a \in Advertisement : a.seq \in 1 .. MaxSeq /\ a.offer \in Offers \cup {Plain}
  BY Zenon DEF Advertisement
<1>3. \A o \in O, n \in N : \A a \in NewlySent(T, n, o) :
          [to |-> o, ns |-> n, seq |-> a.seq, offer |-> a.offer] \in Told
  BY <1>1, <1>2, Zenon DEF Told
<1>4. told \subseteq Told
  BY Zenon DEF TypeOK
<1> QED BY <1>3, <1>4 DEF TellAll

-----------------------------------------------------------------------------
(***************************************************************************)
(* The book of advertisements.                                             *)
(***************************************************************************)
\* Of two routes at most one is better than the other, so the best is one.
LEMMA SelectOne ==
    ASSUME NEW R \in SUBSET Route, NEW r \in selectRoute(R), NEW q \in selectRoute(R)
    PROVE  r = q
<1> SUFFICES ASSUME r # q
             PROVE  FALSE
  BY Zenon
<1>1. betterRoute(r, q) /\ betterRoute(q, r) /\ r \in Route /\ q \in Route
  BY DEF selectRoute
<1> DEFINE x == <<IF HasAnon(r.offer.path) THEN 1 ELSE 0, r.offer.cost, Len(r.offer.path), q.seq>>
           y == <<IF HasAnon(q.offer.path) THEN 1 ELSE 0, q.offer.cost, Len(q.offer.path), r.seq>>
<1>2. \A c \in Route : c.offer.cost \in Nat /\ Len(c.offer.path) \in Nat /\ c.seq \in Nat
  <2>1. \A o \in Offers \cup {Plain} : o.cost \in Nat /\ Len(o.path) \in Nat
    BY TreeAssumption DEF Plain
  <2>2. \A c \in Route : c.offer \in Offers \cup {Plain} /\ c.seq \in 1 .. MaxSeq
    BY Zenon DEF Route
  <2> QED BY <2>1, <2>2, TreeAssumption
<1>3. /\ \E i \in 1 .. 4 : x[i] < y[i] /\ \A j \in 1 .. i - 1 : x[j] = y[j]
      /\ \E i \in 1 .. 4 : y[i] < x[i] /\ \A j \in 1 .. i - 1 : y[j] = x[j]
  BY <1>1, Zenon DEF betterRoute
<1>4. \A i \in 1 .. 4 : x[i] \in Nat /\ y[i] \in Nat
  BY <1>1, <1>2, SMTT(30)
<1> HIDE DEF x, y
<1> QED BY <1>3, <1>4

\* The page E of open subscription o agrees with the best routes B: they are
\* empty together, E is one entry, of the best route's publisher and, for a
\* session that understands paths, of its path.
Current(B, E, o) ==
    /\ B = {} <=> E = {}
    /\ \A e, f \in E : e = f
    /\ \A e \in E, r \in B : SamePublisher(e, r) /\ (o.sub.session \in Cluster => e.offer = r.offer)

\* reconcileAdvertisement brings the page up to date.
LEMMA Reconciling ==
    ASSUME NEW T, T \in Tree, NEW n \in Namespaces, NEW o \in OpenSubscription,
           \A e, f \in Sent(T, n, o) : e = f
    PROVE  Current(advertisableRoute(T, n, o.sub), Kept(T, n, o) \cup NewlySent(T, n, o), o)
<1> DEFINE B == advertisableRoute(T, n, o.sub)
           advert(r) == [session |-> o.sub.session, depth |-> Len(o.prefix), seq |-> r.seq, offer |-> r.offer]
<1>1. \A r, q \in B : r = q
  <2>1. {r \in T.routes[n] : (o.sub.peer = 0 \/ r.peer # o.sub.peer) /\ shouldForwardNamespace(r, o.sub)} \in SUBSET Route
    BY Zenon DEF Tree
  <2> QED BY <2>1, SelectOne, Zenon DEF advertisableRoute
<1> HIDE DEF B
<1>2. CASE Kept(T, n, o) = {}
  <2>1. NewlySent(T, n, o) = {advert(r) : r \in B}
    BY <1>2, Zenon DEF NewlySent, B
  <2>2. \A r \in B : advert(r).seq = r.seq /\ advert(r).offer = r.offer
    BY Zenon
  <2>3. \A r \in B : SamePublisher(advert(r), r) /\ advert(r).offer = r.offer
    BY <2>2, Zenon DEF SamePublisher
  <2> HIDE DEF advert
  <2> QED BY <1>1, <1>2, <2>1, <2>3, Zenon DEF Current, B
<1>3. CASE Kept(T, n, o) # {}
  <2>1. NewlySent(T, n, o) = {}
    BY <1>3, Zenon DEF NewlySent
  <2>2. \A e \in Kept(T, n, o) : /\ e \in Sent(T, n, o)
                                 /\ \E r \in B : SamePublisher(e, r) /\ (o.sub.session \notin Cluster \/ e.offer = r.offer)
    BY Zenon DEF Kept, B
  <2> QED BY <1>1, <1>3, <2>1, <2>2, Zenon DEF Current, B
<1> QED BY <1>2, <1>3, Zenon

\* The tree's subscribers are the open subscriptions, one for a session and a prefix.
Listed(T, S) ==
    /\ \A p \in Namespaces, sub \in Subscription : sub \in T.subs[p] <=> [sub |-> sub, prefix |-> p] \in S
    /\ \A o, q \in S : o.sub.session = q.sub.session /\ o.prefix = q.prefix => o = q

\* Every entry of the book is on the page of an open subscription.
Owned(T, S) ==
    \A n \in Namespaces : \A e \in T.ads[n] : \E o \in S : Under(o.prefix, n) /\ e \in Sent(T, n, o)

\* The message that entry e of the book stands for.
Entry(o, n, e) == [to |-> o, ns |-> n, seq |-> e.seq, offer |-> e.offer]

\* What was told is in the book, ...
Booked(T, S, D) ==
    \A t \in D : /\ t.to \in S /\ t.ns \in Namespaces /\ Under(t.to.prefix, t.ns)
                 /\ \E e \in Sent(T, t.ns, t.to) : t = Entry(t.to, t.ns, e)

\* ... what is in the book was told, ...
Heard(T, S, D) ==
    \A o \in S, n \in Namespaces : Under(o.prefix, n) => \A e \in Sent(T, n, o) : Entry(o, n, e) \in D

\* ... and the book is up to date.
UpToDate(T, S) ==
    \A o \in S, n \in Namespaces :
        Under(o.prefix, n) => Current(advertisableRoute(T, n, o.sub), Sent(T, n, o), o)

\* The book of tree T, with the open subscriptions S, which heard D.
BookInv(T, S, D) == Listed(T, S) /\ Owned(T, S) /\ Booked(T, S, D) /\ Heard(T, S, D) /\ UpToDate(T, S)

\* It depends on the routes, the subscribers and the book alone.
LEMMA SameBook ==
    ASSUME NEW T, NEW V, NEW S, NEW D, BookInv(T, S, D),
           V.routes = T.routes, V.subs = T.subs, V.ads = T.ads
    PROVE  BookInv(V, S, D)
<1>1. \A n, o : Sent(V, n, o) = Sent(T, n, o)
  BY Zenon DEF Sent
<1>2. \A n, sub : advertisableRoute(V, n, sub) = advertisableRoute(T, n, sub)
  BY Zenon DEF advertisableRoute
<1>3. Listed(V, S)
  BY Zenon DEF BookInv, Listed
<1>4. Owned(V, S)
  BY <1>1 DEF BookInv, Owned
<1>5. Booked(V, S, D) /\ Heard(V, S, D)
  BY <1>1 DEF BookInv, Booked, Heard
<1>6. UpToDate(V, S)
  BY <1>1, <1>2, Zenon DEF BookInv, UpToDate
<1> QED BY <1>3, <1>4, <1>5, <1>6, Zenon DEF BookInv

\* Nothing is in the book at a node without routes.
LEMMA NoRouteNoEntry ==
    ASSUME NEW T, NEW S, NEW D, BookInv(T, S, D), NEW p \in Namespaces, T.routes[p] = {}
    PROVE  T.ads[p] = {}
<1> SUFFICES ASSUME NEW e \in T.ads[p]
             PROVE  FALSE
  BY Zenon
<1>1. PICK o \in S : Under(o.prefix, p) /\ e \in Sent(T, p, o)
  BY Zenon DEF BookInv, Owned
<1>2. advertisableRoute(T, p, o.sub) # {}
  BY <1>1, Zenon DEF BookInv, UpToDate, Current
<1> QED BY <1>2, Zenon DEF advertisableRoute, selectRoute

\* So pruning takes nothing out of it.
LEMMA BookStays ==
    ASSUME NEW T, T \in Tree, NEW S, NEW D, BookInv(T, S, D), NEW V, V \in Tree, BookKept(V, T),
           \A p \in Namespaces : V.routes[p] = {} => T.routes[p] = {}
    PROVE  V.ads = T.ads
<1>1. \A p \in Namespaces : V.ads[p] = T.ads[p]
  BY NoRouteNoEntry, Zenon DEF BookKept
<1> QED BY <1>1 DEF Tree

\* Whom handlers on the way to a node find.
LEMMA WhoCovers ==
    ASSUME NEW T, T \in Tree, NEW S \in SUBSET OpenSubscription, Listed(T, S), NEW n \in Namespaces
    PROVE  \A o : o \in SubscribersOf(T, n) <=> o \in S /\ Under(o.prefix, n)
<1>1. \A p : p \in Above(n) \cup {n} <=> p \in Namespaces /\ Under(p, n)
  BY UnderOrder, Zenon DEF Above
<1>2. \A p \in Namespaces : T.subs[p] \subseteq Subscription
  BY Zenon DEF Tree
<1>3. \A o \in S : o = [sub |-> o.sub, prefix |-> o.prefix] /\ o.sub \in Subscription /\ o.prefix \in Namespaces
  BY DEF OpenSubscription
<1>4. ASSUME NEW o \in SubscribersOf(T, n)
      PROVE  o \in S /\ Under(o.prefix, n)
  <2>0. PICK p \in Above(n) \cup {n} : \E sub \in T.subs[p] : o = [sub |-> sub, prefix |-> p]
    BY <1>4, Zenon DEF SubscribersOf
  <2>1. PICK sub \in T.subs[p] : o = [sub |-> sub, prefix |-> p]
    BY <2>0, Zenon
  <2>2. p \in Namespaces /\ Under(p, n) /\ sub \in Subscription
    BY <1>1, <1>2, <2>1, Zenon
  <2>3. [sub |-> sub, prefix |-> p] \in S
    BY <2>1, <2>2, Zenon DEF Listed
  <2> QED BY <2>1, <2>2, <2>3, Zenon
<1>5. ASSUME NEW o \in S, Under(o.prefix, n)
      PROVE  o \in SubscribersOf(T, n)
  <2>1. o.prefix \in Above(n) \cup {n} /\ o.sub \in T.subs[o.prefix]
    BY <1>1, <1>3, <1>5 DEF Listed
  <2>2. [sub |-> o.sub, prefix |-> o.prefix] \in SubscribersOf(T, n)
    BY <2>1 DEF SubscribersOf
  <2> QED BY <1>3, <2>2, Zenon
<1> QED BY <1>4, <1>5, Zenon

\* Open subscriptions that share a page are the same.
LEMMA OwnPage ==
    ASSUME NEW T, NEW S \in SUBSET OpenSubscription, Listed(T, S), NEW n \in Namespaces,
           NEW o \in S, NEW q \in S, Under(o.prefix, n), Under(q.prefix, n),
           o.sub.session = q.sub.session, Len(o.prefix) = Len(q.prefix)
    PROVE  o = q
<1>1. o.prefix \in Namespaces /\ q.prefix \in Namespaces
  BY Zenon DEF OpenSubscription
<1>2. o.prefix = q.prefix
  BY <1>1, UnderOrder, Zenon
<1> QED BY <1>2, Zenon DEF Listed

\* The page of o that reconcileAdvertisement writes at node n.
Page(T, n, o) == Kept(T, n, o) \cup NewlySent(T, n, o)

\* The entries that are written are on o's page.
LEMMA WrittenOnPage ==
    ASSUME NEW T, NEW n, NEW o
    PROVE  /\ \A e \in Page(T, n, o) : e.session = o.sub.session /\ e.depth = Len(o.prefix)
           /\ Kept(T, n, o) \subseteq Sent(T, n, o)
<1>1. \A e \in Kept(T, n, o) : e \in Sent(T, n, o) /\ e.session = o.sub.session /\ e.depth = Len(o.prefix)
  BY Zenon DEF Kept, Sent
<1>2. \A e \in NewlySent(T, n, o) : e.session = o.sub.session /\ e.depth = Len(o.prefix)
  BY DEF NewlySent
<1> QED BY <1>1, <1>2, Zenon DEF Page

\* What was told after reconciling the pages of the open subscriptions O at nodes N.
LEMMA TellMeans ==
    ASSUME NEW T, NEW N, NEW O, NEW t
    PROVE  t \in TellAll(T, N, O) <=>
               \/ /\ t \in told
                  /\ \/ t.to \notin O \/ t.ns \notin N \/ Kept(T, t.ns, t.to) # {}
                     \/ Sent(T, t.ns, t.to) = {} /\ NewlySent(T, t.ns, t.to) = {}
               \/ \E o \in O, n \in N : \E a \in NewlySent(T, n, o) : t = Entry(o, n, a)
<1> DEFINE changed(x) == Kept(T, x.ns, x.to) = {} /\ Sent(T, x.ns, x.to) \cup NewlySent(T, x.ns, x.to) # {}
           A == {x \in told : x.to \in O /\ x.ns \in N => ~ changed(x)}
           B == UNION {{Entry(o, n, a) : a \in NewlySent(T, n, o)} : o \in O, n \in N}
<1>1. TellAll(T, N, O) = A \cup B
  BY DEF TellAll, Entry
<1>2. t \in A <=> /\ t \in told
                 /\ \/ t.to \notin O \/ t.ns \notin N \/ Kept(T, t.ns, t.to) # {}
                    \/ Sent(T, t.ns, t.to) = {} /\ NewlySent(T, t.ns, t.to) = {}
  BY Zenon
<1>3. t \in B <=> \E o \in O, n \in N : \E a \in NewlySent(T, n, o) : t = Entry(o, n, a)
  <2> DEFINE M(o, n) == {Entry(o, n, a) : a \in NewlySent(T, n, o)}
  <2>1. t \in UNION {M(o, n) : o \in O, n \in N} <=> \E o \in O, n \in N : t \in M(o, n)
    <3> HIDE DEF M
    <3> QED OBVIOUS
  <2>2. \A o, n : t \in M(o, n) <=> \E a \in NewlySent(T, n, o) : t = Entry(o, n, a)
    BY Zenon
  <2> QED BY <2>1, <2>2
<1> QED BY <1>1, <1>2, <1>3

\* Node n of the tree changed and everybody who covers it was told: the book is
\* up to date, and everybody heard what is in it.
LEMMA BookReconciled ==
    ASSUME TypeOK, BookInv(tree, subscribed, told), NEW n \in Namespaces,
           NEW T, T \in Tree, T.subs = tree.subs, T.ads = tree.ads,
           \A p \in Namespaces \ {n} : T.routes[p] = tree.routes[p]
    PROVE  BookInv(Reconciled(T, n, SubscribersOf(T, n)), subscribed, TellAll(T, {n}, SubscribersOf(T, n)))
<1> DEFINE O == SubscribersOf(T, n)
           V == Reconciled(T, n, O)
           D == TellAll(T, {n}, O)
<1>0. subscribed \in SUBSET OpenSubscription /\ Listed(T, subscribed)
  BY Zenon DEF TypeOK, BookInv, Listed
<1>1. \A o : o \in O <=> o \in subscribed /\ Under(o.prefix, n)
  BY <1>0, WhoCovers, Zenon
<1>2. O \in SUBSET OpenSubscription
  BY SubscribersOfTypes, Zenon
<1> HIDE DEF O
<1>3. /\ V \in Tree /\ SameThings(V, T)
      /\ V.ads[n] = (T.ads[n] \ UNION {Sent(T, n, o) : o \in O}) \cup UNION {Page(T, n, o) : o \in O}
      /\ \A p \in Namespaces \ {n} : V.ads[p] = T.ads[p]
  <2>1. \A o : Page(T, n, o) = Kept(T, n, o) \cup NewlySent(T, n, o)
    BY Zenon DEF Page
  <2>2. {Page(T, n, o) : o \in O} = {Kept(T, n, o) \cup NewlySent(T, n, o) : o \in O}
    BY <2>1, Zenon
  <2>3. V \in Tree /\ SameThings(V, T)
    BY <1>2, ReconciledParts, Zenon
  <2>4. V.ads[n] = (T.ads[n] \ UNION {Sent(T, n, o) : o \in O})
                   \cup UNION {Kept(T, n, o) \cup NewlySent(T, n, o) : o \in O}
    BY <1>2, ReconciledOK, Zenon
  <2>5. \A p \in Namespaces \ {n} : V.ads[p] = T.ads[p]
    BY <1>2, ReconciledOK
  <2> HIDE DEF V
  <2> QED BY <2>2, <2>3, <2>4, <2>5, Zenon
<1> HIDE DEF V
<1>4. V.subs = T.subs /\ V.routes = T.routes
  BY <1>3, Zenon DEF SameThings
<1>5. \A p, o : Sent(tree, p, o) = Sent(T, p, o)
  BY Zenon DEF Sent
<1>6. \A e \in T.ads[n] : \E o \in O : e \in Sent(T, n, o)
  BY <1>1, <1>5, Zenon DEF BookInv, Owned
<1>7. \A e : e \in V.ads[n] <=> \E o \in O : e \in Page(T, n, o)
  BY <1>3, <1>6, Zenon
<1>8. \A o \in O : Sent(V, n, o) = Page(T, n, o)
  <2> SUFFICES ASSUME NEW o \in O
               PROVE  Sent(V, n, o) = Page(T, n, o)
    BY Zenon
  <2>1. \A e \in Page(T, n, o) : e \in Sent(V, n, o)
    BY <1>7, WrittenOnPage DEF Sent
  <2>2. ASSUME NEW e \in Sent(V, n, o)
        PROVE  e \in Page(T, n, o)
    <3>1. e \in V.ads[n] /\ e.session = o.sub.session /\ e.depth = Len(o.prefix)
      BY <2>2, Zenon DEF Sent
    <3>2. PICK q \in O : e \in Page(T, n, q)
      BY <1>7, <3>1, Zenon
    <3>3. o.sub.session = q.sub.session /\ Len(o.prefix) = Len(q.prefix)
      BY <3>1, <3>2, WrittenOnPage
    <3>4. o = q
      BY <1>0, <1>1, <3>3, OwnPage, Zenon
    <3> QED BY <3>2, <3>4, Zenon
  <2> QED BY <2>1, <2>2, Zenon
<1>9. \A p \in Namespaces \ {n}, o \in subscribed :
          /\ Sent(V, p, o) = Sent(tree, p, o)
          /\ advertisableRoute(V, p, o.sub) = advertisableRoute(tree, p, o.sub)
  BY <1>3, <1>4, Zenon DEF Sent, advertisableRoute
<1>10. \A o \in O : /\ \A e, f \in Sent(T, n, o) : e = f
                    /\ \A e \in Sent(T, n, o) : Entry(o, n, e) \in told
  <2>1. \A o \in O : o \in subscribed /\ Under(o.prefix, n) /\ Sent(tree, n, o) = Sent(T, n, o)
    BY <1>1, <1>5, Zenon
  <2> QED BY <2>1, SMTT(30) DEF BookInv, UpToDate, Heard, Current
<1>11. Listed(V, subscribed)
  BY <1>0, <1>4, Zenon DEF Listed
<1>12. Owned(V, subscribed)
  <2>1. ASSUME NEW p \in Namespaces, NEW e \in V.ads[p]
        PROVE  \E o \in subscribed : Under(o.prefix, p) /\ e \in Sent(V, p, o)
    <3>1. CASE p = n
      BY <1>1, <1>7, <1>8, <2>1, <3>1, Zenon
    <3>2. CASE p # n
      <4>1. e \in tree.ads[p]
        BY <1>3, <2>1, <3>2, Zenon
      <4> QED BY <1>9, <3>2, <4>1, Zenon DEF BookInv, Owned
    <3> QED BY <3>1, <3>2, Zenon
  <2> QED BY <2>1, Zenon DEF Owned
<1>13. UpToDate(V, subscribed)
  <2>1. ASSUME NEW p \in Namespaces, NEW o \in subscribed, Under(o.prefix, p)
        PROVE  Current(advertisableRoute(V, p, o.sub), Sent(V, p, o), o)
    <3>1. CASE p = n
      <4>1. o \in O /\ o \in OpenSubscription
        BY <1>0, <1>1, <2>1, <3>1, Zenon
      <4>2. Current(advertisableRoute(T, n, o.sub), Page(T, n, o), o)
        BY <1>10, <4>1, Reconciling, Zenon DEF Page
      <4>3. advertisableRoute(V, n, o.sub) = advertisableRoute(T, n, o.sub)
        BY <1>4, Zenon DEF advertisableRoute
      <4> QED BY <1>8, <3>1, <4>1, <4>2, <4>3, Zenon
    <3>2. CASE p # n
      BY <1>9, <2>1, <3>2, Zenon DEF BookInv, UpToDate
    <3> QED BY <3>1, <3>2, Zenon
  <2> QED BY <2>1, Zenon DEF UpToDate
<1>14. Booked(V, subscribed, D)
  <2>1. ASSUME NEW t \in D
        PROVE  /\ t.to \in subscribed /\ t.ns \in Namespaces /\ Under(t.to.prefix, t.ns)
               /\ \E e \in Sent(V, t.ns, t.to) : t = Entry(t.to, t.ns, e)
    <3>1. CASE /\ t \in told
               /\ \/ t.to \notin O \/ t.ns \notin {n} \/ Kept(T, t.ns, t.to) # {}
                  \/ Sent(T, t.ns, t.to) = {} /\ NewlySent(T, t.ns, t.to) = {}
      <4>1. /\ t.to \in subscribed /\ t.ns \in Namespaces /\ Under(t.to.prefix, t.ns)
            /\ \E e \in Sent(tree, t.ns, t.to) : t = Entry(t.to, t.ns, e)
        BY <3>1, Zenon DEF BookInv, Booked
      <4>2. CASE t.ns # n
        BY <1>9, <4>1, <4>2, Zenon
      <4>3. CASE t.ns = n
        <5>1. t.to \in O
          BY <1>1, <4>1, <4>3, Zenon
        <5>2. PICK e \in Sent(T, n, t.to) : t = Entry(t.to, t.ns, e)
          BY <1>5, <4>1, <4>3, Zenon
        <5>3. Kept(T, n, t.to) # {}
          BY <3>1, <4>3, <5>1, <5>2, Zenon
        <5>4. e \in Kept(T, n, t.to)
          BY <1>10, <5>1, <5>2, <5>3, WrittenOnPage
        <5>5. e \in Sent(V, n, t.to)
          BY <1>8, <5>1, <5>4, Zenon DEF Page
        <5> QED BY <4>1, <4>3, <5>2, <5>5, Zenon
      <4> QED BY <4>2, <4>3, Zenon
    <3>2. CASE \E o \in O, m \in {n} : \E a \in NewlySent(T, m, o) : t = Entry(o, m, a)
      <4>1. PICK o \in O : \E a \in NewlySent(T, n, o) : t = Entry(o, n, a)
        BY <3>2, Zenon
      <4>2. PICK a \in NewlySent(T, n, o) : t = Entry(o, n, a)
        BY <4>1, Zenon
      <4>3. t.to = o /\ t.ns = n
        BY <4>2, Zenon DEF Entry
      <4>4. a \in Sent(V, n, o)
        BY <1>8, <4>1, <4>2, Zenon DEF Page
      <4> QED BY <1>1, <4>1, <4>2, <4>3, <4>4, Zenon
    <3> QED BY <2>1, <3>1, <3>2, TellMeans
  <2> QED BY <2>1, Zenon DEF Booked
<1>15. Heard(V, subscribed, D)
  <2>1. ASSUME NEW o \in subscribed, NEW p \in Namespaces, Under(o.prefix, p), NEW e \in Sent(V, p, o)
        PROVE  Entry(o, p, e) \in D
    <3>0. Entry(o, p, e).to = o /\ Entry(o, p, e).ns = p
      BY Zenon DEF Entry
    <3>1. CASE p # n
      <4>1. Entry(o, p, e) \in told
        BY <1>9, <2>1, <3>1, Zenon DEF BookInv, Heard
      <4> QED BY <3>0, <3>1, <4>1, TellMeans, Zenon
    <3>2. CASE p = n
      <4>1. o \in O /\ e \in Page(T, n, o)
        BY <1>1, <1>8, <2>1, <3>2, Zenon
      <4>2. CASE e \in NewlySent(T, n, o)
        BY <3>2, <4>1, <4>2, TellMeans, Zenon
      <4>3. CASE e \in Kept(T, n, o)
        <5>1. Entry(o, n, e) \in told
          BY <1>10, <4>1, <4>3, WrittenOnPage, Zenon
        <5> QED BY <3>0, <3>2, <4>3, <5>1, TellMeans, Zenon
      <4> QED BY <4>1, <4>2, <4>3, Zenon DEF Page
    <3> QED BY <3>1, <3>2, Zenon
  <2> QED BY <2>1, Zenon DEF Heard
<1>16. BookInv(V, subscribed, D)
  BY <1>11, <1>12, <1>13, <1>14, <1>15, Zenon DEF BookInv
<1> QED BY <1>16, Zenon DEF V, O

-----------------------------------------------------------------------------
(***************************************************************************)
(* The relay's handlers.                                                   *)
(***************************************************************************)
\* The inductive invariant: a well formed tree whose book is up to date and
\* was heard by its subscribers.
NInv ==
    /\ TypeOK
    /\ WellFormed(tree)
    /\ BookInv(tree, subscribed, told)

\* Telling everybody who covers a node that changed.
LEMMA AnnounceStep ==
    ASSUME NInv, NEW STATE T, NEW n \in Namespaces, Rerouted(T, tree, n), Announce(T, n)
    PROVE  WellFormed(tree') /\ BookInv(tree', subscribed, told') /\ told' \subseteq Told
<1> DEFINE O == SubscribersOf(T, n)
<1>0. /\ TypeOK /\ BookInv(tree, subscribed, told) /\ tree \in Tree
      /\ WellFormed(T) /\ T \in Tree /\ T.subs = tree.subs /\ BookKept(T, tree)
      /\ T.routes[n] # {} /\ \A p \in Namespaces \ {n} : T.routes[p] = tree.routes[p]
  BY Zenon DEF NInv, TypeOK, Rerouted, WellFormed
<1>1. T.ads = tree.ads
  <2>1. \A p \in Namespaces : T.routes[p] = {} => tree.routes[p] = {}
    BY <1>0, Zenon
  <2> QED BY <1>0, <2>1, BookStays, Zenon
<1>2. BookInv(Reconciled(T, n, O), subscribed, TellAll(T, {n}, O))
  BY <1>0, <1>1, BookReconciled, Zenon
<1>3. O \in SUBSET OpenSubscription
  BY <1>0, SubscribersOfTypes, Zenon
<1>4. tree' = Reconciled(T, n, O) /\ told' = TellAll(T, {n}, O)
  BY Zenon DEF Announce, Grow
<1> HIDE DEF O
<1>5. WellFormed(Reconciled(T, n, O))
  BY <1>0, <1>3, ReconciledOK, Zenon
<1>6. TellAll(T, {n}, O) \subseteq Told
  BY <1>0, <1>3, TellTypes, Zenon
<1> QED BY <1>2, <1>4, <1>5, <1>6, Zenon

\* doPublishNamespaceDone takes routes of one node away and loses nothing else.
LEMMA DoneStep ==
    ASSUME NInv, NEW n \in Namespaces, NEW STATE R, doPublishNamespaceDone(n, R)
    PROVE  WellFormed(tree') /\ BookInv(tree', subscribed, told') /\ told' \subseteq Told
<1> DEFINE Q == tree.routes[n] \ R
           U == [tree EXCEPT !.routes[n] = Q]
           O == SubscribersOf(U, n)
           W == Reconciled(U, n, O)
<1>0. /\ TypeOK /\ WellFormed(tree) /\ BookInv(tree, subscribed, told)
      /\ tree \in Tree /\ Q \in SUBSET Route /\ told \subseteq Told
  BY Zenon DEF NInv, WellFormed, Tree, TypeOK
<1>1. CASE n \in tree.nodes /\ R # {}
  <2>1. tree' = Mutated(tree, W, n) /\ told' = TellAll(U, {n}, O)
    BY <1>1, Zenon DEF doPublishNamespaceDone
  <2> HIDE DEF Q
  <2>2. /\ U \in Tree /\ U.nodes = tree.nodes /\ U.active = tree.active
        /\ U.pubs = tree.pubs /\ U.ads = tree.ads /\ U.subs = tree.subs /\ U.routes = [tree.routes EXCEPT ![n] = Q]
    BY <1>0, Zenon DEF Tree
  <2> HIDE DEF U
  <2>3. \A p \in Namespaces \ {n} : U.routes[p] = tree.routes[p]
    BY <1>0, <2>2, Zenon DEF Tree
  <2>4. BookInv(W, subscribed, TellAll(U, {n}, O))
    BY <1>0, <2>2, <2>3, BookReconciled, Zenon
  <2>5. O \in SUBSET OpenSubscription
    BY <2>2, SubscribersOfTypes, Zenon
  <2> HIDE DEF O
  <2>6. W \in Tree /\ W.nodes = tree.nodes /\ W.active = tree.active /\ SameThings(W, U)
    BY <2>2, <2>5, ReconciledParts, Zenon
  <2> HIDE DEF W
  <2>7. \A p \in Namespaces \ {n} : hasContent(W, p) <=> hasContent(tree, p)
    BY <2>2, <2>3, <2>6 DEF hasContent, SameThings
  <2>8. WellFormed(Mutated(tree, W, n)) /\ SameThings(Mutated(tree, W, n), W) /\ BookKept(Mutated(tree, W, n), W)
    BY <1>0, <1>1, <2>6, <2>7, MutatedOK, Zenon
  <2>9. TellAll(U, {n}, O) \subseteq Told
    BY <1>0, <2>2, <2>5, TellTypes, Zenon
  <2>10. BookInv(tree', subscribed, told')
    <3>1. tree' \in Tree /\ tree'.routes = W.routes /\ tree'.subs = W.subs /\ BookKept(tree', W)
      BY <2>1, <2>8, Zenon DEF SameThings, WellFormed
    <3>2. tree'.ads = W.ads
      BY <2>4, <2>6, <3>1, BookStays, Zenon
    <3> QED BY <2>1, <2>4, <3>1, <3>2, SameBook, Zenon
  <2> QED BY <2>1, <2>8, <2>9, <2>10, Zenon
<1>2. CASE ~ (n \in tree.nodes /\ R # {})
  BY <1>0, <1>2, Zenon DEF doPublishNamespaceDone
<1> QED BY <1>1, <1>2, Zenon

\* A handler that leaves the subscribers alone.
LEMMA SameSubscribers ==
    ASSUME NInv, WellFormed(tree'), BookInv(tree', subscribed, told'), told' \subseteq Told, subscribed' = subscribed,
           handles' \subseteq [session : Sessions, ns : Namespaces, req : Nat],
           bridged' \subseteq Sessions \X Namespaces
    PROVE  NInv'
<1>1. TypeOK'
  BY Zenon DEF NInv, TypeOK, WellFormed
<1> QED BY <1>1, Zenon DEF NInv

\* What the announcers send.
LEMMA AnnouncersStep ==
    ASSUME NInv, NEW s \in Announcers, NEW n \in Namespaces, NEW offer \in Offers \cup {Plain},
           \/ publishNamespace(s, n, offer)
           \/ namespaceMsg(s, n, offer)
           \/ namespaceDoneMsg(s, n)
    PROVE  NInv'
<1>0. /\ TypeOK /\ WellFormed(tree) /\ BookInv(tree, subscribed, told) /\ tree.seq + 1 \in Nat /\ s \in Sessions /\ PeerOf[s] \in Nat
      /\ Ingested(s, offer) \in Offers \cup {Plain}
      /\ told \subseteq Told /\ bridged \subseteq Sessions \X Namespaces
      /\ handles \subseteq [session : Sessions, ns : Namespaces, req : Nat]
  BY RoutesAssumption DEF NInv, TypeOK, Tree, Ingested
<1>1. CASE publishNamespace(s, n, offer)
  <2> DEFINE callback == TRUE
             peer == 0
             req == tree.seq + 1
             T == setPublisher(tree, n, s, callback, peer, req, Ingested(s, offer))
  <2>1. tree.seq < MaxSeq /\ Announce(T, n) /\ subscribed' = subscribed /\ bridged' = bridged
    BY <1>1, Zenon DEF publishNamespace
  <2>2. Rerouted(T, tree, n)
    <3>1. callback \in BOOLEAN /\ peer \in Nat /\ req \in Nat
      BY <1>0, Zenon
    <3>2. tree.seq < MaxSeq
      BY <2>1, Zenon
    <3> HIDE DEF callback, peer, req
    <3> QED BY <1>0, <3>1, <3>2, SetPublisherOK, Zenon
  <2> HIDE DEF T
  <2>3. WellFormed(tree') /\ BookInv(tree', subscribed, told') /\ told' \subseteq Told
    BY <1>0, <2>1, <2>2, AnnounceStep, Zenon
  <2>4. handles' \subseteq [session : Sessions, ns : Namespaces, req : Nat]
    BY <1>0, <1>1 DEF publishNamespace
  <2> QED BY <1>0, <2>1, <2>3, <2>4, SameSubscribers, Zenon
<1>2. CASE namespaceMsg(s, n, offer)
  <2> DEFINE callback == FALSE
             req == 0
             T == setPublisher(tree, n, s, callback, PeerOf[s], req, Ingested(s, offer))
             R == RoutesOf(s, n)
  <2>1. /\ tree.seq < MaxSeq /\ subscribed' = subscribed /\ handles' = handles
        /\ bridged' \subseteq Sessions \X Namespaces
    BY <1>0, <1>2 DEF namespaceMsg
  <2>2. \/ doPublishNamespaceDone(n, R)
        \/ UNCHANGED <<tree, told>>
        \/ Announce(T, n)
    BY <1>2, Zenon DEF namespaceMsg
  <2>3. Rerouted(T, tree, n)
    <3>1. callback \in BOOLEAN /\ req \in Nat
      BY Zenon
    <3>2. tree.seq < MaxSeq
      BY <2>1, Zenon
    <3> HIDE DEF callback, req
    <3> QED BY <1>0, <3>1, <3>2, SetPublisherOK, Zenon
  <2> HIDE DEF T, R
  <2>4. WellFormed(tree') /\ BookInv(tree', subscribed, told') /\ told' \subseteq Told
    <3>1. CASE doPublishNamespaceDone(n, R)
      BY <1>0, <3>1, DoneStep, Zenon
    <3>2. CASE UNCHANGED <<tree, told>>
      BY <1>0, <3>2, Zenon
    <3>3. CASE Announce(T, n)
      BY <1>0, <2>3, <3>3, AnnounceStep, Zenon
    <3> QED BY <2>2, <3>1, <3>2, <3>3, Zenon
  <2> QED BY <1>0, <2>1, <2>4, SameSubscribers, Zenon
<1>3. CASE namespaceDoneMsg(s, n)
  <2> DEFINE R == RoutesOf(s, n)
  <2>1. doPublishNamespaceDone(n, R) /\ subscribed' = subscribed /\ handles' = handles
    BY <1>3, Zenon DEF namespaceDoneMsg
  <2>2. bridged' \subseteq Sessions \X Namespaces
    BY <1>0, <1>3, Zenon DEF namespaceDoneMsg
  <2> HIDE DEF R
  <2>3. WellFormed(tree') /\ BookInv(tree', subscribed, told') /\ told' \subseteq Told
    BY <1>0, <2>1, DoneStep, Zenon
  <2> QED BY <1>0, <2>1, <2>2, <2>3, SameSubscribers, Zenon
<1> QED BY <1>1, <1>2, <1>3, Zenon

\* What the announcers do with what they hold.
LEMMA HandlesStep ==
    ASSUME NInv, NEW h \in handles, NEW offer \in Offers \cup {Plain},
           publishNamespaceDone(h) \/ updatePublishNamespace(h, offer)
    PROVE  NInv'
<1> DEFINE R == {r \in RoutesOf(h.session, h.ns) : r.req = h.req}
<1>0. /\ TypeOK /\ WellFormed(tree) /\ BookInv(tree, subscribed, told) /\ h.ns \in Namespaces
      /\ told \subseteq Told /\ bridged \subseteq Sessions \X Namespaces
      /\ handles \subseteq [session : Sessions, ns : Namespaces, req : Nat]
  BY Zenon DEF NInv, TypeOK
<1>1. R \subseteq tree.routes[h.ns] /\ tree.routes[h.ns] \in SUBSET Route
  BY <1>0, Zenon DEF RoutesOf, WellFormed, Tree
<1>2. CASE publishNamespaceDone(h)
  <2>1. doPublishNamespaceDone(h.ns, R) /\ handles' = handles \ {h} /\ bridged' = bridged /\ subscribed' = subscribed
    BY <1>2, Zenon DEF publishNamespaceDone
  <2> HIDE DEF R
  <2>2. WellFormed(tree') /\ BookInv(tree', subscribed, told') /\ told' \subseteq Told
    BY <1>0, <2>1, DoneStep, Zenon
  <2>3. handles' \subseteq [session : Sessions, ns : Namespaces, req : Nat]
    BY <1>0, <2>1, Zenon
  <2> QED BY <1>0, <2>1, <2>2, <2>3, SameSubscribers, Zenon
<1>3. CASE updatePublishNamespace(h, offer)
  <2>1. /\ tree.seq < MaxSeq /\ handles' = handles /\ bridged' = bridged /\ subscribed' = subscribed
        /\ \/ doPublishNamespaceDone(h.ns, R)
           \/ \E r \in R : Announce(reviseRoute(tree, h.ns, r, offer, r.peer), h.ns)
    BY <1>3, Zenon DEF updatePublishNamespace
  <2> HIDE DEF R
  <2>2. WellFormed(tree') /\ BookInv(tree', subscribed, told') /\ told' \subseteq Told
    <3>1. CASE doPublishNamespaceDone(h.ns, R)
      BY <1>0, <3>1, DoneStep, Zenon
    <3>2. CASE \E r \in R : Announce(reviseRoute(tree, h.ns, r, offer, r.peer), h.ns)
      <4>1. PICK r \in R : Announce(reviseRoute(tree, h.ns, r, offer, r.peer), h.ns)
        BY <3>2, Zenon
      <4> DEFINE T == reviseRoute(tree, h.ns, r, offer, r.peer)
      <4>2. r \in tree.routes[h.ns] /\ r.peer \in Nat /\ offer \in Offers \cup {Plain}
        BY <1>1, Zenon DEF Route
      <4>3. Rerouted(T, tree, h.ns)
        BY <1>0, <2>1, <4>2, ReviseOK, Zenon
      <4> HIDE DEF T
      <4> QED BY <1>0, <4>1, <4>3, AnnounceStep, Zenon DEF T
    <3> QED BY <2>1, <3>1, <3>2, Zenon
  <2> QED BY <1>0, <2>1, <2>2, SameSubscribers, Zenon
<1> QED BY <1>2, <1>3, Zenon

\* Tracks published at a node, and their end.
LEMMA TracksStep ==
    ASSUME NInv, NEW n \in Namespaces, NEW name \in TrackNames, publish(n, name) \/ trackDone(n, name)
    PROVE  NInv'
<1>0. /\ WellFormed(tree) /\ BookInv(tree, subscribed, told) /\ told \subseteq Told /\ bridged \subseteq Sessions \X Namespaces
      /\ handles \subseteq [session : Sessions, ns : Namespaces, req : Nat]
  BY Zenon DEF NInv, TypeOK
<1>1. tree' = addPublish(tree, n, name) \/ tree' = unpublishTrack(tree, n, name)
  BY Zenon DEF publish, trackDone, Grow
<1>2. WellFormed(tree') /\ BookInv(tree', subscribed, told)
  <2>1. Republished(tree', tree)
    BY <1>0, <1>1, PublishesOK, Zenon
  <2>2. /\ WellFormed(tree') /\ tree' \in Tree /\ tree \in Tree
        /\ tree'.subs = tree.subs /\ tree'.routes = tree.routes /\ BookKept(tree', tree)
    BY <1>0, <2>1, Zenon DEF Republished, WellFormed
  <2>3. tree'.ads = tree.ads
    BY <1>0, <2>2, BookStays, Zenon
  <2> QED BY <1>0, <2>2, <2>3, SameBook, Zenon
<1>3. handles' = handles /\ bridged' = bridged /\ subscribed' = subscribed /\ told' = told
  BY Zenon DEF publish, trackDone
<1> QED BY <1>0, <1>2, <1>3, SameSubscribers, Zenon

\* The pages of V after subscription o joined T: of the nodes M below its prefix
\* that have a route for it, they are reconciled with it.
PagesJoined(V, T, M, o) ==
    /\ M = {n \in Below(o.prefix) : advertisableRoute(tree, n, o.sub) # {}}
    /\ \A n \in Namespaces : V.ads[n] = IF n \in M THEN Reconciled(T, n, {o}).ads[n] ELSE T.ads[n]

\* A new subscription o hears of every node below its prefix with a route for
\* it; the pages of the others stay as they are.
LEMMA BookJoined ==
    ASSUME NInv, NEW o \in OpenSubscription,
           \A q \in subscribed : q.sub.session # o.sub.session \/ q.prefix # o.prefix,
           NEW T, Joined(T, tree, o.prefix, o.sub),
           NEW M, NEW V, V.routes = T.routes, V.subs = T.subs, PagesJoined(V, T, M, o)
    PROVE  BookInv(V, subscribed \cup {o}, TellAll(T, M, {o}))
<1> DEFINE S == subscribed \cup {o}
           D == TellAll(T, M, {o})
           p == o.prefix
<1>0. /\ TypeOK /\ WellFormed(tree) /\ BookInv(tree, subscribed, told) /\ tree \in Tree /\ T \in Tree
      /\ subscribed \in SUBSET OpenSubscription
      /\ T.routes = tree.routes /\ T.subs = [tree.subs EXCEPT ![p] = tree.subs[p] \cup {o.sub}]
      /\ BookKept(T, tree)
  BY Zenon DEF NInv, TypeOK, WellFormed, Joined, Resubscribed
<1>0a. \A n : \A e \in Page(T, n, o) : e.session = o.sub.session /\ e.depth = Len(p)
  BY WrittenOnPage
<1>1. T.ads = tree.ads
  <2>1. \A n \in Namespaces : T.routes[n] = {} => tree.routes[n] = {}
    BY <1>0, Zenon
  <2> QED BY <1>0, <2>1, BookStays, Zenon
<1>2. p \in Namespaces /\ o.sub \in Subscription /\ o = [sub |-> o.sub, prefix |-> p]
  BY Zenon DEF OpenSubscription
<1>3. o \notin subscribed /\ Listed(V, S)
  <2>1. \A n \in Namespaces, sub \in Subscription :
            sub \in V.subs[n] <=> [sub |-> sub, prefix |-> n] \in subscribed \/ (n = p /\ sub = o.sub)
    <3>1. tree.subs \in [Namespaces -> SUBSET Subscription]
      BY <1>0, Zenon DEF Tree
    <3>2. \A n \in Namespaces, sub \in Subscription :
              sub \in V.subs[n] <=> sub \in tree.subs[n] \/ (n = p /\ sub = o.sub)
      BY <1>0, <1>2, <3>1
    <3> QED BY <1>0, <3>2, Zenon DEF BookInv, Listed
  <2>2. \A n, sub : [sub |-> sub, prefix |-> n] = o <=> n = p /\ sub = o.sub
    BY <1>2
  <2>3. \A n \in Namespaces, sub \in Subscription : sub \in V.subs[n] <=> [sub |-> sub, prefix |-> n] \in S
    <3> SUFFICES ASSUME NEW n \in Namespaces, NEW sub \in Subscription
                 PROVE  sub \in V.subs[n] <=> [sub |-> sub, prefix |-> n] \in S
      BY Zenon
    <3>1. [sub |-> sub, prefix |-> n] = o <=> n = p /\ sub = o.sub
      BY <2>2, Zenon
    <3>2. sub \in V.subs[n] <=> [sub |-> sub, prefix |-> n] \in subscribed \/ (n = p /\ sub = o.sub)
      BY <2>1, Zenon
    <3> QED BY <3>1, <3>2, Zenon
  <2>4. \A x, q \in S : x.sub.session = q.sub.session /\ x.prefix = q.prefix => x = q
    BY <1>0, Zenon DEF BookInv, Listed
  <2> QED BY <2>3, <2>4, Zenon DEF Listed
<1>4. S \in SUBSET OpenSubscription
  BY <1>0, Zenon
<1>5. ASSUME NEW n \in Namespaces, Under(p, n), NEW q \in subscribed, Under(q.prefix, n),
             q.sub.session = o.sub.session, Len(q.prefix) = Len(p)
      PROVE  FALSE
  <2>1. q = o
    <3>1. q \in S /\ o \in S /\ o.sub.session = q.sub.session /\ Len(o.prefix) = Len(q.prefix)
      BY <1>5, Zenon
    <3> QED BY <1>3, <1>4, <1>5, <3>1, OwnPage, Zenon
  <2> QED BY <1>3, <2>1, Zenon
<1>6. \A n \in Namespaces : Under(p, n) => Sent(tree, n, o) = {}
  <2> SUFFICES ASSUME NEW n \in Namespaces, Under(p, n), NEW e \in Sent(tree, n, o)
               PROVE  FALSE
    BY Zenon
  <2>1. e \in tree.ads[n] /\ e.session = o.sub.session /\ e.depth = Len(p)
    BY Zenon DEF Sent
  <2>2. PICK q \in subscribed : Under(q.prefix, n) /\ e \in Sent(tree, n, q)
    BY <1>0, <2>1, Zenon DEF BookInv, Owned
  <2>3. e.session = q.sub.session /\ e.depth = Len(q.prefix)
    BY <2>2, Zenon DEF Sent
  <2> QED BY <1>5, <2>1, <2>2, <2>3, Zenon
<1>7. \A n, q : Sent(T, n, q) = Sent(tree, n, q)
  BY <1>1, Zenon DEF Sent
<1>8. \A n, sub : advertisableRoute(T, n, sub) = advertisableRoute(tree, n, sub)
                  /\ advertisableRoute(V, n, sub) = advertisableRoute(tree, n, sub)
  BY <1>0, Zenon DEF advertisableRoute
<1>9. \A n \in M : n \in Namespaces /\ Under(p, n) /\ n \in tree.nodes
  BY <1>0, Zenon DEF PagesJoined, Below, Tree
<1>10. \A n \in Namespaces : Under(p, n) /\ n \notin M => advertisableRoute(tree, n, o.sub) = {}
  <2> SUFFICES ASSUME NEW n \in Namespaces, Under(p, n), n \notin M, advertisableRoute(tree, n, o.sub) # {}
               PROVE  FALSE
    BY Zenon
  <2>1. n \notin tree.nodes
    BY Zenon DEF PagesJoined, Below
  <2>2. tree.routes[n] # {}
    BY Zenon DEF advertisableRoute, selectRoute
  <2>3. n \in Contents(tree)
    BY <2>2, Zenon DEF Contents, hasContent
  <2> QED BY <1>0, <2>1, <2>3, Zenon DEF WellFormed, Sound
<1>11. \A n \in M : Kept(T, n, o) = {} /\ Sent(T, n, o) = {} /\ Page(T, n, o) = NewlySent(T, n, o)
  <2> SUFFICES ASSUME NEW n \in M
               PROVE  Kept(T, n, o) = {} /\ Sent(T, n, o) = {} /\ Page(T, n, o) = NewlySent(T, n, o)
    BY Zenon
  <2>1. Sent(T, n, o) = {}
    BY <1>6, <1>7, <1>9, Zenon
  <2>2. Kept(T, n, o) \subseteq Sent(T, n, o)
    BY WrittenOnPage, Zenon
  <2>3. Kept(T, n, o) = {}
    BY <2>1, <2>2, Zenon
  <2> QED BY <2>1, <2>3, Zenon DEF Page
<1>12. \A n \in Namespaces : V.ads[n] = IF n \in M THEN tree.ads[n] \cup Page(T, n, o) ELSE tree.ads[n]
  <2> SUFFICES ASSUME NEW n \in Namespaces, n \in M
               PROVE  Reconciled(T, n, {o}).ads[n] = tree.ads[n] \cup Page(T, n, o)
    BY <1>1, Zenon DEF PagesJoined
  <2>1. {o} \in SUBSET OpenSubscription
    BY Zenon
  <2>2. Reconciled(T, n, {o}).ads[n] = (T.ads[n] \ UNION {Sent(T, n, x) : x \in {o}})
                                       \cup UNION {Kept(T, n, x) \cup NewlySent(T, n, x) : x \in {o}}
    BY <1>0, <2>1, ReconciledOK, Zenon
  <2>3. Sent(T, n, o) = {}
    BY <1>11, Zenon
  <2>4. UNION {Sent(T, n, x) : x \in {o}} = Sent(T, n, o)
    BY Zenon
  <2>5. UNION {Kept(T, n, x) \cup NewlySent(T, n, x) : x \in {o}} = Page(T, n, o)
    BY Zenon DEF Page
  <2> QED BY <1>1, <2>2, <2>3, <2>4, <2>5, Zenon
<1>13. \A n \in Namespaces, q \in subscribed : Under(q.prefix, n) => Sent(V, n, q) = Sent(tree, n, q)
  <2> SUFFICES ASSUME NEW n \in Namespaces, NEW q \in subscribed, Under(q.prefix, n)
               PROVE  Sent(V, n, q) = Sent(tree, n, q)
    BY Zenon
  <2>1. CASE n \notin M
    BY <1>12, <2>1, Zenon DEF Sent
  <2>2. CASE n \in M
    <3>1. \A e \in Page(T, n, o) : ~ (e.session = q.sub.session /\ e.depth = Len(q.prefix))
      <4>1. \A e \in Page(T, n, o) : e.session = o.sub.session /\ e.depth = Len(p)
        BY <1>0a, Zenon
      <4>2. Under(p, n)
        BY <1>9, <2>2, Zenon
      <4> QED BY <1>5, <4>1, <4>2, Zenon
    <3> QED BY <1>12, <2>2, <3>1, Zenon DEF Sent
  <2> QED BY <2>1, <2>2, Zenon
<1>14. \A n \in Namespaces : Under(p, n) => Sent(V, n, o) = IF n \in M THEN NewlySent(T, n, o) ELSE {}
  <2> SUFFICES ASSUME NEW n \in Namespaces, Under(p, n)
               PROVE  Sent(V, n, o) = IF n \in M THEN NewlySent(T, n, o) ELSE {}
    BY Zenon
  <2>1. \A e \in tree.ads[n] : ~ (e.session = o.sub.session /\ e.depth = Len(o.prefix))
    BY <1>6, Zenon DEF Sent
  <2>2. CASE n \notin M
    BY <1>12, <2>1, <2>2, Zenon DEF Sent
  <2>3. CASE n \in M
    <3>1. \A e \in Page(T, n, o) : e.session = o.sub.session /\ e.depth = Len(o.prefix)
      BY <1>0a, Zenon
    <3>2. Sent(V, n, o) = Page(T, n, o)
      BY <1>12, <2>1, <2>3, <3>1, Zenon DEF Sent
    <3> QED BY <1>11, <2>3, <3>2, Zenon
  <2> QED BY <2>2, <2>3, Zenon
<1>15. Owned(V, S)
  <2> SUFFICES ASSUME NEW n \in Namespaces, NEW e \in V.ads[n]
               PROVE  \E q \in S : Under(q.prefix, n) /\ e \in Sent(V, n, q)
    BY Zenon DEF Owned
  <2>1. CASE e \in tree.ads[n]
    <3>1. PICK q \in subscribed : Under(q.prefix, n) /\ e \in Sent(tree, n, q)
      BY <1>0, <2>1, Zenon DEF BookInv, Owned
    <3> QED BY <1>13, <3>1, Zenon
  <2>2. CASE e \notin tree.ads[n]
    <3>1. n \in M
      BY <1>12, <2>2, Zenon
    <3>2. V.ads[n] = tree.ads[n] \cup Page(T, n, o)
      BY <1>12, <3>1, Zenon
    <3>3. e \in NewlySent(T, n, o)
      BY <1>11, <2>2, <3>1, <3>2, Zenon
    <3> QED BY <1>9, <1>14, <3>1, <3>3, Zenon
  <2> QED BY <2>1, <2>2, Zenon
<1>16. UpToDate(V, S)
  <2> SUFFICES ASSUME NEW q \in S, NEW n \in Namespaces, Under(q.prefix, n)
               PROVE  Current(advertisableRoute(V, n, q.sub), Sent(V, n, q), q)
    BY Zenon DEF UpToDate
  <2>1. CASE q \in subscribed
    <3>1. Current(advertisableRoute(tree, n, q.sub), Sent(tree, n, q), q)
      BY <1>0, <2>1, Zenon DEF BookInv, UpToDate
    <3>2. advertisableRoute(V, n, q.sub) = advertisableRoute(tree, n, q.sub) /\ Sent(V, n, q) = Sent(tree, n, q)
      BY <1>8, <1>13, <2>1, Zenon
    <3> QED BY <3>1, <3>2, Zenon
  <2>2. CASE q = o /\ n \in M
    <3>1. Current(advertisableRoute(T, n, o.sub), Page(T, n, o), o)
      BY <1>0, <1>11, <2>2, Reconciling, Zenon DEF Page
    <3>2. advertisableRoute(V, n, o.sub) = advertisableRoute(T, n, o.sub)
      <4>1. advertisableRoute(V, n, o.sub) = advertisableRoute(tree, n, o.sub)
        BY <1>8, Zenon
      <4> QED BY <1>8, <4>1, Zenon
    <3>3. Sent(V, n, o) = Page(T, n, o)
      <4>1. Under(p, n)
        BY <2>2, Zenon
      <4>2. Sent(V, n, o) = NewlySent(T, n, o)
        BY <1>14, <2>2, <4>1, Zenon
      <4> QED BY <1>11, <2>2, <4>2, Zenon
    <3> QED BY <2>2, <3>1, <3>2, <3>3, Zenon
  <2>3. CASE q = o /\ n \notin M
    <3>1. advertisableRoute(V, n, o.sub) = {} /\ Sent(V, n, o) = {}
      BY <1>8, <1>10, <1>14, <2>3, Zenon
    <3> QED BY <2>3, <3>1, Zenon DEF Current
  <2> QED BY <2>1, <2>2, <2>3, Zenon
<1>17. \A t : t \in D <=> t \in told \/ \E n \in M : \E a \in NewlySent(T, n, o) : t = Entry(o, n, a)
  <2>1. \A t \in told : t.to \notin {o}
    BY <1>0, <1>3, Zenon DEF BookInv, Booked
  <2> QED BY <2>1, TellMeans
<1> HIDE DEF D
<1>18. Booked(V, S, D)
  <2> SUFFICES ASSUME NEW t \in D
               PROVE  /\ t.to \in S /\ t.ns \in Namespaces /\ Under(t.to.prefix, t.ns)
                      /\ \E e \in Sent(V, t.ns, t.to) : t = Entry(t.to, t.ns, e)
    BY Zenon DEF Booked
  <2>1. CASE t \in told
    <3>1. /\ t.to \in subscribed /\ t.ns \in Namespaces /\ Under(t.to.prefix, t.ns)
          /\ \E e \in Sent(tree, t.ns, t.to) : t = Entry(t.to, t.ns, e)
      BY <1>0, <2>1, Zenon DEF BookInv, Booked
    <3>2. Sent(V, t.ns, t.to) = Sent(tree, t.ns, t.to)
      BY <1>13, <3>1, Zenon
    <3> QED BY <3>1, <3>2, Zenon
  <2>2. CASE \E n \in M : \E a \in NewlySent(T, n, o) : t = Entry(o, n, a)
    <3>1. PICK n \in M : \E a \in NewlySent(T, n, o) : t = Entry(o, n, a)
      BY <2>2, Zenon
    <3>2. PICK a \in NewlySent(T, n, o) : t = Entry(o, n, a)
      BY <3>1, Zenon
    <3>3. t.to = o /\ t.ns = n
      BY <3>2, Zenon DEF Entry
    <3>4. a \in Sent(V, n, o)
      BY <1>9, <1>14, <3>1, <3>2, Zenon
    <3> QED BY <1>9, <3>1, <3>2, <3>3, <3>4, Zenon
  <2>3. t \in told \/ \E n \in M : \E a \in NewlySent(T, n, o) : t = Entry(o, n, a)
    BY <1>17, Zenon
  <2> QED BY <2>1, <2>2, <2>3, Zenon
<1>19. Heard(V, S, D)
  <2> SUFFICES ASSUME NEW q \in S, NEW n \in Namespaces, Under(q.prefix, n), NEW e \in Sent(V, n, q)
               PROVE  Entry(q, n, e) \in D
    BY Zenon DEF Heard
  <2>1. CASE q \in subscribed
    BY <1>0, <1>13, <1>17, <2>1, Zenon DEF BookInv, Heard
  <2>2. CASE q = o
    <3>1. n \in M /\ e \in NewlySent(T, n, o)
      BY <1>14, <2>2, Zenon
    <3> QED BY <1>17, <2>2, <3>1, Zenon
  <2> QED BY <2>1, <2>2, Zenon
<1>20. BookInv(V, S, D)
  BY <1>3, <1>15, <1>16, <1>18, <1>19, Zenon DEF BookInv
<1> QED BY <1>20, Zenon DEF D

\* SUBSCRIBE_NAMESPACE.
LEMMA SubscribeStep ==
    ASSUME NInv, NEW s \in Listeners, NEW p \in Prefixes, NEW wants \in BOOLEAN, subscribeNamespace(s, p, wants)
    PROVE  NInv'
<1> DEFINE sub == [session |-> s, wants |-> wants, peer |-> PeerOf[s]]
           o == [sub |-> sub, prefix |-> p]
           matches == {n \in Below(p) : advertisableRoute(tree, n, sub) # {}}
           T == addNamespaceSubscriber(tree, p, sub)
           G == [n \in Namespaces |-> IF n \in matches THEN Reconciled(T, n, {o}).ads[n] ELSE T.ads[n]]
<1>0. /\ TypeOK /\ WellFormed(tree) /\ tree \in Tree /\ p \in Namespaces
      /\ handles \subseteq [session : Sessions, ns : Namespaces, req : Nat]
      /\ bridged \subseteq Sessions \X Namespaces /\ subscribed \subseteq OpenSubscription
  BY RoutesAssumption, Zenon DEF NInv, TypeOK
<1>1. sub \in Subscription
  BY RoutesAssumption, Zenon DEF Subscription
<1>2. /\ tree' = [T EXCEPT !.ads = G] /\ told' = TellAll(T, matches, {o}) /\ subscribed' = subscribed \cup {o}
      /\ handles' = handles /\ bridged' = bridged
      /\ \A q \in subscribed : q.sub.session # s \/ q.prefix # p
  BY Zenon DEF subscribeNamespace, Grow
<1>3. o.sub = sub /\ o.prefix = p /\ sub.session = s
  BY Zenon
<1> HIDE DEF sub
<1>4. o \in OpenSubscription
  BY <1>0, <1>1, Zenon DEF OpenSubscription
<1>5. matches \in SUBSET Namespaces
  BY <1>0, Zenon DEF Below, Tree
<1>6. Joined(T, tree, p, sub)
  BY <1>0, <1>1, SubscribersOK, Zenon
<1>7. WellFormed(T) /\ T \in Tree
  BY <1>6, Zenon DEF Joined, Resubscribed, WellFormed
<1>8. matches = {n \in Below(o.prefix) : advertisableRoute(tree, n, o.sub) # {}}
  BY <1>3, Zenon
<1> HIDE DEF T, o, matches
<1>9. {o} \in SUBSET OpenSubscription
  BY <1>4, Zenon
<1>10. G \in [Namespaces -> SUBSET Advertisement]
  <2>1. \A n \in Namespaces : Reconciled(T, n, {o}).ads[n] \in SUBSET Advertisement
    BY <1>7, <1>9, ReconciledOK, Zenon
  <2>2. \A n \in Namespaces : T.ads[n] \in SUBSET Advertisement
    BY <1>7, Zenon DEF Tree
  <2> QED BY <2>1, <2>2, Zenon
<1>11. \A n \in Namespaces : G[n] = IF n \in matches THEN Reconciled(T, n, {o}).ads[n] ELSE T.ads[n]
  BY Zenon
<1> HIDE DEF G
<1>12. /\ tree' \in Tree /\ WellFormed(tree') /\ tree'.ads = G
       /\ tree'.subs = T.subs /\ tree'.routes = T.routes
  BY <1>2, <1>7, <1>10, BookOK DEF SameThings
<1>13. BookInv(tree', subscribed \cup {o}, TellAll(T, matches, {o}))
  <2>1. \A n \in Namespaces : tree'.ads[n] = IF n \in matches THEN Reconciled(T, n, {o}).ads[n] ELSE T.ads[n]
    BY <1>11, <1>12, Zenon
  <2>2. \A q \in subscribed : q.sub.session # o.sub.session \/ q.prefix # o.prefix
    BY <1>2, <1>3, Zenon
  <2>3. Joined(T, tree, o.prefix, o.sub)
    BY <1>3, <1>6, Zenon
  <2>4. PagesJoined(tree', T, matches, o)
    BY <1>8, <2>1, Zenon DEF PagesJoined
  <2> QED BY <1>4, <1>12, <2>2, <2>3, <2>4, BookJoined, Zenon
<1>14. told' \subseteq Told
  BY <1>0, <1>2, <1>5, <1>7, <1>9, TellTypes, Zenon
<1>15. subscribed' \subseteq OpenSubscription
  BY <1>0, <1>2, <1>4, Zenon
<1>16. TypeOK'
  BY <1>0, <1>2, <1>12, <1>14, <1>15, Zenon DEF TypeOK
<1> QED BY <1>2, <1>12, <1>13, <1>16, Zenon DEF NInv

\* A subscription that ends takes its page along and no other.
LEMMA BookParted ==
    ASSUME NInv, NEW o \in subscribed, NEW V, Parted(V, tree, o.prefix, o.sub)
    PROVE  BookInv(V, subscribed \ {o}, {t \in told : t.to # o})
<1> DEFINE S == subscribed \ {o}
           D == {t \in told : t.to # o}
           p == o.prefix
<1>0. /\ BookInv(tree, subscribed, told) /\ tree \in Tree /\ V \in Tree
      /\ subscribed \in SUBSET OpenSubscription
      /\ V.routes = tree.routes /\ V.subs = [tree.subs EXCEPT ![p] = tree.subs[p] \ {o.sub}]
      /\ \A n \in Namespaces : V.ads[n] = Forgotten(tree, p, o.sub)[n] \/ (V.ads[n] = {} /\ V.routes[n] = {})
  BY Zenon DEF NInv, TypeOK, WellFormed, Parted, Resubscribed
<1>1. p \in Namespaces /\ o.sub \in Subscription /\ o = [sub |-> o.sub, prefix |-> p]
  BY <1>0, Zenon DEF OpenSubscription
<1>2. \A n \in Namespaces : \A e : e \in Forgotten(tree, p, o.sub)[n] <=>
          e \in tree.ads[n] /\ (Under(p, n) => e.session # o.sub.session \/ e.depth # Len(p))
  BY Zenon DEF Forgotten
<1>3. \A n \in Namespaces : \A e : e \in V.ads[n] <=>
          e \in tree.ads[n] /\ (Under(p, n) => e.session # o.sub.session \/ e.depth # Len(p))
  <2>1. \A n \in Namespaces : V.routes[n] = {} => tree.ads[n] = {}
    BY <1>0, NoRouteNoEntry, Zenon
  <2> QED BY <1>0, <1>2, <2>1, Zenon
<1>4. Listed(tree, subscribed)
  BY <1>0, Zenon DEF BookInv
<1>5. Listed(V, S)
  <2>1. tree.subs \in [Namespaces -> SUBSET Subscription]
    BY <1>0, Zenon DEF Tree
  <2>2. \A n \in Namespaces, sub \in Subscription :
            sub \in V.subs[n] <=> sub \in tree.subs[n] /\ ~ (n = p /\ sub = o.sub)
    BY <1>0, <1>1, <2>1
  <2>3. \A n, sub : [sub |-> sub, prefix |-> n] = o <=> n = p /\ sub = o.sub
    BY <1>1
  <2>4. ASSUME NEW n \in Namespaces, NEW sub \in Subscription
        PROVE  sub \in V.subs[n] <=> [sub |-> sub, prefix |-> n] \in S
    <3>1. [sub |-> sub, prefix |-> n] = o <=> n = p /\ sub = o.sub
      BY <2>3, Zenon
    <3>2. sub \in V.subs[n] <=> [sub |-> sub, prefix |-> n] \in subscribed /\ ~ (n = p /\ sub = o.sub)
      BY <1>4, <2>2, Zenon DEF Listed
    <3> QED BY <3>1, <3>2, Zenon
  <2> QED BY <1>4, <2>4, Zenon DEF Listed
<1>6. ASSUME NEW q \in S, NEW n \in Namespaces, Under(q.prefix, n)
      PROVE  /\ Sent(V, n, q) = Sent(tree, n, q)
             /\ advertisableRoute(V, n, q.sub) = advertisableRoute(tree, n, q.sub)
  <2>1. Under(p, n) => o.sub.session # q.sub.session \/ Len(p) # Len(q.prefix)
    BY <1>0, <1>4, <1>6, OwnPage, Zenon
  <2>2. \A e : e \in Sent(V, n, q) <=> e \in Sent(tree, n, q)
    BY <1>3, <2>1, Zenon DEF Sent
  <2>3. Sent(V, n, q) = Sent(tree, n, q)
    BY <2>2, Zenon
  <2> QED BY <1>0, <2>3, Zenon DEF advertisableRoute
<1>7. Owned(V, S)
  <2> SUFFICES ASSUME NEW n \in Namespaces, NEW e \in V.ads[n]
               PROVE  \E q \in S : Under(q.prefix, n) /\ e \in Sent(V, n, q)
    BY Zenon DEF Owned
  <2>1. e \in tree.ads[n] /\ (Under(p, n) => e.session # o.sub.session \/ e.depth # Len(p))
    BY <1>3, Zenon
  <2>2. PICK q \in subscribed : Under(q.prefix, n) /\ e \in Sent(tree, n, q)
    BY <1>0, <2>1, Zenon DEF BookInv, Owned
  <2>3. q # o
    BY <2>1, <2>2, Zenon DEF Sent
  <2> QED BY <1>6, <2>2, <2>3, Zenon
<1>8. UpToDate(V, S)
  BY <1>0, <1>6, Zenon DEF BookInv, UpToDate
<1>9. Booked(V, S, D)
  <2> SUFFICES ASSUME NEW t \in D
               PROVE  /\ t.to \in S /\ t.ns \in Namespaces /\ Under(t.to.prefix, t.ns)
                      /\ \E e \in Sent(V, t.ns, t.to) : t = Entry(t.to, t.ns, e)
    BY Zenon DEF Booked
  <2>1. /\ t.to \in S /\ t.ns \in Namespaces /\ Under(t.to.prefix, t.ns)
        /\ \E e \in Sent(tree, t.ns, t.to) : t = Entry(t.to, t.ns, e)
    BY <1>0, Zenon DEF BookInv, Booked
  <2>2. Sent(V, t.ns, t.to) = Sent(tree, t.ns, t.to)
    BY <1>6, <2>1, Zenon
  <2> QED BY <2>1, <2>2, Zenon
<1>10. Heard(V, S, D)
  <2> SUFFICES ASSUME NEW q \in S, NEW n \in Namespaces, Under(q.prefix, n), NEW e \in Sent(V, n, q)
               PROVE  Entry(q, n, e) \in D
    BY Zenon DEF Heard
  <2>1. Entry(q, n, e) \in told
    BY <1>0, <1>6, Zenon DEF BookInv, Heard
  <2>2. Entry(q, n, e).to = q
    BY Zenon DEF Entry
  <2> QED BY <2>1, <2>2, Zenon
<1> QED BY <1>5, <1>7, <1>8, <1>9, <1>10, Zenon DEF BookInv

\* The end of a subscription.
LEMMA UnsubscribeStep ==
    ASSUME NInv, NEW o \in subscribed, unsubscribeNamespace(o)
    PROVE  NInv'
<1>0. /\ TypeOK /\ WellFormed(tree) /\ BookInv(tree, subscribed, told)
      /\ subscribed \subseteq OpenSubscription /\ told \subseteq Told
  BY Zenon DEF NInv, TypeOK
<1>1. o = [sub |-> o.sub, prefix |-> o.prefix] /\ o.sub \in Subscription /\ o.prefix \in Namespaces
  BY <1>0, Zenon DEF OpenSubscription
<1>2. o.sub \in tree.subs[o.prefix]
  BY <1>0, <1>1, Zenon DEF BookInv, Listed
<1>3. /\ tree' = removeNamespaceSubscriber(tree, o.prefix, o.sub) /\ subscribed' = subscribed \ {o}
      /\ told' = {t \in told : t.to # o} /\ handles' = handles /\ bridged' = bridged
  BY Zenon DEF unsubscribeNamespace
<1>4. Parted(tree', tree, o.prefix, o.sub)
  BY <1>0, <1>1, <1>2, <1>3, SubscribersOK, Zenon
<1>5. WellFormed(tree') /\ tree' \in Tree
  BY <1>4, Zenon DEF Parted, Resubscribed, WellFormed
<1>6. BookInv(tree', subscribed \ {o}, {t \in told : t.to # o})
  BY <1>4, BookParted, Zenon
<1>7. TypeOK'
  BY <1>0, <1>3, <1>5, Zenon DEF TypeOK
<1> QED BY <1>3, <1>5, <1>6, <1>7, Zenon DEF NInv

-----------------------------------------------------------------------------
(***************************************************************************)
(* The theorems.                                                           *)
(***************************************************************************)
\* The empty tree is well formed.
LEMMA TreeInit ==
    ASSUME Init
    PROVE  NInv
<1> DEFINE E == EmptyTree
           A == [n \in Namespaces |-> 0]
<1>1. /\ E \in Tree /\ E.nodes = {<<>>} /\ E.active = A
      /\ E.pubs = [n \in Namespaces |-> {}] /\ E.subs = [n \in Namespaces |-> {}]
      /\ E.routes = [n \in Namespaces |-> {}] /\ E.ads = [n \in Namespaces |-> {}]
  <2>1. /\ A \in [Namespaces -> Nat] /\ {<<>>} \in SUBSET Namespaces /\ 0 \in 0 .. MaxSeq
    BY TreeAssumption
  <2>2. \A X : [n \in Namespaces |-> {}] \in [Namespaces -> SUBSET X]
    BY Zenon
  <2> QED BY <2>1, <2>2, Zenon DEF EmptyTree, Tree
<1> HIDE DEF E
<1>2. Contents(E) = {}
  BY <1>1, Zenon DEF Contents, hasContent
<1>3. \A p \in Namespaces : Kids({<<>>}, A, {}, p) = {}
  BY TreeAssumption DEF Kids, KeptIn
<1>4. Above(<<>>) = {}
  BY UnderOrder, UnderMeans, TreeAssumption DEF Above
<1>5. Sound({<<>>}, A, {})
  <2>1. \A p \in Namespaces : Cardinality(Kids({<<>>}, A, {}, p)) <= A[p]
    BY <1>3, FS_EmptySet
  <2>2. \A n \in Namespaces : ~ KeptIn(A, {}, n)
    BY DEF KeptIn
  <2> QED BY <1>4, <2>1, <2>2, TreeAssumption, Zenon DEF Sound
<1>6. WellFormed(E)
  BY <1>1, <1>2, <1>5, Zenon DEF WellFormed
<1>7. BookInv(E, {}, {})
  BY <1>1, Zenon DEF BookInv, Listed, Owned, Booked, Heard, UpToDate
<1> QED BY <1>1, <1>6, <1>7, Zenon DEF Init, NInv, TypeOK, E

\* Every step keeps the invariant.
LEMMA TreeNext ==
    ASSUME NInv, [Next]_vars
    PROVE  NInv'
<1>1. CASE Next
  <2>1. ASSUME NEW s \in Announcers, NEW n \in Namespaces, NEW offer \in Offers,
               publishNamespace(s, n, offer) \/ namespaceMsg(s, n, offer)
        PROVE  NInv'
    BY <2>1, AnnouncersStep, Zenon
  <2>2. ASSUME NEW s \in Announcers, NEW n \in Namespaces, namespaceDoneMsg(s, n)
        PROVE  NInv'
    BY <2>2, AnnouncersStep, Zenon
  <2>3. ASSUME NEW h \in handles, publishNamespaceDone(h)
        PROVE  NInv'
    BY <2>3, HandlesStep, Zenon
  <2>4. ASSUME NEW h \in handles, NEW offer \in Offers, updatePublishNamespace(h, offer)
        PROVE  NInv'
    BY <2>4, HandlesStep, Zenon
  <2> QED BY <1>1, <2>1, <2>2, <2>3, <2>4, TracksStep, SubscribeStep, UnsubscribeStep, Zenon DEF Next
<1>2. CASE UNCHANGED vars
  <2>1. TypeOK'
    BY <1>2, Zenon DEF vars, NInv, TypeOK
  <2>2. WellFormed(tree)' /\ BookInv(tree, subscribed, told)'
    BY <1>2, Zenon DEF vars, NInv
  <2> QED BY <2>1, <2>2, Zenon DEF NInv
<1> QED BY <1>1, <1>2, Zenon

\* The tree stays well formed and holds every open subscription, whatever is
\* published, announced, subscribed and ended, in any order.
THEOREM TreeInvariance == Spec => []NInv
<1>1. Init => NInv
  BY TreeInit, Zenon
<1>2. NInv /\ [Next]_vars => NInv'
  BY TreeNext, Zenon
<1> QED BY <1>1, <1>2, PTL DEF Spec

\* The tree, the book and the handles are of their type; no count of active
\* children drops below zero in tryPruneChild.
THEOREM TreeTypes == Spec => []TypeOK
<1>1. NInv => TypeOK
  BY Zenon DEF NInv
<1> QED BY <1>1, TreeInvariance, PTL

\* notifyParentIfFirstContent and tryPruneChild count for every node at least
\* the children that must be kept.
THEOREM CountsStayUp == Spec => []CountsCover
<1>1. NInv => CountsCover
  <2> SUFFICES ASSUME NInv, NEW n \in tree.nodes
               PROVE  tree.active[n] >= Cardinality({c \in tree.nodes : /\ Len(c) = Len(n) + 1 /\ Under(n, c)
                                                                        /\ shouldKeep(tree, c)})
    BY Zenon DEF CountsCover
  <2> DEFINE K == {c \in tree.nodes : Len(c) = Len(n) + 1 /\ Under(n, c) /\ shouldKeep(tree, c)}
             L == Kids(tree.nodes, tree.active, Contents(tree), n)
  <2>1. Sound(tree.nodes, tree.active, Contents(tree)) /\ n \in Namespaces
    BY Zenon DEF NInv, WellFormed, Sound
  <2>2. \A c \in tree.nodes : shouldKeep(tree, c) <=> KeptIn(tree.active, Contents(tree), c)
    BY <2>1, Zenon DEF shouldKeep, KeptIn, Contents, Sound
  <2>3. K = L
    BY <2>2, Zenon DEF Kids, Child
  <2> HIDE DEF K, L
  <2>4. Cardinality(L) <= tree.active[n] /\ tree.active[n] \in Nat
    BY <2>1, Zenon DEF Sound, L
  <2>5. Cardinality(L) \in Nat
    BY <2>1, KidsCount, Zenon DEF Sound, L
  <2>6. Cardinality(K) <= tree.active[n] /\ Cardinality(K) \in Nat
    BY <2>3, <2>4, <2>5, Zenon
  <2>7. tree.active[n] >= Cardinality(K)
    BY <2>4, <2>6, Zenon
  <2> QED BY <2>7, Zenon DEF K
<1> QED BY <1>1, TreeInvariance, PTL

\* Pruning takes only what is empty: every open subscription is found at its
\* node, and every node with content hangs in the tree with the whole way to it.
THEOREM PruningLosesNothing == Spec => []NothingLost
<1>1. NInv => NothingLost
  <2> SUFFICES ASSUME NInv
               PROVE  NothingLost
    BY Zenon
  <2>1. \A n \in Namespaces : hasContent(tree, n) => n \in tree.nodes /\ Above(n) \subseteq tree.nodes
    BY Zenon DEF NInv, WellFormed, Sound, Contents
  <2>2. ASSUME NEW o \in subscribed
        PROVE  o.sub \in tree.subs[o.prefix]
    <3>1. o = [sub |-> o.sub, prefix |-> o.prefix] /\ o.sub \in Subscription /\ o.prefix \in Namespaces
      BY Zenon DEF NInv, TypeOK, OpenSubscription
    <3> QED BY <3>1, Zenon DEF NInv, BookInv, Listed
  <2> QED BY <2>1, <2>2, Zenon DEF NothingLost
<1> QED BY <1>1, TreeInvariance, PTL

\* reconcileAdvertisement keeps every open subscription's view true, through
\* announcements, withdrawals, updates, subscriptions and pruning: what it was
\* last told of a namespace below its prefix is the route it would be told now.
THEOREM ViewsStayTrue == Spec => []ToldIsCurrent
<1>1. NInv => ToldIsCurrent
  <2> SUFFICES ASSUME NInv, NEW o \in subscribed, NEW n \in Namespaces
               PROVE  LET best == IF Under(o.prefix, n) THEN advertisableRoute(tree, n, o.sub) ELSE {}
                          heard == {t \in told : t.to = o /\ t.ns = n}
                      IN /\ best = {} <=> heard = {}
                         /\ \A t \in heard, r \in best : SamePublisher(t, r)
                         /\ o.sub.session \in Cluster => {t.offer : t \in heard} = {r.offer : r \in best}
                         /\ Cardinality(heard) <= 1
    BY Zenon DEF ToldIsCurrent
  <2> DEFINE B == advertisableRoute(tree, n, o.sub)
             best == IF Under(o.prefix, n) THEN B ELSE {}
             E == Sent(tree, n, o)
             heard == {t \in told : t.to = o /\ t.ns = n}
  <2>1. \A e : Entry(o, n, e).seq = e.seq /\ Entry(o, n, e).offer = e.offer
               /\ Entry(o, n, e).to = o /\ Entry(o, n, e).ns = n
    BY Zenon DEF Entry
  <2>2. CASE ~ Under(o.prefix, n)
    <3>1. heard = {}
      BY <2>2, Zenon DEF NInv, BookInv, Booked
    <3>2. best = {} /\ Cardinality(heard) = 0
      BY <2>2, <3>1, FS_EmptySet, Zenon
    <3> HIDE DEF heard
    <3>3. Cardinality(heard) <= 1
      BY <3>2
    <3>4. {t.offer : t \in heard} = {r.offer : r \in best}
      BY <3>1, <3>2, Zenon
    <3> QED BY <2>2, <3>1, <3>3, <3>4, Zenon DEF heard
  <2>3. CASE Under(o.prefix, n)
    <3>1. Current(B, E, o)
      BY <2>3, Zenon DEF NInv, BookInv, UpToDate
    <3>2. \A t : t \in heard <=> \E e \in E : t = Entry(o, n, e)
      BY <2>1, <2>3, Zenon DEF NInv, BookInv, Booked, Heard
    <3> HIDE DEF heard, B, E
    <3>3. /\ B = {} <=> heard = {}
          /\ \A t, u \in heard : t = u
          /\ \A t \in heard, r \in B : SamePublisher(t, r) /\ (o.sub.session \in Cluster => t.offer = r.offer)
      BY <2>1, <3>1, <3>2 DEF Current, SamePublisher
    <3>4. Cardinality(heard) <= 1
      <4>1. CASE heard = {}
        BY <4>1, FS_EmptySet
      <4>2. CASE heard # {}
        <5>1. PICK t \in heard : TRUE
          BY <4>2, Zenon
        <5>2. heard = {t}
          BY <3>3, <5>1, Zenon
        <5> QED BY <5>2, FS_Singleton
      <4> QED BY <4>1, <4>2, Zenon
    <3>5. o.sub.session \in Cluster => {t.offer : t \in heard} = {r.offer : r \in B}
      BY <3>3, Zenon
    <3> QED BY <2>3, <3>3, <3>4, <3>5, Zenon DEF heard, B
  <2> QED BY <2>2, <2>3, Zenon
<1> QED BY <1>1, TreeInvariance, PTL
-----------------------------------------------------------------------------
(***************************************************************************)
(* No parked SUBSCRIBE misses its publisher, for any namespaces, tracks    *)
(* and number of requests.  NoLostWake alone is not inductive: a publisher *)
(* wakes the waiters that the tree lists, so the invariant also says that  *)
(* the tree lists every parked request under the track it wants.           *)
(***************************************************************************)
WaitersTyped ==
    /\ listed \in [Rendezvous!Tracks -> SUBSET Waiters]
    /\ pc = [w \in Waiters |-> pc[w]]
    /\ want = [w \in Waiters |-> want[w]]
    /\ \A w \in Waiters : pc[w] # "start" => want[w] \in Rendezvous!Tracks

ParkedIsListed == \A w \in Waiters : pc[w] = "parked" => w \in listed[want[w]]

RendezvousInv == WaitersTyped /\ ParkedIsListed /\ NoLostWake

\* At the start nobody is parked.
LEMMA InitRendezvous == Rendezvous!Init => RendezvousInv
  BY Zenon DEF Rendezvous!Init, RendezvousInv, WaitersTyped, ParkedIsListed, NoLostWake, Rendezvous!NoLostWake

\* Signalling leaves parked only those that were parked and not signalled.
LEMMA SignalledParks ==
    ASSUME NEW W, Rendezvous!Signalled(W), NEW w \in Waiters, pc'[w] = "parked"
    PROVE  pc[w] = "parked" /\ w \notin W
  BY Zenon DEF Rendezvous!Signalled

\* A step that signals the waiters of the tracks in T, and unlists them, keeps
\* the parked listed, and parked ones want none of T.
LEMMA WakeKeepsListed ==
    ASSUME RendezvousInv, NEW T \in SUBSET Rendezvous!Tracks,
           listed' = [t \in Rendezvous!Tracks |-> IF t \in T THEN {} ELSE listed[t]],
           Rendezvous!Signalled(UNION {listed[t] : t \in T}), want' = want
    PROVE  /\ WaitersTyped' /\ ParkedIsListed'
           /\ \A w \in Waiters : pc'[w] = "parked" => pc[w] = "parked" /\ want[w] \notin T
<1>1. WaitersTyped'
  BY Zenon DEF RendezvousInv, WaitersTyped, Rendezvous!Signalled
<1>2. ASSUME NEW w \in Waiters, pc'[w] = "parked"
      PROVE  pc[w] = "parked" /\ want[w] \in Rendezvous!Tracks \ T /\ w \in listed[want[w]]
  <2>1. pc[w] = "parked" /\ w \notin UNION {listed[t] : t \in T}
    BY <1>2, SignalledParks, Zenon
  <2>2. w \in listed[want[w]] /\ want[w] \in Rendezvous!Tracks
    BY <2>1, Zenon DEF RendezvousInv, WaitersTyped, ParkedIsListed
  <2> QED BY <2>1, <2>2, Zenon
<1>3. ParkedIsListed'
  BY <1>2, Zenon DEF ParkedIsListed
<1> QED BY <1>1, <1>2, <1>3, Zenon

\* Every step keeps the invariant.
LEMMA NextRendezvous == RendezvousInv /\ [Rendezvous!Next]_parkedVars => RendezvousInv'
<1> SUFFICES ASSUME RendezvousInv, [Rendezvous!Next]_parkedVars PROVE RendezvousInv'
  BY Zenon
<1> USE DEF RendezvousInv, WaitersTyped, ParkedIsListed, NoLostWake, Rendezvous!NoLostWake, Rendezvous!Resolvable
<1>1. ASSUME NEW w \in Waiters, NEW t \in Rendezvous!Tracks, Rendezvous!rendezvous(w, t) PROVE RendezvousInv'
  <2>1. CASE Rendezvous!Resolvable(t) /\ pc' = [pc EXCEPT ![w] = "go on"] /\ UNCHANGED <<nodes, listed>>
    BY <1>1, <2>1, ZenonT(60) DEF Rendezvous!rendezvous
  <2>2. CASE ~ Rendezvous!Resolvable(t) /\ pc' = [pc EXCEPT ![w] = "parked"] /\ Rendezvous!addWaiter(w, t)
    <3>1. listed' = [listed EXCEPT ![t] = @ \cup {w}] /\ want' = [want EXCEPT ![w] = t]
      BY <1>1, <2>2, ZenonT(60) DEF Rendezvous!rendezvous, Rendezvous!addWaiter
    <3>2. WaitersTyped'
      <4>1. listed' \in [Rendezvous!Tracks -> SUBSET Waiters]
        BY <3>1, Zenon
      <4>2. pc' = [v \in Waiters |-> pc'[v]] /\ want' = [v \in Waiters |-> want'[v]]
        BY <2>2, <3>1, Zenon
      <4>3. \A v \in Waiters : pc'[v] # "start" => want'[v] \in Rendezvous!Tracks
        BY <2>2, <3>1, Zenon
      <4> QED BY <4>1, <4>2, <4>3, Zenon
    <3>4. ParkedIsListed'
      BY <2>2, <3>1, ZenonT(60)
    <3>3. NoLostWake'
      BY <1>1, <2>2, <3>1, Zenon DEF Rendezvous!rendezvous
    <3> QED BY <3>2, <3>3, <3>4, Zenon
  <2> QED BY <1>1, <2>1, <2>2, ZenonT(60) DEF Rendezvous!rendezvous
<1>2. ASSUME NEW w \in Waiters, Rendezvous!expire(w) PROVE RendezvousInv'
  BY <1>2, Zenon DEF Rendezvous!expire
<1>3. ASSUME NEW w \in Waiters, Rendezvous!resume(w) PROVE RendezvousInv'
  BY <1>3, ZenonT(60) DEF Rendezvous!resume, Rendezvous!eraseWaiter
<1>4. ASSUME NEW w \in Waiters, Rendezvous!cancel(w) PROVE RendezvousInv'
  BY <1>4, Zenon DEF Rendezvous!cancel, Rendezvous!eraseWaiter
<1>5. ASSUME NEW ns \in Rooms, Rendezvous!publishNamespace(ns) PROVE RendezvousInv'
  <2>1. /\ Rendezvous!Under(ns) \in SUBSET Rendezvous!Tracks
        /\ listed' = [t \in Rendezvous!Tracks |-> IF t \in Rendezvous!Under(ns) THEN {} ELSE listed[t]]
        /\ Rendezvous!Signalled(UNION {listed[t] : t \in Rendezvous!Under(ns)}) /\ want' = want
    BY <1>5, Zenon DEF Rendezvous!publishNamespace, Rendezvous!wakeUnderNamespace, Rendezvous!Under
  <2>2. /\ WaitersTyped' /\ ParkedIsListed'
        /\ \A w \in Waiters : pc'[w] = "parked" => pc[w] = "parked" /\ want[w] \notin Rendezvous!Under(ns)
    BY <2>1, WakeKeepsListed, Zenon
  <2>3. NoLostWake'
    BY <1>5, <2>1, <2>2, SMTT(60) DEF Rendezvous!publishNamespace, Rendezvous!Under
  <2> QED BY <2>2, <2>3, Zenon
<1>6. ASSUME NEW t \in Rendezvous!Tracks, Rendezvous!publish(t) PROVE RendezvousInv'
  <2>1. /\ {t} \in SUBSET Rendezvous!Tracks
        /\ listed' = [u \in Rendezvous!Tracks |-> IF u \in {t} THEN {} ELSE listed[u]]
        /\ Rendezvous!Signalled(UNION {listed[u] : u \in {t}}) /\ want' = want
    <3>1. UNION {listed[u] : u \in {t}} = listed[t]
      BY Zenon
    <3> QED BY <1>6, <3>1, Zenon DEF Rendezvous!publish, Rendezvous!wakeForTrack
  <2>2. /\ WaitersTyped' /\ ParkedIsListed'
        /\ \A w \in Waiters : pc'[w] = "parked" => pc[w] = "parked" /\ want[w] \notin {t}
    BY <2>1, WakeKeepsListed, Zenon
  <2>3. NoLostWake'
    BY <1>6, <2>1, <2>2, Zenon DEF Rendezvous!publish
  <2> QED BY <2>2, <2>3, Zenon
<1>7. ASSUME NEW t \in Rendezvous!Tracks, Rendezvous!subscribe(t) PROVE RendezvousInv'
  BY <1>7, Zenon DEF Rendezvous!subscribe
<1>8. ASSUME NEW ns \in Rooms, Rendezvous!publishNamespaceDone(ns) PROVE RendezvousInv'
  BY <1>8, Zenon DEF Rendezvous!publishNamespaceDone
<1>9. ASSUME NEW t \in Rendezvous!Tracks, Rendezvous!remove(t) PROVE RendezvousInv'
  BY <1>9, Zenon DEF Rendezvous!remove
<1>10. CASE UNCHANGED parkedVars
  BY <1>10, Zenon DEF parkedVars
<1> QED BY <1>1, <1>2, <1>3, <1>4, <1>5, <1>6, <1>7, <1>8, <1>9, <1>10, Zenon DEF Rendezvous!Next

\* While a request is parked and its baton unsignalled nobody publishes its
\* track: rendezvousWithPublisherOrTimeout misses no publisher.
THEOREM NoWakeIsLost == MCSpec => []NoLostWake
<1>1. MCInit => RendezvousInv
  BY InitRendezvous, Zenon DEF MCInit
<1>2. RendezvousInv /\ [MCNext]_allVars => RendezvousInv'
  <2> SUFFICES ASSUME RendezvousInv, [MCNext]_allVars PROVE RendezvousInv'
    BY Zenon
  <2>1. CASE UNCHANGED parkedVars
    BY <2>1, NextRendezvous, Zenon
  <2>2. CASE Rendezvous!Next
    BY <2>2, NextRendezvous, Zenon
  <2> QED BY <2>1, <2>2, Zenon DEF MCNext, allVars
<1>3. RendezvousInv => NoLostWake
  BY Zenon DEF RendezvousInv
<1> QED BY <1>1, <1>2, <1>3, PTL DEF MCSpec
=============================================================================
