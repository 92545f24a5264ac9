------------------------- MODULE RelayTracksProofs -------------------------
(***************************************************************************)
(* The relay's safety invariants, for any number of tracks, sessions and   *)
(* epochs, in both threading modes and with every interleaving.            *)
(***************************************************************************)
EXTENDS RelayTracks, TLAPS

(***************************************************************************)
(* The registry: every method keeps it well formed.                        *)
(***************************************************************************)
(***************************************************************************)
(* A well-formed registry: epochs name at most one entry, an entry's       *)
(* promise is pending or fulfilled, an entry's handle is its own and comes *)
(* with the upstream session, and a pending promise has its entry.         *)
(***************************************************************************)
EpochsDrawn(R) ==
    /\ \A e \in Epochs : R.gate[e] = "none" <=> e > R.epoch
    /\ \A t \in Tracks : R.entry[t].epoch <= R.epoch

EpochsDistinct(R) ==
    \A t, u \in Tracks : exists(R, t) /\ R.entry[t].epoch = R.entry[u].epoch => t = u

GatesSound(R) ==
    /\ \A e \in Epochs : R.gate[e] # "aborted"
    /\ \A t \in Tracks : exists(R, t) => R.gate[R.entry[t].epoch] \in {"pending", "ready"}
    /\ \A e \in Epochs : R.gate[e] = "pending" => \E t \in Tracks : R.entry[t].epoch = e

HandlesSound(R) ==
    \A t \in Tracks : R.entry[t].handle # 0 =>
        /\ R.entry[t].handle = R.entry[t].epoch
        /\ R.gate[R.entry[t].epoch] = "ready"
        /\ R.entry[t].upstream # None

RegistryOK(R) ==
    /\ R \in Registry
    /\ EpochsDrawn(R)
    /\ EpochsDistinct(R)
    /\ GatesSound(R)
    /\ HandlesSound(R)

(***************************************************************************)
(* S is R after some of its entries ended: entries and handles only go,    *)
(* and a promise that is still pending keeps its entry.                    *)
(***************************************************************************)
Fades(R, S) ==
    /\ S.epoch = R.epoch
    /\ \A e \in Epochs : S.gate[e] # R.gate[e] => R.gate[e] = "pending" /\ S.gate[e] = "failed"
    /\ \A t \in Tracks : /\ S.entry[t].epoch \in {0, R.entry[t].epoch}
                         /\ S.entry[t].handle \in {0, R.entry[t].handle}
                         /\ S.entry[t].handle # 0 => S.entry[t].upstream = R.entry[t].upstream
    /\ \A t \in Tracks, e \in Epochs :
          S.gate[e] = "pending" /\ R.entry[t].epoch = e => S.entry[t].epoch = e

\* An absent entry is well typed.
LEMMA NoEntryType == NoEntry \in Entry
  BY RegistryAssumption DEF NoEntry, Entry

\* The empty registry is well formed.
LEMMA EmptyOK == RegistryOK(EmptyRegistry)
  BY NoEntryType, RegistryAssumption
  DEF RegistryOK, EmptyRegistry, Registry, EpochsDrawn, EpochsDistinct, GatesSound,
      HandlesSound, NoEntry, exists, GateStates, Epochs

\* Erasing an entry keeps the registry well formed.
LEMMA RemoveOK ==
  ASSUME NEW R, RegistryOK(R), NEW t \in Tracks
  PROVE  RegistryOK(remove(R, t)) /\ Fades(R, remove(R, t))
<1> DEFINE S == remove(R, t)
<1>1. /\ S.epoch = R.epoch
      /\ S.entry = [R.entry EXCEPT ![t] = NoEntry]
      /\ S.gate = BreakGate(R.gate, R.entry[t].epoch)
  BY Zenon DEF remove
<1>2. R.entry \in [Tracks -> Entry] /\ R.epoch \in 0 .. MaxEpoch /\ R.gate \in [Epochs -> GateStates]
  BY Zenon DEF RegistryOK, Registry
<1>3. S \in Registry
  BY <1>1, <1>2, NoEntryType, Zenon DEF Registry, BreakGate, GateStates, remove
<1>4. /\ \A u \in Tracks : S.entry[u] = IF u = t THEN NoEntry ELSE R.entry[u]
      /\ \A e \in Epochs : S.gate[e] = IF e = R.entry[t].epoch /\ R.gate[e] = "pending"
                                       THEN "failed" ELSE R.gate[e]
  BY <1>1, <1>2, Zenon DEF BreakGate
<1> HIDE DEF S
<1>5. \A u \in Tracks : R.entry[u].epoch # 0 => R.entry[u].epoch \in Epochs
  BY <1>2 DEF Entry, Epochs
<1>6. EpochsDrawn(S)
  BY <1>1, <1>2, <1>4 DEF RegistryOK, EpochsDrawn, NoEntry, Epochs
<1>7. EpochsDistinct(S)
  BY <1>4 DEF RegistryOK, EpochsDistinct, NoEntry, exists
<1>8. GatesSound(S)
  <2>1. \A e \in Epochs : S.gate[e] # "aborted"
    BY <1>4, Zenon DEF RegistryOK, GatesSound
  <2>2. \A u \in Tracks : exists(S, u) => S.gate[S.entry[u].epoch] \in {"pending", "ready"}
    BY <1>4, <1>5 DEF RegistryOK, GatesSound, EpochsDistinct, NoEntry, exists
  <2>3. ASSUME NEW e \in Epochs, S.gate[e] = "pending"
        PROVE  \E u \in Tracks : S.entry[u].epoch = e
    <3>1. R.gate[e] = "pending" /\ e # R.entry[t].epoch
      BY <1>4, <2>3, Zenon
    <3>2. PICK u \in Tracks : R.entry[u].epoch = e
      BY <3>1, Zenon DEF RegistryOK, GatesSound
    <3> QED BY <1>4, <3>1, <3>2, Zenon
  <2> QED BY <2>1, <2>2, <2>3, Zenon DEF GatesSound
<1>9. HandlesSound(S)
  BY <1>4, <1>5, <1>2 DEF RegistryOK, HandlesSound, EpochsDrawn, EpochsDistinct, NoEntry, exists, Epochs, Entry
<1>10. Fades(R, S)
  <2>1. \A u \in Tracks : /\ S.entry[u].epoch \in {0, R.entry[u].epoch}
                          /\ S.entry[u].handle \in {0, R.entry[u].handle}
                          /\ S.entry[u].handle # 0 => S.entry[u].upstream = R.entry[u].upstream
    <3>1. S.entry[t].epoch = 0 /\ S.entry[t].handle = 0
      BY <1>4 DEF NoEntry
    <3>2. \A u \in Tracks : u # t => S.entry[u] = R.entry[u]
      BY <1>4, Zenon
    <3> QED BY <3>1, <3>2, Zenon
  <2>2. ASSUME NEW u \in Tracks, NEW e \in Epochs, S.gate[e] = "pending", R.entry[u].epoch = e
        PROVE  S.entry[u].epoch = e
    <3>1. R.gate[e] = "pending" /\ e # R.entry[t].epoch
      BY <1>4, <2>2
    <3> QED BY <1>4, <2>2, <3>1, Zenon
  <2>3. \A e \in Epochs : S.gate[e] # R.gate[e] => R.gate[e] = "pending" /\ S.gate[e] = "failed"
    BY <1>4, Zenon
  <2> QED BY <1>1, <2>1, <2>2, <2>3 DEF Fades
<1> QED BY <1>3, <1>6, <1>7, <1>8, <1>9, <1>10, Zenon DEF RegistryOK, S

\* A registry fades into itself.
LEMMA FadesReflexive ==
  ASSUME NEW R
  PROVE  Fades(R, R)
  BY Zenon DEF Fades

\* Two fadings in a row are one.
LEMMA FadesTransitive ==
  ASSUME NEW R, NEW S, NEW T, Fades(R, S), Fades(S, T)
  PROVE  Fades(R, T)
<1>1. T.epoch = R.epoch
  BY Zenon DEF Fades
<1>2. \A e \in Epochs : T.gate[e] # R.gate[e] => R.gate[e] = "pending" /\ T.gate[e] = "failed"
  BY SMTT(60) DEF Fades
<1>3. \A t \in Tracks : /\ T.entry[t].epoch \in {0, R.entry[t].epoch}
                        /\ T.entry[t].handle \in {0, R.entry[t].handle}
                        /\ T.entry[t].handle # 0 => T.entry[t].upstream = R.entry[t].upstream
  BY ZenonT(30) DEF Fades
<1>4. ASSUME NEW t \in Tracks, NEW e \in Epochs, T.gate[e] = "pending", R.entry[t].epoch = e
      PROVE  T.entry[t].epoch = e
  <2>1. S.gate[e] = "pending"
    BY <1>4, Zenon DEF Fades
  <2>2. S.entry[t].epoch = e
    BY <1>4, <2>1 DEF Fades
  <2> QED BY <1>4, <2>2, SMTT(60) DEF Fades
<1> QED BY <1>1, <1>2, <1>3, <1>4 DEF Fades

\* onPublisherTerminated keeps the registry well formed, whether it erases the
\* entry or only drops its handle and session.
LEMMA TerminatedOK ==
  ASSUME NEW R, RegistryOK(R), NEW t \in Tracks, NEW empty \in BOOLEAN
  PROVE  LET S == onPublisherTerminated(R, t, empty) IN RegistryOK(S) /\ Fades(R, S)
<1> DEFINE S == onPublisherTerminated(R, t, empty)
<1>1. CASE ~ exists(R, t)
  BY <1>1, FadesReflexive, Zenon DEF onPublisherTerminated
<1>2. CASE exists(R, t) /\ empty
  BY <1>2, RemoveOK, Zenon DEF onPublisherTerminated
<1>3. CASE exists(R, t) /\ ~ empty
  <2>1. R.entry \in [Tracks -> Entry] /\ R.epoch \in 0 .. MaxEpoch /\ R.gate \in [Epochs -> GateStates]
    BY Zenon DEF RegistryOK, Registry
  <2> DEFINE ended == [epoch |-> R.entry[t].epoch, upstream |-> None, handle |-> 0,
                       isPublish |-> R.entry[t].isPublish]
  <2>2. S = [entry |-> [R.entry EXCEPT ![t] = ended], epoch |-> R.epoch, gate |-> R.gate]
    BY <1>3, Zenon DEF onPublisherTerminated
  <2>3. ended \in Entry
    BY <2>1, RegistryAssumption DEF Entry
  <2>4. S \in Registry
    BY <2>1, <2>2, <2>3 DEF Registry
  <2>5. /\ S.epoch = R.epoch
        /\ S.gate = R.gate
        /\ S.entry[t].epoch = R.entry[t].epoch
        /\ S.entry[t].handle = 0
        /\ \A u \in Tracks : u # t => S.entry[u] = R.entry[u]
        /\ \A u \in Tracks : S.entry[u].epoch = R.entry[u].epoch
    BY <2>1, <2>2
  <2> HIDE DEF S
  <2>6. EpochsDrawn(S) /\ EpochsDistinct(S) /\ GatesSound(S)
    BY <2>5 DEF RegistryOK, EpochsDrawn, EpochsDistinct, GatesSound, exists
  <2>7. HandlesSound(S)
    BY <2>5 DEF RegistryOK, HandlesSound
  <2>8. Fades(R, S)
    BY <2>5, Zenon DEF Fades
  <2> QED BY <2>4, <2>6, <2>7, <2>8, Zenon DEF RegistryOK, S
<1> QED BY <1>1, <1>2, <1>3, Zenon

\* dropSubscriptionsFrom keeps the registry well formed.
LEMMA RemoveIfOK ==
  ASSUME NEW R, RegistryOK(R), NEW s
  PROVE  LET S == removeIf(R, Tracks, s) IN RegistryOK(S) /\ Fades(R, S)
<1> DEFINE S == removeIf(R, Tracks, s)
           gone == {t \in Tracks : R.entry[t].upstream = s}
<1>1. R.entry \in [Tracks -> Entry] /\ R.epoch \in 0 .. MaxEpoch /\ R.gate \in [Epochs -> GateStates]
  BY Zenon DEF RegistryOK, Registry
<1>2. /\ S.epoch = R.epoch
      /\ S.entry = [t \in Tracks |-> IF t \in gone THEN NoEntry ELSE R.entry[t]]
      /\ S.gate = [e \in Epochs |-> IF R.gate[e] = "pending" /\ \E t \in gone : R.entry[t].epoch = e
                                    THEN "failed" ELSE R.gate[e]]
      /\ S = [entry |-> S.entry, epoch |-> S.epoch, gate |-> S.gate]
  BY Zenon DEF removeIf
<1> HIDE DEF S
<1>3. S \in Registry
  <2>1. S.entry \in [Tracks -> Entry]
    BY <1>1, <1>2, NoEntryType
  <2>2. S.gate \in [Epochs -> GateStates]
    BY <1>1, <1>2 DEF GateStates
  <2> QED BY <1>1, <1>2, <2>1, <2>2, Zenon DEF Registry
<1>4. /\ \A t \in gone : S.entry[t].epoch = 0 /\ S.entry[t].handle = 0
      /\ \A t \in Tracks : t \notin gone => S.entry[t] = R.entry[t]
      /\ \A t \in Tracks : S.entry[t].epoch \in {0, R.entry[t].epoch}
  BY <1>2 DEF NoEntry
<1>5. \A e \in Epochs : \/ S.gate[e] = R.gate[e]
                        \/ /\ R.gate[e] = "pending"
                           /\ S.gate[e] = "failed"
                           /\ \E t \in gone : R.entry[t].epoch = e
  BY <1>2, Zenon
<1>6. \A e \in Epochs, t \in gone : R.entry[t].epoch = e => S.gate[e] # "pending"
  BY <1>2
<1>7. \A t \in Tracks : R.entry[t].epoch # 0 => R.entry[t].epoch \in Epochs
  BY <1>1 DEF Entry, Epochs
<1>8. EpochsDrawn(S)
  <2>1. ASSUME NEW t \in Tracks
        PROVE  S.entry[t].epoch <= S.epoch
    <3>1. R.entry[t].epoch <= R.epoch /\ 0 <= R.epoch
      BY <1>1 DEF RegistryOK, EpochsDrawn
    <3> QED BY <1>2, <1>4, <3>1, Zenon
  <2>2. \A e \in Epochs : S.gate[e] = "none" <=> R.gate[e] = "none"
    BY <1>5, Zenon
  <2> QED BY <1>2, <2>1, <2>2, Zenon DEF RegistryOK, EpochsDrawn
<1>9. EpochsDistinct(S)
  BY <1>4 DEF RegistryOK, EpochsDistinct, exists
<1>10. GatesSound(S)
  <2>1. \A e \in Epochs : S.gate[e] # "aborted"
    BY <1>5 DEF RegistryOK, GatesSound
  <2>2. ASSUME NEW t \in Tracks, exists(S, t)
        PROVE  S.gate[S.entry[t].epoch] \in {"pending", "ready"}
    <3>1. S.entry[t] = R.entry[t] /\ exists(R, t) /\ t \notin gone
      BY <1>4, <2>2, Zenon DEF exists
    <3>2. \A u \in gone : R.entry[u].epoch # R.entry[t].epoch
      BY <3>1, Zenon DEF RegistryOK, EpochsDistinct
    <3> QED BY <1>5, <1>7, <3>1, <3>2 DEF RegistryOK, GatesSound, exists
  <2>3. ASSUME NEW e \in Epochs, S.gate[e] = "pending"
        PROVE  \E t \in Tracks : S.entry[t].epoch = e
    <3>1. PICK t \in Tracks : R.entry[t].epoch = e
      BY <1>5, <2>3 DEF RegistryOK, GatesSound
    <3> QED BY <1>4, <1>6, <2>3, <3>1, Zenon
  <2> QED BY <2>1, <2>2, <2>3, Zenon DEF GatesSound
<1>11. HandlesSound(S)
  <2> SUFFICES ASSUME NEW t \in Tracks, S.entry[t].handle # 0
               PROVE  /\ S.entry[t].handle = S.entry[t].epoch
                      /\ S.gate[S.entry[t].epoch] = "ready"
                      /\ S.entry[t].upstream # None
    BY Zenon DEF HandlesSound
  <2>1. S.entry[t] = R.entry[t]
    BY <1>4, Zenon
  <2>2. R.entry[t].epoch \in Epochs
    BY <1>7, <2>1, Zenon DEF RegistryOK, HandlesSound
  <2> QED BY <1>5, <2>1, <2>2 DEF RegistryOK, HandlesSound
<1>12. Fades(R, S)
  <2>1. \A t \in Tracks, e \in Epochs :
          S.gate[e] = "pending" /\ R.entry[t].epoch = e => S.entry[t].epoch = e
    BY <1>4, <1>6, Zenon
  <2>2. \A e \in Epochs : S.gate[e] # R.gate[e] => R.gate[e] = "pending" /\ S.gate[e] = "failed"
    BY <1>5, Zenon
  <2> QED BY <1>2, <1>4, <2>1, <2>2, Zenon DEF Fades
<1> QED BY <1>3, <1>8, <1>9, <1>10, <1>11, <1>12, Zenon DEF RegistryOK, S

\* A first subscriber's entry: the new epoch is pending and has its entry.
LEMMA CreateFromSubscribeOK ==
  ASSUME NEW R, RegistryOK(R), NEW t \in Tracks, ~ exists(R, t), R.epoch < MaxEpoch
  PROVE  RegistryOK(CreateFromSubscribe(R, t))
<1> DEFINE S == CreateFromSubscribe(R, t)
           n == R.epoch + 1
           new == [epoch |-> n, upstream |-> None, handle |-> 0, isPublish |-> FALSE]
<1>1. R.entry \in [Tracks -> Entry] /\ R.epoch \in 0 .. MaxEpoch /\ R.gate \in [Epochs -> GateStates]
  BY Zenon DEF RegistryOK, Registry
<1>2. n \in Epochs /\ n \in 0 .. MaxEpoch /\ n # 0
  BY <1>1, RegistryAssumption DEF Epochs
<1>3. new \in Entry
  BY <1>2, RegistryAssumption DEF Entry
<1>4. S \in Registry
  BY <1>1, <1>2, <1>3, Zenon DEF CreateFromSubscribe, Registry, GateStates
<1>5. /\ S.epoch = n
      /\ S.entry[t].epoch = n /\ S.entry[t].handle = 0
      /\ \A u \in Tracks : u # t => S.entry[u] = R.entry[u]
      /\ S.gate[n] = "pending"
      /\ \A e \in Epochs : e # n => S.gate[e] = R.gate[e]
  BY <1>1, <1>2, Zenon DEF CreateFromSubscribe
<1>6. \A u \in Tracks : /\ R.entry[u].epoch \in 0 .. MaxEpoch
                        /\ R.entry[u].epoch <= R.epoch
                        /\ R.entry[u].epoch # n
  BY <1>1 DEF RegistryOK, EpochsDrawn, Entry
<1> HIDE DEF S
<1>7. EpochsDrawn(S)
  BY <1>1, <1>2, <1>5, <1>6 DEF RegistryOK, EpochsDrawn, Epochs
<1>8. EpochsDistinct(S)
  BY <1>2, <1>5, <1>6 DEF RegistryOK, EpochsDistinct, exists
<1>9. GatesSound(S)
  <2>1. \A e \in Epochs : S.gate[e] # "aborted"
    BY <1>5 DEF RegistryOK, GatesSound
  <2>2. \A u \in Tracks : exists(S, u) => S.gate[S.entry[u].epoch] \in {"pending", "ready"}
    BY <1>5, <1>6 DEF RegistryOK, GatesSound, exists, Epochs
  <2>3. ASSUME NEW e \in Epochs, S.gate[e] = "pending"
        PROVE  \E u \in Tracks : S.entry[u].epoch = e
    <3>1. CASE e = n
      BY <1>5, <3>1, Zenon
    <3>2. CASE e # n
      <4>1. PICK u \in Tracks : R.entry[u].epoch = e
        BY <1>5, <2>3, <3>2, Zenon DEF RegistryOK, GatesSound
      <4>2. e # 0
        BY DEF Epochs
      <4> QED BY <1>5, <4>1, <4>2, Zenon DEF exists
    <3> QED BY <3>1, <3>2, Zenon
  <2> QED BY <2>1, <2>2, <2>3, Zenon DEF GatesSound
<1>10. HandlesSound(S)
  <2> SUFFICES ASSUME NEW u \in Tracks, S.entry[u].handle # 0
               PROVE  /\ S.entry[u].handle = S.entry[u].epoch
                      /\ S.gate[S.entry[u].epoch] = "ready"
                      /\ S.entry[u].upstream # None
    BY Zenon DEF HandlesSound
  <2>1. S.entry[u] = R.entry[u]
    BY <1>5, Zenon
  <2>2. R.entry[u].epoch \in Epochs
    BY <1>6, <2>1 DEF RegistryOK, HandlesSound, Epochs
  <2> QED BY <1>5, <1>6, <2>1, <2>2 DEF RegistryOK, HandlesSound
<1> QED BY <1>4, <1>7, <1>8, <1>9, <1>10, Zenon DEF RegistryOK, S

\* createFromPublish: the evicted entry's promise is broken, never left pending,
\* and the new entry's is fulfilled.
LEMMA CreateFromPublishOK ==
  ASSUME NEW R, RegistryOK(R), NEW t \in Tracks, NEW s \in Publishers, R.epoch < MaxEpoch
  PROVE  RegistryOK(createFromPublish(R, t, s))
<1> DEFINE S == createFromPublish(R, t, s)
           n == R.epoch + 1
           new == [epoch |-> n, upstream |-> s, handle |-> n, isPublish |-> TRUE]
<1>1. R.entry \in [Tracks -> Entry] /\ R.epoch \in 0 .. MaxEpoch /\ R.gate \in [Epochs -> GateStates]
  BY Zenon DEF RegistryOK, Registry
<1>2. n \in Epochs /\ n \in 0 .. MaxEpoch /\ n # 0
  BY <1>1, RegistryAssumption DEF Epochs
<1>3. new \in Entry
  BY <1>2, RegistryAssumption, Zenon DEF Entry
<1>4. BreakGate(R.gate, R.entry[t].epoch) \in [Epochs -> GateStates]
  BY <1>1, Zenon DEF BreakGate, GateStates
<1>5. S \in Registry
  BY <1>1, <1>2, <1>3, <1>4, Zenon DEF createFromPublish, Registry, GateStates
<1>6. /\ S.epoch = n
      /\ S.entry[t].epoch = n /\ S.entry[t].handle = n /\ S.entry[t].upstream = s
      /\ \A u \in Tracks : u # t => S.entry[u] = R.entry[u]
      /\ S.gate[n] = "ready"
      /\ \A e \in Epochs : e # n => S.gate[e] = BreakGate(R.gate, R.entry[t].epoch)[e]
  BY <1>1, <1>2, <1>4, Zenon DEF createFromPublish
<1>7. \A u \in Tracks : /\ R.entry[u].epoch \in 0 .. MaxEpoch
                        /\ R.entry[u].epoch <= R.epoch
                        /\ R.entry[u].epoch # n
  BY <1>1 DEF RegistryOK, EpochsDrawn, Entry
<1>8. \A e \in Epochs : e # n => IF e = R.entry[t].epoch /\ R.gate[e] = "pending"
                                 THEN S.gate[e] = "failed" ELSE S.gate[e] = R.gate[e]
  BY <1>6, Zenon DEF BreakGate
<1> HIDE DEF S
<1>9. EpochsDrawn(S)
  BY <1>1, <1>2, <1>6, <1>7, <1>8 DEF RegistryOK, EpochsDrawn, Epochs
<1>10. EpochsDistinct(S)
  BY <1>2, <1>6, <1>7 DEF RegistryOK, EpochsDistinct, exists
<1>11. GatesSound(S)
  <2>1. \A e \in Epochs : S.gate[e] # "aborted"
    BY <1>6, <1>8 DEF RegistryOK, GatesSound
  <2>2. ASSUME NEW u \in Tracks, exists(S, u)
        PROVE  S.gate[S.entry[u].epoch] \in {"pending", "ready"}
    <3>1. CASE u = t
      BY <1>6, <3>1, Zenon
    <3>2. CASE u # t
      <4>1. S.entry[u] = R.entry[u] /\ exists(R, u) /\ R.entry[u].epoch \in Epochs
        BY <1>6, <1>7, <2>2, <3>2, SMTT(60) DEF exists, Epochs
      <4>2. R.entry[u].epoch # R.entry[t].epoch
        BY <3>2, <4>1, Zenon DEF RegistryOK, EpochsDistinct
      <4> QED BY <1>7, <1>8, <4>1, <4>2, ZenonT(30) DEF RegistryOK, GatesSound
    <3> QED BY <3>1, <3>2, Zenon
  <2>3. ASSUME NEW e \in Epochs, S.gate[e] = "pending"
        PROVE  \E u \in Tracks : S.entry[u].epoch = e
    <3>1. e # n /\ R.gate[e] = "pending" /\ R.entry[t].epoch # e
      BY <1>6, <1>8, <2>3, Zenon
    <3>2. PICK u \in Tracks : R.entry[u].epoch = e
      BY <3>1, Zenon DEF RegistryOK, GatesSound
    <3> QED BY <1>6, <3>1, <3>2, Zenon
  <2> QED BY <2>1, <2>2, <2>3, Zenon DEF GatesSound
<1>12. HandlesSound(S)
  <2> SUFFICES ASSUME NEW u \in Tracks, S.entry[u].handle # 0
               PROVE  /\ S.entry[u].handle = S.entry[u].epoch
                      /\ S.gate[S.entry[u].epoch] = "ready"
                      /\ S.entry[u].upstream # None
    BY Zenon DEF HandlesSound
  <2>1. CASE u = t
    BY <1>6, <2>1, RegistryAssumption, Zenon
  <2>2. CASE u # t
    <3>1. S.entry[u] = R.entry[u]
      BY <1>6, <2>2, Zenon
    <3>2. R.entry[u].epoch \in Epochs /\ R.gate[R.entry[u].epoch] = "ready"
      BY <1>7, <3>1 DEF RegistryOK, HandlesSound, Epochs
    <3> QED BY <1>7, <1>8, <3>1, <3>2, Zenon DEF RegistryOK, HandlesSound
  <2> QED BY <2>1, <2>2, Zenon
<1> QED BY <1>5, <1>9, <1>10, <1>11, <1>12, Zenon DEF RegistryOK, S

\* failAndRemove of an epoch whose promise is still pending is an erasure; of
\* any other epoch it does nothing.
LEMMA FailAndRemoveOK ==
  ASSUME NEW R, RegistryOK(R), NEW t \in Tracks, NEW e \in Epochs,
         R.entry[t].epoch = e => R.gate[e] = "pending"
  PROVE  RegistryOK(failAndRemove(R, t, e)) /\ Fades(R, failAndRemove(R, t, e))
<1>1. CASE R.entry[t].epoch # e
  BY <1>1, FadesReflexive, Zenon DEF failAndRemove
<1>2. CASE R.entry[t].epoch = e
  <2>1. SetGate(R.gate, e, "failed") = BreakGate(R.gate, e)
    BY <1>2, Zenon DEF SetGate, BreakGate
  <2>2. failAndRemove(R, t, e) = remove(R, t)
    BY <1>2, <2>1, Zenon DEF failAndRemove, remove
  <2> QED BY <2>2, RemoveOK, Zenon
<1> QED BY <1>1, <1>2, Zenon

\* S is R after the subscription of epoch e was completed with session s, or R
\* itself if t's entry is another one.
CompletedAs(R, S, t, e, s) ==
    /\ S.epoch = R.epoch
    /\ \A u \in Tracks : S.entry[u].epoch = R.entry[u].epoch
    /\ \A u \in Tracks : u # t \/ R.entry[t].epoch # e => S.entry[u] = R.entry[u]
    /\ R.entry[t].epoch = e => S.entry[t].handle = e /\ S.entry[t].upstream = s
    /\ \A x \in Epochs : R.entry[t].epoch # e \/ x # e => S.gate[x] = R.gate[x]
    /\ R.entry[t].epoch = e => S.gate[e] = "ready"

\* completeSubscription of an epoch whose promise is still pending sets it once
\* and stores the epoch's own handle; of any other epoch it does nothing.
LEMMA CompleteOK ==
  ASSUME NEW R, RegistryOK(R), NEW t \in Tracks, NEW e \in Epochs, NEW s \in Publishers,
         R.entry[t].epoch = e => R.gate[e] = "pending"
  PROVE  /\ RegistryOK(completeSubscription(R, t, e, e, s))
         /\ CompletedAs(R, completeSubscription(R, t, e, e, s), t, e, s)
<1> DEFINE S == completeSubscription(R, t, e, e, s)
<1>1. CASE R.entry[t].epoch # e
  BY <1>1, Zenon DEF completeSubscription, Completes, CompletedAs
<1>2. CASE R.entry[t].epoch = e
  <2> DEFINE new == [epoch |-> e, upstream |-> s, handle |-> e, isPublish |-> R.entry[t].isPublish]
  <2>1. R.entry \in [Tracks -> Entry] /\ R.epoch \in 0 .. MaxEpoch /\ R.gate \in [Epochs -> GateStates]
    BY Zenon DEF RegistryOK, Registry
  <2>2. S = [entry |-> [R.entry EXCEPT ![t] = new], epoch |-> R.epoch,
             gate |-> SetGate(R.gate, e, "ready")]
    BY <1>2, Zenon DEF completeSubscription, Completes
  <2>3. new \in Entry
    BY <2>1, RegistryAssumption DEF Entry, Epochs
  <2>4. SetGate(R.gate, e, "ready") \in [Epochs -> GateStates]
    BY <2>1, Zenon DEF SetGate, GateStates
  <2>5. S \in Registry
    BY <2>1, <2>2, <2>3, <2>4 DEF Registry
  <2>6. /\ S.epoch = R.epoch
        /\ S.entry[t].epoch = e /\ S.entry[t].handle = e /\ S.entry[t].upstream = s
        /\ \A u \in Tracks : u # t => S.entry[u] = R.entry[u]
        /\ S.gate[e] = "ready"
        /\ \A x \in Epochs : x # e => S.gate[x] = R.gate[x]
    BY <1>2, <2>1, <2>2 DEF SetGate
  <2>7. \A u \in Tracks : S.entry[u].epoch = R.entry[u].epoch
    BY <1>2, <2>6, Zenon
  <2>8. \A u \in Tracks : R.entry[u].epoch \in 0 .. MaxEpoch
    BY <2>1, Zenon DEF Entry
  <2> HIDE DEF S
  <2>9. EpochsDrawn(S) /\ EpochsDistinct(S)
    BY <1>2, <2>6, <2>7 DEF RegistryOK, EpochsDrawn, EpochsDistinct, exists
  <2>10. GatesSound(S)
    BY <2>6, <2>7, <2>8 DEF RegistryOK, GatesSound, exists, Epochs
  <2>11. HandlesSound(S)
    <3> SUFFICES ASSUME NEW u \in Tracks, S.entry[u].handle # 0
                 PROVE  /\ S.entry[u].handle = S.entry[u].epoch
                        /\ S.gate[S.entry[u].epoch] = "ready"
                        /\ S.entry[u].upstream # None
      BY Zenon DEF HandlesSound
    <3>1. CASE u = t
      BY <2>6, <3>1, RegistryAssumption, Zenon
    <3>2. CASE u # t
      BY <2>6, <2>8, <3>2 DEF RegistryOK, HandlesSound, Epochs
    <3> QED BY <3>1, <3>2, Zenon
  <2> QED BY <1>2, <2>5, <2>6, <2>7, <2>9, <2>10, <2>11, Zenon DEF RegistryOK, CompletedAs, S
<1> QED BY <1>1, <1>2, Zenon

-----------------------------------------------------------------------------
(***************************************************************************)
(* The relay.                                                              *)
(***************************************************************************)
StateType ==
    /\ fwd \in [Epochs -> Forwarder]
    /\ up \in [Epochs -> Upstream]
    /\ req \in [Subscribers -> Request]
    /\ watching \subseteq Watchers
    /\ route \in Publishers \cup {None}
    /\ tree \in [Tracks -> Publishers \cup {None}]

\* Exactly the epochs drawn have a forwarder and an upstream subscription.
EpochsInUse ==
    \A e \in Epochs :
        /\ e <= reg.epoch => fwd[e].track \in Tracks /\ up[e].session \in Publishers
        /\ e > reg.epoch => fwd[e].subs = {} /\ up[e].st = "none"

\* A first subscriber still in subscribeImpl holds the UpstreamSubscribePending
\* of its epoch: nobody else settles that promise except by erasing the entry.
Firsts ==
    \A q \in Subscribers : req[q].pc = "upstream" =>
        /\ req[q].track \in Tracks
        /\ req[q].epoch \in Epochs
        /\ req[q].epoch <= reg.epoch
        /\ reg.entry[req[q].track].epoch = req[q].epoch <=> reg.gate[req[q].epoch] = "pending"

FirstsDistinct ==
    \A q, r \in Subscribers :
        req[q].pc = "upstream" /\ req[r].pc = "upstream" /\ req[q].epoch = req[r].epoch => q = r

PendingHasFirst ==
    \A e \in Epochs : reg.gate[e] = "pending" =>
        \E q \in Subscribers : req[q].pc = "upstream" /\ req[q].epoch = e

Waiters ==
    \A r \in Subscribers : req[r].pc = "waiting" =>
        /\ req[r].track \in Tracks
        /\ req[r].epoch \in Epochs
        /\ req[r].epoch <= reg.epoch
        /\ reg.gate[req[r].epoch] = "pending" => reg.entry[req[r].track].epoch = req[r].epoch

IInv ==
    /\ RegistryOK(reg)
    /\ StateType
    /\ EpochsInUse
    /\ OwnHandle
    /\ Firsts
    /\ FirstsDistinct
    /\ PendingHasFirst
    /\ Waiters

-----------------------------------------------------------------------------
\* V is U after some upstream subscriptions were cancelled or updated.
Keeps(U, V) ==
    \A e \in Epochs : V[e].session = U[e].session /\ (U[e].st = "none" => V[e].st = "none")

\* Calling unsubscribe on a handle only ends upstream subscriptions.
LEMMA UnsubscribeOK ==
  ASSUME NEW U \in [Epochs -> Upstream], NEW h \in Epochs
  PROVE  unsubscribe(U, h) \in [Epochs -> Upstream] /\ Keeps(U, unsubscribe(U, h))
<1> DEFINE st == IF ~ Hop /\ U[h].st = "live" THEN "cancelled" ELSE U[h].st
           v == [U[h] EXCEPT !.cancel = Hop, !.st = st]
<1>1. U[h] \in Upstream
  BY Zenon
<1>2. st \in UpstreamStates /\ (U[h].st = "none" => st = "none")
  BY <1>1, Zenon DEF Upstream, UpstreamStates
<1>3. unsubscribe(U, h) = [U EXCEPT ![h] = v]
  BY Zenon DEF unsubscribe
<1> HIDE DEF st
<1>4. v \in Upstream /\ v.session = U[h].session /\ v.st = st
  BY <1>1, <1>2, RelayAssumption, Zenon DEF Upstream
<1> HIDE DEF v
<1> QED BY <1>2, <1>3, <1>4, Zenon DEF Keeps

\* The handle an entry holds is the one of its own epoch.
LEMMA HandleIsEpoch ==
  ASSUME NEW R, RegistryOK(R), NEW t \in Tracks
  PROVE  /\ R.entry[t].epoch \in 0 .. MaxEpoch
         /\ R.entry[t].epoch <= R.epoch
         /\ R.entry[t].handle # 0 => R.entry[t].handle \in Epochs
         /\ R.entry[t].epoch # 0 => R.entry[t].epoch \in Epochs
  BY DEF RegistryOK, Registry, Entry, EpochsDrawn, Epochs

\* What onEmpty does to the upstream subscriptions.
LEMMA OnEmptyUpstreamOK ==
  ASSUME NEW R, RegistryOK(R), NEW t \in Tracks, NEW U \in [Epochs -> Upstream]
  PROVE  OnEmptyUpstream(R, U, t) \in [Epochs -> Upstream] /\ Keeps(U, OnEmptyUpstream(R, U, t))
<1> DEFINE h == R.entry[t].handle
<1>1. CASE h = 0
  BY <1>1, Zenon DEF OnEmptyUpstream, Keeps
<1>2. CASE h # 0 /\ R.entry[t].isPublish
  <2> DEFINE v == [U[h] EXCEPT !.forward = FALSE]
  <2>1. OnEmptyUpstream(R, U, t) = [U EXCEPT ![h] = v]
    BY <1>2, Zenon DEF OnEmptyUpstream
  <2>2. h \in Epochs
    BY <1>2, HandleIsEpoch, Zenon
  <2>3. v \in Upstream /\ v.session = U[h].session /\ v.st = U[h].st
    BY <2>2, ZenonT(30) DEF Upstream
  <2> HIDE DEF v, h
  <2> QED BY <2>1, <2>2, <2>3, Zenon DEF Keeps
<1>3. CASE h # 0 /\ ~ R.entry[t].isPublish
  <2>1. OnEmptyUpstream(R, U, t) = unsubscribe(U, h)
    BY <1>3, Zenon DEF OnEmptyUpstream
  <2>2. h \in Epochs
    BY <1>3, HandleIsEpoch, Zenon
  <2> QED BY <2>1, <2>2, UnsubscribeOK, Zenon
<1> QED BY <1>1, <1>2, <1>3, Zenon

\* What forwardChanged does to the upstream subscriptions.
LEMMA ForwardChangedOK ==
  ASSUME NEW R, RegistryOK(R), NEW t \in Tracks, NEW U \in [Epochs -> Upstream]
  PROVE  ForwardChanged(R, U, t) \in [Epochs -> Upstream] /\ Keeps(U, ForwardChanged(R, U, t))
<1> DEFINE h == R.entry[t].handle
<1>1. CASE h = 0 \/ ~ IsReady(R, t)
  BY <1>1, Zenon DEF ForwardChanged, Keeps
<1>2. CASE ~ (h = 0 \/ ~ IsReady(R, t))
  <2> DEFINE v == [U[h] EXCEPT !.forward = TRUE]
  <2>1. ForwardChanged(R, U, t) = [U EXCEPT ![h] = v]
    BY <1>2, Zenon DEF ForwardChanged
  <2>2. h \in Epochs
    BY <1>2, HandleIsEpoch, Zenon
  <2>3. v \in Upstream /\ v.session = U[h].session /\ v.st = U[h].st
    BY <2>2, Zenon DEF Upstream
  <2> HIDE DEF v, h
  <2> QED BY <2>1, <2>2, <2>3, Zenon DEF Keeps
<1> QED BY <1>1, <1>2, Zenon

\* What onEmpty does to the registry.
LEMMA OnEmptyRegistryOK ==
  ASSUME NEW R, RegistryOK(R), NEW t \in Tracks
  PROVE  RegistryOK(OnEmptyRegistry(R, t)) /\ Fades(R, OnEmptyRegistry(R, t))
<1>1. CASE R.entry[t].handle # 0 /\ R.entry[t].isPublish
  BY <1>1, FadesReflexive, Zenon DEF OnEmptyRegistry
<1>2. CASE ~ (R.entry[t].handle # 0 /\ R.entry[t].isPublish)
  BY <1>2, RemoveOK, Zenon DEF OnEmptyRegistry
<1> QED BY <1>1, <1>2, Zenon

-----------------------------------------------------------------------------
(***************************************************************************)
(* Most handlers only let entries go, and touch no request that is         *)
(* suspended except to answer a waiter.  Such a step keeps the invariant.  *)
(***************************************************************************)
QuietRequests ==
    \A r \in Subscribers :
        req'[r] # req[r] => req[r].pc # "upstream" /\ req'[r].pc \in {"idle", "attached"}

SameForwarders ==
    \A e \in Epochs : /\ fwd'[e].track = fwd[e].track
                      /\ fwd'[e].subs # {} => fwd[e].subs # {} \/ e <= reg.epoch

\* A step that draws no epoch and answers no request keeps the invariant.
LEMMA QuietStep ==
  ASSUME IInv, RegistryOK(reg'), Fades(reg, reg'), StateType', Keeps(up, up'),
         QuietRequests, SameForwarders
  PROVE  IInv'
<1> USE DEF IInv
<1>0. reg.epoch \in 0 .. MaxEpoch /\ reg'.epoch = reg.epoch
  BY Zenon DEF RegistryOK, Registry, Fades
<1>1. EpochsInUse'
  BY <1>0 DEF EpochsInUse, Keeps, SameForwarders, Epochs
<1>2. OwnHandle'
  <2> SUFFICES ASSUME NEW t \in Tracks, reg'.entry[t].handle # 0
               PROVE  /\ reg'.entry[t].handle = reg'.entry[t].epoch
                      /\ up'[reg'.entry[t].handle].session = reg'.entry[t].upstream
    BY Zenon DEF OwnHandle
  <2>1. reg'.entry[t].handle = reg'.entry[t].epoch
    BY Zenon DEF RegistryOK, HandlesSound
  <2>2. reg'.entry[t].handle = reg.entry[t].handle /\ reg'.entry[t].upstream = reg.entry[t].upstream
    BY Zenon DEF Fades
  <2>3. reg.entry[t].handle \in Epochs
    BY <2>2, HandleIsEpoch, Zenon
  <2> QED BY <2>1, <2>2, <2>3, Zenon DEF OwnHandle, Keeps
<1>3. Firsts'
  <2> SUFFICES ASSUME NEW q \in Subscribers, req'[q].pc = "upstream"
               PROVE  /\ req'[q].track \in Tracks
                      /\ req'[q].epoch \in Epochs
                      /\ req'[q].epoch <= reg'.epoch
                      /\ reg'.entry[req'[q].track].epoch = req'[q].epoch
                           <=> reg'.gate[req'[q].epoch] = "pending"
    BY Zenon DEF Firsts
  <2>1. req'[q] = req[q]
    BY Zenon DEF QuietRequests
  <2> DEFINE t == req[q].track
             e == req[q].epoch
  <2>2. /\ t \in Tracks /\ e \in Epochs /\ e <= reg.epoch
        /\ reg.entry[t].epoch = e <=> reg.gate[e] = "pending"
    BY <2>1, Zenon DEF Firsts
  <2>3. ASSUME reg'.gate[e] = "pending"
        PROVE  reg'.entry[t].epoch = e
    BY <2>2, <2>3, Zenon DEF Fades
  <2>4. ASSUME reg'.entry[t].epoch = e
        PROVE  reg'.gate[e] = "pending"
    <3>1. e # 0
      BY <2>2, SMTT(60) DEF Epochs
    <3>2. reg.entry[t].epoch = e /\ reg.gate[e] = "pending"
      BY <2>2, <2>4, <3>1, Zenon DEF Fades
    <3>3. reg'.gate[e] \in {"pending", "ready"}
      BY <2>2, <2>4, <3>1, Zenon DEF RegistryOK, GatesSound, exists
    <3> QED BY <2>2, <3>2, <3>3, Zenon DEF Fades
  <2> QED BY <1>0, <2>1, <2>2, <2>3, <2>4, Zenon
<1>4. FirstsDistinct'
  BY DEF FirstsDistinct, QuietRequests
<1>5. PendingHasFirst'
  <2> SUFFICES ASSUME NEW e \in Epochs, reg'.gate[e] = "pending"
               PROVE  \E q \in Subscribers : req'[q].pc = "upstream" /\ req'[q].epoch = e
    BY Zenon DEF PendingHasFirst
  <2>1. reg.gate[e] = "pending"
    BY Zenon DEF Fades
  <2>2. PICK q \in Subscribers : req[q].pc = "upstream" /\ req[q].epoch = e
    BY <2>1, Zenon DEF PendingHasFirst
  <2> QED BY <2>2, Zenon DEF QuietRequests
<1>6. Waiters'
  <2> SUFFICES ASSUME NEW r \in Subscribers, req'[r].pc = "waiting"
               PROVE  /\ req'[r].track \in Tracks
                      /\ req'[r].epoch \in Epochs
                      /\ req'[r].epoch <= reg'.epoch
                      /\ reg'.gate[req'[r].epoch] = "pending"
                           => reg'.entry[req'[r].track].epoch = req'[r].epoch
    BY Zenon DEF Waiters
  <2>1. req'[r] = req[r]
    BY Zenon DEF QuietRequests
  <2>2. /\ req[r].track \in Tracks /\ req[r].epoch \in Epochs /\ req[r].epoch <= reg.epoch
        /\ reg.gate[req[r].epoch] = "pending" => reg.entry[req[r].track].epoch = req[r].epoch
    BY <2>1, Zenon DEF Waiters
  <2> QED BY <1>0, <2>1, <2>2 DEF Fades
<1> QED BY <1>1, <1>2, <1>3, <1>4, <1>5, <1>6, Zenon

\* The requests that are answered wait for nothing any more.
LEMMA AnsweredOK ==
  ASSUME StateType, NEW D, NEW e, req' = Answered(D, e)
  PROVE  req' \in [Subscribers -> Request] /\ QuietRequests
<1>1. Idle \in Request
  BY RegistryAssumption DEF Idle, Request
<1>2. req' \in [Subscribers -> Request]
  BY <1>1, Zenon DEF Answered, StateType
<1>3. \A r \in Subscribers : req'[r] # req[r] => req[r].pc = "attached" /\ req'[r] = Idle
  BY Zenon DEF Answered, StateType
<1> QED BY <1>2, <1>3 DEF QuietRequests, Idle

\* Requests that did not change keep what was known of them.
LEMMA SameRequests ==
  ASSUME UNCHANGED req
  PROVE  QuietRequests
  BY Zenon DEF QuietRequests

\* attachSubscriber, as a step of its own.
LEMMA AttachOK ==
  ASSUME IInv, NEW r \in Subscribers, NEW t \in Tracks, req[r].pc # "upstream",
         exists(reg, t), Attach(r, t), UNCHANGED <<reg, watching, route, tree>>
  PROVE  IInv'
<1> DEFINE e == reg.entry[t].epoch
<1>0. /\ RegistryOK(reg) /\ StateType
      /\ e \in Epochs /\ e <= reg.epoch /\ e \in 0 .. MaxEpoch
  BY HandleIsEpoch, Zenon DEF IInv, exists
<1>1. CASE fwd[e].draining
  <2>1. req' = [req EXCEPT ![r] = Idle] /\ UNCHANGED <<fwd, up>>
    BY <1>1, Zenon DEF Attach
  <2>2. Idle \in Request
    BY RegistryAssumption DEF Idle, Request
  <2>3. StateType'
    BY <1>0, <2>1, <2>2, Zenon DEF StateType
  <2>4. QuietRequests
    BY <1>0, <2>1, Zenon DEF QuietRequests, StateType, Idle
  <2>5. SameForwarders /\ Keeps(up, up')
    BY <2>1, Zenon DEF SameForwarders, Keeps
  <2> QED BY <1>0, <2>3, <2>4, <2>5, QuietStep, FadesReflexive, Zenon
<1>2. CASE ~ fwd[e].draining
  <2> DEFINE att == [pc |-> "attached", track |-> t, epoch |-> e]
             f == [fwd[e] EXCEPT !.subs = @ \cup {r}]
  <2>1. /\ req' = [req EXCEPT ![r] = att]
        /\ fwd' = [fwd EXCEPT ![e] = f]
        /\ up' = IF fwd[e].subs = {} THEN ForwardChanged(reg, up, t) ELSE up
    BY <1>2, Zenon DEF Attach
  <2>2. att \in Request /\ att.pc = "attached"
    BY <1>0, Zenon DEF Request
  <2>3. f \in Forwarder /\ f.track = fwd[e].track
    BY <1>0, SMTT(60) DEF StateType, Forwarder, Sinks
  <2>4. up' \in [Epochs -> Upstream] /\ Keeps(up, up')
    <3>1. up \in [Epochs -> Upstream] /\ Keeps(up, up)
      BY <1>0, Zenon DEF StateType, Keeps
    <3> QED BY <1>0, <2>1, <3>1, ForwardChangedOK, Zenon
  <2> HIDE DEF att, f
  <2>5. StateType'
    BY <1>0, <2>1, <2>2, <2>3, <2>4, Zenon DEF StateType
  <2>6. QuietRequests
    BY <1>0, <2>1, <2>2, Zenon DEF QuietRequests, StateType
  <2>7. SameForwarders
    BY <1>0, <2>1, <2>3, Zenon DEF SameForwarders, StateType
  <2> QED BY <1>0, <2>4, <2>5, <2>6, <2>7, QuietStep, FadesReflexive, Zenon
<1> QED BY <1>1, <1>2, Zenon

\* A later SUBSCRIBE of a track joins its entry.
LEMMA SubscribeJoinOK ==
  ASSUME IInv, NEW r \in Subscribers, NEW t \in Tracks, SubscribeJoin(r, t)
  PROVE  IInv'
<1>1. exists(reg, t)
  BY DEF SubscribeJoin, IsReady, exists, Epochs
<1> QED BY <1>1, AttachOK, Zenon DEF SubscribeJoin

\* A waiter resumes once its promise is settled.
LEMMA ResumeWaiterOK ==
  ASSUME IInv, NEW r \in Subscribers, ResumeWaiter(r)
  PROVE  IInv'
<1> DEFINE t == req[r].track
<1>0. RegistryOK(reg) /\ StateType /\ t \in Tracks /\ req[r].pc # "upstream"
  BY Zenon DEF IInv, Waiters, ResumeWaiter
<1>1. CASE reg.gate[req[r].epoch] = "ready" /\ exists(reg, t)
  BY <1>0, <1>1, AttachOK, Zenon DEF ResumeWaiter
<1>2. CASE ~ (reg.gate[req[r].epoch] = "ready" /\ exists(reg, t))
  <2>1. req' = [req EXCEPT ![r] = Idle] /\ UNCHANGED <<reg, fwd, up, watching, route, tree>>
    BY <1>2, Zenon DEF ResumeWaiter
  <2>2. Idle \in Request
    BY RegistryAssumption DEF Idle, Request
  <2>3. StateType'
    BY <1>0, <2>1, <2>2, Zenon DEF StateType
  <2>4. QuietRequests
    BY <1>0, <2>1, Zenon DEF QuietRequests, StateType, Idle
  <2>5. SameForwarders /\ Keeps(up, up')
    BY <2>1, Zenon DEF SameForwarders, Keeps
  <2> QED BY <1>0, <2>1, <2>3, <2>4, <2>5, QuietStep, FadesReflexive, Zenon
<1> QED BY <1>1, <1>2, Zenon

\* The upstream answers and the first subscriber resumes.
LEMMA UpstreamAnswersOK ==
  ASSUME IInv, NEW e \in Epochs, UpstreamAnswers(e)
  PROVE  IInv'
<1>0. RegistryOK(reg) /\ StateType
  BY Zenon DEF IInv
<1>1. PICK st \in {"live", "refused"} : up' = [up EXCEPT ![e].st = st]
  BY Zenon DEF UpstreamAnswers
<1>2. UNCHANGED <<reg, fwd, req, watching, route, tree>> /\ up[e].st = "asked"
  BY Zenon DEF UpstreamAnswers
<1>3. up' \in [Epochs -> Upstream] /\ Keeps(up, up')
  BY <1>0, <1>1, <1>2 DEF StateType, Upstream, UpstreamStates, Keeps
<1>4. StateType' /\ SameForwarders
  BY <1>0, <1>2, <1>3, Zenon DEF StateType, SameForwarders
<1> QED BY <1>0, <1>2, <1>3, <1>4, QuietStep, SameRequests, FadesReflexive, Zenon

\* A queued unsubscribe runs.
LEMMA RunUnsubscribeOK ==
  ASSUME IInv, NEW e \in Epochs, RunUnsubscribe(e)
  PROVE  IInv'
<1> DEFINE st == IF up[e].st = "live" THEN "cancelled" ELSE up[e].st
           v == [up[e] EXCEPT !.cancel = FALSE, !.st = st]
<1>0. RegistryOK(reg) /\ StateType
  BY Zenon DEF IInv
<1>1. up' = [up EXCEPT ![e] = v] /\ UNCHANGED <<reg, fwd, req, watching, route, tree>>
  BY Zenon DEF RunUnsubscribe
<1>2. st \in UpstreamStates /\ (up[e].st = "none" => st = "none")
  BY <1>0, Zenon DEF StateType, Upstream, UpstreamStates
<1> HIDE DEF st
<1>3. v \in Upstream /\ v.session = up[e].session /\ v.st = st
  BY <1>0, <1>2, Zenon DEF StateType, Upstream
<1> HIDE DEF v
<1>4. up' \in [Epochs -> Upstream] /\ Keeps(up, up')
  BY <1>0, <1>1, <1>2, <1>3, Zenon DEF StateType, Keeps
<1>5. StateType' /\ SameForwarders
  BY <1>0, <1>1, <1>4, Zenon DEF StateType, SameForwarders
<1> QED BY <1>0, <1>1, <1>4, <1>5, QuietStep, SameRequests, FadesReflexive, Zenon

\* A subscriber leaves a forwarder.
LEMMA RemoveSubscriberOK ==
  ASSUME IInv, NEW x \in Sinks, NEW e \in Epochs, RemoveSubscriber(x, e)
  PROVE  IInv'
<1> DEFINE t == fwd[e].track
           f == [fwd[e] EXCEPT !.subs = @ \ {x}]
<1>0. RegistryOK(reg) /\ StateType /\ reg.epoch \in 0 .. MaxEpoch
  BY Zenon DEF IInv, RegistryOK, Registry
<1>1. e <= reg.epoch /\ t \in Tracks
  BY <1>0 DEF IInv, EpochsInUse, RemoveSubscriber, Epochs
<1>2. RegistryOK(reg') /\ Fades(reg, reg')
  BY <1>0, <1>1, OnEmptyRegistryOK, FadesReflexive, Zenon DEF RemoveSubscriber
<1>3. up' \in [Epochs -> Upstream] /\ Keeps(up, up')
  <2>1. up \in [Epochs -> Upstream] /\ Keeps(up, up)
    BY <1>0, Zenon DEF StateType, Keeps
  <2> QED BY <1>0, <1>1, <2>1, OnEmptyUpstreamOK, Zenon DEF RemoveSubscriber
<1>4. fwd' = [fwd EXCEPT ![e] = f] /\ req' = Answered({x}, e) /\ UNCHANGED <<watching, route, tree>>
  BY Zenon DEF RemoveSubscriber
<1>5. f \in Forwarder /\ f.track = fwd[e].track
  BY <1>0, Zenon DEF StateType, Forwarder
<1> HIDE DEF f
<1>6. req' \in [Subscribers -> Request] /\ QuietRequests
  BY <1>0, <1>4, AnsweredOK, Zenon
<1>7. StateType' /\ SameForwarders
  BY <1>0, <1>1, <1>3, <1>4, <1>5, <1>6, Zenon DEF StateType, SameForwarders
<1> QED BY <1>2, <1>3, <1>6, <1>7, QuietStep, Zenon

\* publishDone reaches the relay: whatever entry the name has now fades.
LEMMA PublishDoneHandlerOK ==
  ASSUME IInv, NEW e \in Epochs, up[e].st # "none", PublishDoneHandler(e)
  PROVE  IInv'
<1> DEFINE t == fwd[e].track
           empty == exists(reg, t) /\ \E c \in Epochs : c = reg.entry[t].epoch /\ fwd[c].subs = {}
           reg1 == onPublisherTerminated(reg, t, empty)
<1>0. RegistryOK(reg) /\ StateType /\ reg.epoch \in 0 .. MaxEpoch
  BY Zenon DEF IInv, RegistryOK, Registry
<1>1. e <= reg.epoch /\ t \in Tracks
  BY <1>0 DEF IInv, EpochsInUse, Epochs
<1>2. empty \in BOOLEAN
  BY Zenon
<1>3. RegistryOK(reg1) /\ Fades(reg, reg1)
  <2> HIDE DEF empty
  <2> QED BY <1>0, <1>1, <1>2, TerminatedOK, Zenon
<1>4. PICK D \in DrainedAtOnce(e) :
        /\ fwd' = [fwd EXCEPT ![e] = [track |-> t, subs |-> @.subs \ D, draining |-> TRUE]]
        /\ req' = Answered(D, e)
        /\ reg' = IF LeavesEmpty(e, D) THEN OnEmptyRegistry(reg1, t) ELSE reg1
        /\ up' = [(IF LeavesEmpty(e, D) THEN OnEmptyUpstream(reg1, up, t) ELSE up)
                    EXCEPT ![e].st = "ended"]
  BY Zenon DEF PublishDoneHandler
<1>5. tree' = Unpublished(reg, t) /\ UNCHANGED <<watching, route>>
  BY Zenon DEF PublishDoneHandler
<1> HIDE DEF reg1
<1>6. RegistryOK(reg') /\ Fades(reg, reg')
  <2>1. RegistryOK(OnEmptyRegistry(reg1, t)) /\ Fades(reg1, OnEmptyRegistry(reg1, t))
    BY <1>1, <1>3, OnEmptyRegistryOK, Zenon
  <2>2. Fades(reg, OnEmptyRegistry(reg1, t))
    BY <1>3, <2>1, FadesTransitive, Zenon
  <2> QED BY <1>3, <1>4, <2>1, <2>2, Zenon
<1>7. up' \in [Epochs -> Upstream] /\ Keeps(up, up')
  <2> DEFINE V == IF LeavesEmpty(e, D) THEN OnEmptyUpstream(reg1, up, t) ELSE up
             v == [V[e] EXCEPT !.st = "ended"]
  <2>1. V \in [Epochs -> Upstream] /\ Keeps(up, V)
    <3>1. up \in [Epochs -> Upstream] /\ Keeps(up, up)
      BY <1>0, Zenon DEF StateType, Keeps
    <3>2. OnEmptyUpstream(reg1, up, t) \in [Epochs -> Upstream]
          /\ Keeps(up, OnEmptyUpstream(reg1, up, t))
      BY <1>1, <1>3, <3>1, OnEmptyUpstreamOK, Zenon
    <3> QED BY <3>1, <3>2, Zenon
  <2>2. up' = [V EXCEPT ![e] = v]
    BY <1>4, Zenon
  <2> HIDE DEF V
  <2>3. v \in Upstream /\ v.session = V[e].session /\ v.st = "ended"
    BY <2>1, Zenon DEF Upstream, UpstreamStates
  <2> HIDE DEF v
  <2> QED BY <2>1, <2>2, <2>3, Zenon DEF Keeps
<1>8. req' \in [Subscribers -> Request] /\ QuietRequests
  BY <1>0, <1>4, AnsweredOK, Zenon
<1>9. tree' \in [Tracks -> Publishers \cup {None}]
  BY <1>0, <1>1, <1>5, Zenon DEF Unpublished, StateType
<1>10. fwd' \in [Epochs -> Forwarder] /\ SameForwarders
  <2> DEFINE f == [track |-> t, subs |-> fwd[e].subs \ D, draining |-> TRUE]
  <2>1. fwd' = [fwd EXCEPT ![e] = f]
    BY <1>4, Zenon
  <2>2. f \in Forwarder /\ f.track = fwd[e].track
    BY <1>0, <1>1, Zenon DEF StateType, Forwarder
  <2> HIDE DEF f
  <2> QED BY <1>0, <1>1, <2>1, <2>2, Zenon DEF StateType, SameForwarders
<1>11. StateType'
  BY <1>0, <1>5, <1>7, <1>8, <1>9, <1>10, Zenon DEF StateType
<1> QED BY <1>6, <1>7, <1>8, <1>10, <1>11, QuietStep, Zenon

\* A publisher ends its track.
LEMMA PublisherEndsOK ==
  ASSUME IInv, NEW e \in Epochs, PublisherEnds(e)
  PROVE  IInv'
<1>0. RegistryOK(reg) /\ StateType /\ up[e].st = "live"
  BY Zenon DEF IInv, PublisherEnds
<1>1. CASE Hop
  <2>1. up' = [up EXCEPT ![e].st = "ending"] /\ UNCHANGED <<reg, fwd, req, watching, route, tree>>
    BY <1>1, Zenon DEF PublisherEnds
  <2>2. up' \in [Epochs -> Upstream] /\ Keeps(up, up')
    BY <1>0, <2>1 DEF StateType, Upstream, UpstreamStates, Keeps
  <2>3. StateType' /\ SameForwarders
    BY <1>0, <2>1, <2>2, Zenon DEF StateType, SameForwarders
  <2> QED BY <1>0, <2>1, <2>2, <2>3, QuietStep, SameRequests, FadesReflexive, Zenon
<1>2. CASE ~ Hop
  BY <1>0, <1>2, PublishDoneHandlerOK, Zenon DEF PublisherEnds
<1> QED BY <1>1, <1>2, Zenon

\* A PUBLISH_DONE reaches the relay.
LEMMA DeliverPublishDoneOK ==
  ASSUME IInv, NEW e \in Epochs, DeliverPublishDone(e)
  PROVE  IInv'
  BY PublishDoneHandlerOK, Zenon DEF DeliverPublishDone

\* PUBLISH_NAMESPACE and its end.
LEMMA NamespaceStepsOK ==
  ASSUME IInv, \/ \E s \in Publishers : PublishNamespace(s)
               \/ PublishNamespaceDone
               \/ \E w \in Watchers : UnsubscribeNamespace(w)
  PROVE  IInv'
<1>0. RegistryOK(reg) /\ StateType
  BY Zenon DEF IInv
<1>1. UNCHANGED <<fwd, up, req, tree>>
  BY Zenon DEF PublishNamespace, PublishNamespaceDone, UnsubscribeNamespace
<1>2. route' \in Publishers \cup {None} /\ watching' \subseteq Watchers
  BY <1>0, Zenon DEF PublishNamespace, PublishNamespaceDone, UnsubscribeNamespace, StateType
<1>3. RegistryOK(reg') /\ Fades(reg, reg')
  <2>1. RegistryOK(removeIf(reg, Tracks, route)) /\ Fades(reg, removeIf(reg, Tracks, route))
    BY <1>0, RemoveIfOK, Zenon
  <2> QED BY <1>0, <2>1, FadesReflexive, Zenon
          DEF PublishNamespace, PublishNamespaceDone, UnsubscribeNamespace
<1>4. StateType' /\ SameForwarders /\ Keeps(up, up')
  BY <1>0, <1>1, <1>2, Zenon DEF StateType, SameForwarders, Keeps
<1> QED BY <1>1, <1>3, <1>4, QuietStep, SameRequests, Zenon

\* A subscription to the namespace of a track.
LEMMA SubscribeNamespaceOK ==
  ASSUME IInv, NEW w \in Watchers, SubscribeNamespace(w)
  PROVE  IInv'
<1>0. RegistryOK(reg) /\ StateType
  BY Zenon DEF IInv
<1> DEFINE matches == {t \in Tracks : tree[t] # None /\ exists(reg, t)}
           joined(e) == ~ fwd[e].draining /\ \E t \in matches : reg.entry[t].epoch = e
           woken(e) == joined(e) /\ fwd[e].subs = {} /\ IsReady(reg, fwd[e].track)
                       /\ reg.entry[fwd[e].track].handle = e
           f(e) == IF joined(e) THEN [fwd[e] EXCEPT !.subs = @ \cup {w}] ELSE fwd[e]
           v(e) == IF woken(e) THEN [up[e] EXCEPT !.forward = TRUE] ELSE up[e]
<1>1. /\ fwd' = [e \in Epochs |-> f(e)]
      /\ up' = [e \in Epochs |-> v(e)]
      /\ watching' = watching \cup {w}
      /\ UNCHANGED <<reg, req, route, tree>>
  BY Zenon DEF SubscribeNamespace
<1>2. \A e \in Epochs : joined(e) => e <= reg.epoch
  BY <1>0, HandleIsEpoch, Zenon
<1> HIDE DEF joined, woken
<1>3. ASSUME NEW e \in Epochs
      PROVE  /\ f(e) \in Forwarder /\ f(e).track = fwd[e].track
             /\ f(e).subs # {} => fwd[e].subs # {} \/ e <= reg.epoch
  <2>1. fwd[e] \in Forwarder
    BY <1>0, Zenon DEF StateType
  <2>2. [fwd[e] EXCEPT !.subs = @ \cup {w}] \in Forwarder
        /\ [fwd[e] EXCEPT !.subs = @ \cup {w}].track = fwd[e].track
    BY <2>1, Zenon DEF Forwarder, Sinks
  <2> QED BY <1>2, <2>1, <2>2, Zenon
<1>4. ASSUME NEW e \in Epochs
      PROVE  v(e) \in Upstream /\ v(e).session = up[e].session /\ v(e).st = up[e].st
  <2>1. up[e] \in Upstream
    BY <1>0, Zenon DEF StateType
  <2>2. [up[e] EXCEPT !.forward = TRUE] \in Upstream
        /\ [up[e] EXCEPT !.forward = TRUE].session = up[e].session
        /\ [up[e] EXCEPT !.forward = TRUE].st = up[e].st
    BY <2>1, Zenon DEF Upstream
  <2> QED BY <2>1, <2>2, Zenon
<1> HIDE DEF f, v
<1>5. Keeps(up, up') /\ SameForwarders
  BY <1>1, <1>3, <1>4, Zenon DEF Keeps, SameForwarders
<1>6. StateType'
  BY <1>0, <1>1, <1>3, <1>4, Zenon DEF StateType
<1> QED BY <1>0, <1>1, <1>5, <1>6, QuietStep, SameRequests, FadesReflexive, Zenon

\* A later subscriber starts to wait: the promise it waits on is its entry's.
LEMMA SubscribeWaitOK ==
  ASSUME IInv, NEW r \in Subscribers, NEW t \in Tracks, SubscribeWait(r, t)
  PROVE  IInv'
<1> DEFINE e == reg.entry[t].epoch
           new == [pc |-> "waiting", track |-> t, epoch |-> e]
<1>0. /\ RegistryOK(reg) /\ StateType
      /\ e \in Epochs /\ e <= reg.epoch /\ e \in 0 .. MaxEpoch
  BY HandleIsEpoch, Zenon DEF IInv, exists, SubscribeWait
<1>1. /\ req' = [req EXCEPT ![r] = new] /\ req[r].pc = "idle"
      /\ UNCHANGED <<reg, fwd, up, watching, route, tree>>
  BY Zenon DEF SubscribeWait
<1>2. new \in Request
  BY <1>0, Zenon DEF Request
<1>3. /\ req'[r] = new
      /\ \A q \in Subscribers : q # r => req'[q] = req[q]
      /\ StateType'
  BY <1>0, <1>1, <1>2, Zenon DEF StateType
<1>4. \A q \in Subscribers : req'[q].pc = "upstream" \/ req[q].pc = "upstream" => req'[q] = req[q]
  BY <1>1, <1>3, SMTT(60)
<1>5. Firsts' /\ FirstsDistinct'
  BY <1>1, <1>4, SMTT(60) DEF IInv, Firsts, FirstsDistinct
<1>6. PendingHasFirst'
  BY <1>1, <1>4, SMTT(60) DEF IInv, PendingHasFirst
<1>7. Waiters'
  BY <1>0, <1>1, <1>3, SMTT(60) DEF IInv, Waiters
<1>8. EpochsInUse' /\ OwnHandle' /\ RegistryOK(reg')
  BY <1>1, Zenon DEF IInv, EpochsInUse, OwnHandle
<1> QED BY <1>3, <1>5, <1>6, <1>7, <1>8, Zenon DEF IInv

\* A step that draws the next epoch n for track t, its forwarder and its
\* upstream subscription, and settles the promise of the entry it replaces.
DrawsEpoch(t, n) ==
    /\ n = reg.epoch + 1 /\ n \in Epochs
    /\ RegistryOK(reg') /\ StateType' /\ reg'.epoch = n
    /\ reg'.entry[t].epoch = n
    /\ reg'.entry[t].handle # 0 => up'[n].session = reg'.entry[t].upstream
    /\ \A u \in Tracks : u # t => reg'.entry[u] = reg.entry[u]
    /\ \A e \in Epochs : e # n => \/ reg'.gate[e] = reg.gate[e] /\ reg.entry[t].epoch # e
                                  \/ reg'.gate[e] = reg.gate[e] /\ reg.gate[e] # "pending"
                                  \/ reg'.gate[e] = "failed"
    /\ fwd'[n].track = t /\ up'[n].session \in Publishers
    /\ \A e \in Epochs : e # n => /\ fwd'[e].track \in {fwd[e].track, t}
                                  /\ fwd'[e].subs # {} => fwd[e].subs # {}
                                  /\ up'[e].session = up[e].session
                                  /\ up[e].st = "none" => up'[e].st = "none"

\* What such a step leaves true of the requests it does not touch.
SuspendedKept(n) ==
    /\ \A q \in Subscribers : req'[q] = req[q] /\ req[q].pc = "upstream" =>
          /\ req[q].track \in Tracks
          /\ req[q].epoch \in Epochs
          /\ req[q].epoch # n
          /\ req[q].epoch <= reg'.epoch
          /\ reg'.entry[req[q].track].epoch = req[q].epoch <=> reg'.gate[req[q].epoch] = "pending"
    /\ \A r \in Subscribers : req'[r] = req[r] /\ req[r].pc = "waiting" =>
          /\ req[r].track \in Tracks
          /\ req[r].epoch \in Epochs
          /\ req[r].epoch <= reg'.epoch
          /\ reg'.gate[req[r].epoch] = "pending" => reg'.entry[req[r].track].epoch = req[r].epoch

\* A step that draws the next epoch and installs its entry keeps the invariant.
LEMMA NewEpoch ==
  ASSUME IInv, NEW t \in Tracks, NEW n, DrawsEpoch(t, n)
  PROVE  EpochsInUse' /\ OwnHandle' /\ SuspendedKept(n)
<1> USE DEF DrawsEpoch
<1>0. RegistryOK(reg) /\ reg.epoch \in 0 .. MaxEpoch
  BY Zenon DEF IInv, RegistryOK, Registry
<1>1. EpochsInUse'
  <2> SUFFICES ASSUME NEW e \in Epochs
               PROVE  /\ e <= reg'.epoch => fwd'[e].track \in Tracks /\ up'[e].session \in Publishers
                      /\ e > reg'.epoch => fwd'[e].subs = {} /\ up'[e].st = "none"
    BY Zenon DEF EpochsInUse
  <2>1. CASE e = n
    BY <1>0, <2>1, SMTT(60)
  <2>2. CASE e # n
    <3>1. /\ e <= reg.epoch => fwd[e].track \in Tracks /\ up[e].session \in Publishers
          /\ e > reg.epoch => fwd[e].subs = {} /\ up[e].st = "none"
      BY Zenon DEF IInv, EpochsInUse
    <3>2. /\ e <= reg'.epoch <=> e <= reg.epoch
          /\ e > reg'.epoch <=> e > reg.epoch
      BY <1>0, <2>2, SMTT(60) DEF Epochs
    <3>3. /\ fwd'[e].track \in {fwd[e].track, t}
          /\ fwd'[e].subs # {} => fwd[e].subs # {}
          /\ up'[e].session = up[e].session
          /\ up[e].st = "none" => up'[e].st = "none"
      BY <2>2, Zenon
    <3> QED BY <3>1, <3>2, <3>3, Zenon
  <2> QED BY <2>1, <2>2, Zenon
<1>2. OwnHandle'
  <2> SUFFICES ASSUME NEW u \in Tracks, reg'.entry[u].handle # 0
               PROVE  /\ reg'.entry[u].handle = reg'.entry[u].epoch
                      /\ up'[reg'.entry[u].handle].session = reg'.entry[u].upstream
    BY Zenon DEF OwnHandle
  <2>1. reg'.entry[u].handle = reg'.entry[u].epoch
    BY Zenon DEF RegistryOK, HandlesSound
  <2>2. CASE u = t
    BY <2>1, <2>2, SMTT(60)
  <2>3. CASE u # t
    <3>1. reg'.entry[u] = reg.entry[u]
      BY <2>3, Zenon
    <3>2. reg.entry[u].handle \in Epochs /\ reg.entry[u].epoch <= reg.epoch
      BY <1>0, <3>1, HandleIsEpoch, Zenon
    <3>3. reg.entry[u].handle = reg.entry[u].epoch
      BY <2>1, <3>1, Zenon
    <3>4. reg.entry[u].handle # n
      BY <1>0, <3>2, <3>3, SMTT(60) DEF Epochs
    <3>5. up[reg.entry[u].handle].session = reg.entry[u].upstream
      BY <3>1, SMTT(60) DEF IInv, OwnHandle
    <3>6. up'[reg.entry[u].handle].session = up[reg.entry[u].handle].session
      BY <3>2, <3>4, Zenon
    <3> QED BY <2>1, <3>1, <3>5, <3>6, SMTT(60)
  <2> QED BY <2>2, <2>3, Zenon
<1>3. ASSUME NEW q \in Subscribers, req[q].pc = "upstream"
      PROVE  /\ req[q].track \in Tracks
             /\ req[q].epoch \in Epochs
             /\ req[q].epoch # n
             /\ req[q].epoch <= reg'.epoch
             /\ reg'.entry[req[q].track].epoch = req[q].epoch <=> reg'.gate[req[q].epoch] = "pending"
  <2> DEFINE u == req[q].track
             e == req[q].epoch
  <2>1. /\ u \in Tracks /\ e \in Epochs /\ e <= reg.epoch
        /\ reg.entry[u].epoch = e <=> reg.gate[e] = "pending"
    BY <1>3, Zenon DEF IInv, Firsts
  <2>2. e # n /\ e <= reg'.epoch /\ e # 0
    BY <1>0, <2>1, SMTT(60) DEF Epochs
  <2>3. CASE u = t
    BY <2>1, <2>2, <2>3, SMTT(60)
  <2>4. CASE u # t
    <3>1. reg'.entry[u] = reg.entry[u]
      BY <2>1, <2>4, Zenon
    <3>2. reg.entry[u].epoch = e => reg.entry[t].epoch # e
      BY <1>0, <2>1, <2>2, <2>4, SMTT(60) DEF RegistryOK, EpochsDistinct, exists
    <3>3. reg'.gate[e] = "pending" => reg.gate[e] = "pending"
      BY <2>1, <2>2, ZenonT(30)
    <3>4. reg'.entry[u].epoch = e => reg'.gate[e] \in {"pending", "ready"}
      BY <2>1, <2>2, SMTT(60) DEF RegistryOK, GatesSound, exists
    <3> QED BY <2>1, <2>2, <3>1, <3>2, <3>3, <3>4, ZenonT(30)
  <2> QED BY <2>1, <2>2, <2>3, <2>4, Zenon
<1>4. ASSUME NEW r \in Subscribers, req[r].pc = "waiting"
      PROVE  /\ req[r].track \in Tracks
             /\ req[r].epoch \in Epochs
             /\ req[r].epoch <= reg'.epoch
             /\ reg'.gate[req[r].epoch] = "pending" => reg'.entry[req[r].track].epoch = req[r].epoch
  <2> DEFINE u == req[r].track
             e == req[r].epoch
  <2>1. /\ u \in Tracks /\ e \in Epochs /\ e <= reg.epoch
        /\ reg.gate[e] = "pending" => reg.entry[u].epoch = e
    BY <1>4, Zenon DEF IInv, Waiters
  <2>2. e # n /\ e <= reg'.epoch
    BY <1>0, <2>1, SMTT(60) DEF Epochs
  <2>3. ASSUME reg'.gate[e] = "pending"
        PROVE  reg'.entry[u].epoch = e
    <3>1. reg.gate[e] = "pending" /\ reg.entry[t].epoch # e
      BY <2>1, <2>2, <2>3, ZenonT(30)
    <3> QED BY <2>1, <3>1, Zenon
  <2> QED BY <2>1, <2>2, <2>3, Zenon
<1> QED BY <1>1, <1>2, <1>3, <1>4, Zenon DEF SuspendedKept

\* The first SUBSCRIBE of a track.
LEMMA SubscribeFirstOK ==
  ASSUME IInv, NEW r \in Subscribers, NEW t \in Tracks, SubscribeFirst(r, t)
  PROVE  IInv'
<1> DEFINE n == reg.epoch + 1
           f == [track |-> t, subs |-> {r}, draining |-> FALSE]
           v == [session |-> route, st |-> "asked", cancel |-> FALSE, forward |-> TRUE]
           new == [pc |-> "upstream", track |-> t, epoch |-> n]
<1>0. /\ RegistryOK(reg) /\ StateType /\ reg.epoch \in 0 .. MaxEpoch
      /\ reg.epoch < MaxEpoch /\ ~ exists(reg, t) /\ route # None /\ req[r].pc = "idle"
  BY Zenon DEF IInv, RegistryOK, Registry, SubscribeFirst
<1>1. /\ reg' = CreateFromSubscribe(reg, t)
      /\ fwd' = [fwd EXCEPT ![n] = f]
      /\ up' = [up EXCEPT ![n] = v]
      /\ req' = [req EXCEPT ![r] = new]
      /\ UNCHANGED <<watching, route, tree>>
  BY Zenon DEF SubscribeFirst
<1>2. n \in Epochs /\ n \in 0 .. MaxEpoch /\ n # 0
  BY <1>0, RegistryAssumption, SMTT(60) DEF Epochs
<1>3. RegistryOK(reg')
  BY <1>0, <1>1, CreateFromSubscribeOK, ZenonT(30)
<1>4. /\ reg'.epoch = n /\ reg'.entry[t].epoch = n /\ reg'.entry[t].handle = 0
      /\ \A u \in Tracks : u # t => reg'.entry[u] = reg.entry[u]
      /\ reg'.gate[n] = "pending"
      /\ \A e \in Epochs : e # n => reg'.gate[e] = reg.gate[e] /\ reg.entry[t].epoch # e
  <2>1. reg.entry \in [Tracks -> Entry] /\ reg.gate \in [Epochs -> GateStates]
    BY <1>0, Zenon DEF RegistryOK, Registry
  <2>2. \A e \in Epochs : reg.entry[t].epoch # e
    BY <1>0 DEF exists, Epochs
  <2> QED BY <1>1, <1>2, <2>1, <2>2, Zenon DEF CreateFromSubscribe
<1>5. f \in Forwarder /\ f.track = t
  BY Zenon DEF Forwarder, Sinks
<1>6. v \in Upstream /\ v.session \in Publishers
  BY <1>0, Zenon DEF StateType, Upstream, UpstreamStates
<1>7. new \in Request /\ new.pc = "upstream" /\ new.track = t /\ new.epoch = n
  BY <1>2, Zenon DEF Request
<1> HIDE DEF f, v, new
<1>8. StateType'
  BY <1>0, <1>1, <1>2, <1>5, <1>6, <1>7, Zenon DEF StateType
<1>9. /\ fwd'[n] = f /\ up'[n] = v /\ req'[r] = new
      /\ \A e \in Epochs : e # n => fwd'[e] = fwd[e] /\ up'[e] = up[e]
      /\ \A q \in Subscribers : q # r => req'[q] = req[q]
  BY <1>0, <1>1, <1>2, Zenon DEF StateType
<1> HIDE DEF n
<1>10. EpochsInUse' /\ OwnHandle' /\ SuspendedKept(n)
  <2>1. n = reg.epoch + 1
    BY Zenon DEF n
  <2>2. DrawsEpoch(t, n)
    BY <1>2, <1>3, <1>4, <1>5, <1>6, <1>8, <1>9, <2>1, ZenonT(30) DEF DrawsEpoch
  <2> QED BY <2>2, NewEpoch, Zenon
<1>11. Firsts'
  <2>1. n <= reg'.epoch
    BY <1>2, <1>4, SMTT(60)
  <2> QED BY <1>2, <1>4, <1>7, <1>9, <1>10, <2>1, SMTT(60) DEF Firsts, SuspendedKept
<1>12. FirstsDistinct'
  BY <1>7, <1>9, <1>10, SMTT(60) DEF IInv, FirstsDistinct, SuspendedKept
<1>13. PendingHasFirst'
  <2> SUFFICES ASSUME NEW e \in Epochs, reg'.gate[e] = "pending"
               PROVE  \E q \in Subscribers : req'[q].pc = "upstream" /\ req'[q].epoch = e
    BY Zenon DEF PendingHasFirst
  <2>1. CASE e = n
    BY <1>7, <1>9, <2>1, Zenon
  <2>2. CASE e # n
    <3>1. PICK q \in Subscribers : req[q].pc = "upstream" /\ req[q].epoch = e
      BY <1>4, <2>2, Zenon DEF IInv, PendingHasFirst
    <3> QED BY <1>0, <1>9, <3>1, Zenon
  <2> QED BY <2>1, <2>2, Zenon
<1>14. Waiters'
  BY <1>7, <1>9, <1>10, ZenonT(30) DEF Waiters, SuspendedKept
<1> QED BY <1>3, <1>8, <1>10, <1>11, <1>12, <1>13, <1>14, Zenon DEF IInv

\* A drain of the evicted forwarder that calls onEmptyImpl leaves what PUBLISH
\* installed: the new entry keeps its handle, and the answer to the PUBLISH
\* settles its forwarding.
LEMMA PublishEffect ==
  ASSUME RegistryOK(reg), StateType, NEW s \in Publishers, NEW t \in Tracks, Publish(s, t)
  PROVE  LET n == reg.epoch + 1
             old == reg.entry[t]
             up1 == IF old.handle # 0 THEN unsubscribe(up, old.handle) ELSE up
         IN /\ reg' = createFromPublish(reg, t, s)
            /\ up' = [up1 EXCEPT ![n] = [session |-> s, st |-> "live", cancel |-> FALSE,
                                         forward |-> watching # {}]]
<1> DEFINE n == reg.epoch + 1
           old == reg.entry[t]
           evicts == old.handle # 0
           up1 == IF evicts THEN unsubscribe(up, old.handle) ELSE up
           R == createFromPublish(reg, t, s)
           w == [session |-> s, st |-> "live", cancel |-> FALSE, forward |-> TRUE]
           v == [session |-> s, st |-> "live", cancel |-> FALSE, forward |-> watching # {}]
           U == [up1 EXCEPT ![n] = w]
<1>1. PICK D : LET empties == evicts /\ LeavesEmpty(old.epoch, D) IN
               /\ reg' = IF empties THEN OnEmptyRegistry(R, t) ELSE R
               /\ up' = [(IF empties THEN OnEmptyUpstream(R, U, t) ELSE U)
                           EXCEPT ![n].forward = watching # {}]
  BY Zenon DEF Publish
<1>2. n \in Epochs /\ n # 0
  <2>1. reg.epoch \in 0 .. MaxEpoch /\ reg.epoch < MaxEpoch
    BY Zenon DEF RegistryOK, Registry, Publish
  <2> QED BY <2>1, RegistryAssumption DEF Epochs
<1>3. R.entry[t].handle = n /\ R.entry[t].isPublish
  BY Zenon DEF createFromPublish, RegistryOK, Registry
<1>4. DOMAIN up1 = Epochs
  BY Zenon DEF unsubscribe, StateType
<1> HIDE DEF n, R, up1
<1>5. OnEmptyRegistry(R, t) = R /\ OnEmptyUpstream(R, U, t) = [U EXCEPT ![n].forward = FALSE]
  BY <1>2, <1>3, Zenon DEF OnEmptyRegistry, OnEmptyUpstream
<1>6. /\ [U EXCEPT ![n].forward = watching # {}] = [up1 EXCEPT ![n] = v]
      /\ [[U EXCEPT ![n].forward = FALSE] EXCEPT ![n].forward = watching # {}]
         = [up1 EXCEPT ![n] = v]
  BY <1>2, <1>4, SMT
<1> QED BY <1>1, <1>5, <1>6, Zenon DEF n, R, up1

\* A PUBLISH installs its entry, over whatever was there.
LEMMA PublishOK ==
  ASSUME IInv, NEW s \in Publishers, NEW t \in Tracks, Publish(s, t)
  PROVE  IInv'
<1> DEFINE n == reg.epoch + 1
           old == reg.entry[t]
           evicts == old.handle # 0
           up1 == IF evicts THEN unsubscribe(up, old.handle) ELSE up
           v == [session |-> s, st |-> "live", cancel |-> FALSE, forward |-> watching # {}]
<1>0. /\ RegistryOK(reg) /\ StateType /\ reg.epoch \in 0 .. MaxEpoch /\ reg.epoch < MaxEpoch
  BY Zenon DEF IInv, RegistryOK, Registry, Publish
<1>1. PICK D : /\ fwd' = [x \in Epochs |->
                    IF x = n THEN [track |-> t, subs |-> watching, draining |-> FALSE]
                    ELSE IF evicts /\ x = old.epoch
                    THEN [track |-> t, subs |-> fwd[x].subs \ D, draining |-> TRUE]
                    ELSE fwd[x]]
               /\ req' = IF evicts THEN Answered(D, old.epoch) ELSE req
  BY Zenon DEF Publish
<1>2. /\ reg' = createFromPublish(reg, t, s)
      /\ up' = [up1 EXCEPT ![n] = v]
      /\ tree' = [tree EXCEPT ![t] = s]
      /\ UNCHANGED <<watching, route>>
  <2>1. tree' = [tree EXCEPT ![t] = s] /\ UNCHANGED <<watching, route>>
    BY Zenon DEF Publish
  <2> QED BY <1>0, <2>1, PublishEffect, Zenon
<1>3. n \in Epochs /\ n \in 0 .. MaxEpoch /\ n # 0
  BY <1>0, RegistryAssumption, SMTT(60) DEF Epochs
<1>4. RegistryOK(reg')
  BY <1>0, <1>2, CreateFromPublishOK, ZenonT(60)
<1>5. /\ old.epoch <= reg.epoch /\ old.epoch \in 0 .. MaxEpoch
      /\ evicts => old.epoch \in Epochs /\ old.handle \in Epochs /\ old.handle = old.epoch
  BY <1>0, HandleIsEpoch, Zenon DEF RegistryOK, HandlesSound
<1>6. /\ reg'.epoch = n /\ reg'.entry[t].epoch = n /\ reg'.entry[t].upstream = s
      /\ \A u \in Tracks : u # t => reg'.entry[u] = reg.entry[u]
      /\ reg'.gate[n] = "ready"
      /\ \A e \in Epochs : e # n => reg'.gate[e] = BreakGate(reg.gate, old.epoch)[e]
  <2>1. reg.entry \in [Tracks -> Entry] /\ reg.gate \in [Epochs -> GateStates]
    BY <1>0, Zenon DEF RegistryOK, Registry
  <2>2. BreakGate(reg.gate, old.epoch) \in [Epochs -> GateStates]
    BY <2>1, Zenon DEF BreakGate, GateStates
  <2> QED BY <1>2, <1>3, <2>1, <2>2, Zenon DEF createFromPublish
<1>7. \A e \in Epochs : e # n => \/ reg'.gate[e] = reg.gate[e] /\ old.epoch # e
                                 \/ reg'.gate[e] = reg.gate[e] /\ reg.gate[e] # "pending"
                                 \/ reg'.gate[e] = "failed"
  BY <1>6, Zenon DEF BreakGate
<1>8. /\ up' \in [Epochs -> Upstream] /\ up'[n].session = s
      /\ \A e \in Epochs : e # n => /\ up'[e].session = up[e].session
                                    /\ up[e].st = "none" => up'[e].st = "none"
  <2>1. up1 \in [Epochs -> Upstream] /\ Keeps(up, up1)
    <3>1. up \in [Epochs -> Upstream] /\ Keeps(up, up)
      BY <1>0, Zenon DEF StateType, Keeps
    <3>2. evicts => unsubscribe(up, old.handle) \in [Epochs -> Upstream]
                    /\ Keeps(up, unsubscribe(up, old.handle))
      BY <1>5, <3>1, UnsubscribeOK, Zenon
    <3> QED BY <3>1, <3>2, Zenon
  <2>2. v \in Upstream /\ v.session = s
    BY Zenon DEF Upstream, UpstreamStates
  <2> HIDE DEF v, up1
  <2> QED BY <1>2, <1>3, <2>1, <2>2, Zenon DEF Keeps
<1>9. /\ fwd' \in [Epochs -> Forwarder] /\ fwd'[n].track = t
      /\ \A e \in Epochs : e # n => /\ fwd'[e].track \in {fwd[e].track, t}
                                    /\ fwd'[e].subs # {} => fwd[e].subs # {}
  <2> DEFINE f(x) == IF x = n THEN [track |-> t, subs |-> watching, draining |-> FALSE]
                     ELSE IF evicts /\ x = old.epoch
                     THEN [track |-> t, subs |-> fwd[x].subs \ D, draining |-> TRUE]
                     ELSE fwd[x]
  <2>1. fwd' = [x \in Epochs |-> f(x)]
    BY <1>1, Zenon
  <2>2. ASSUME NEW x \in Epochs
        PROVE  /\ f(x) \in Forwarder
               /\ x = n => f(x).track = t
               /\ x # n => f(x).track \in {fwd[x].track, t} /\ (f(x).subs # {} => fwd[x].subs # {})
    <3>1. fwd[x] \in Forwarder /\ watching \subseteq Watchers
      BY <1>0, Zenon DEF StateType
    <3>2. CASE x = n
      BY <3>1, <3>2, Zenon DEF Forwarder, Sinks
    <3>3. CASE x # n /\ evicts /\ x = old.epoch
      BY <3>1, <3>3, Zenon DEF Forwarder
    <3>4. CASE x # n /\ ~ (evicts /\ x = old.epoch)
      BY <3>1, <3>4, Zenon
    <3> QED BY <3>2, <3>3, <3>4, Zenon
  <2> HIDE DEF f
  <2> QED BY <1>3, <2>1, <2>2, Zenon
<1>10. req' \in [Subscribers -> Request] /\ QuietRequests
  <2>1. CASE evicts
    BY <1>0, <1>1, <2>1, AnsweredOK, Zenon
  <2>2. CASE ~ evicts
    BY <1>0, <1>1, <2>2, Zenon DEF StateType, QuietRequests
  <2> QED BY <2>1, <2>2, Zenon
<1>11. StateType'
  BY <1>0, <1>2, <1>8, <1>9, <1>10, ZenonT(60) DEF StateType
<1> HIDE DEF n, old, evicts, up1, v
<1>12. EpochsInUse' /\ OwnHandle' /\ SuspendedKept(n)
  <2>1. n = reg.epoch + 1
    BY Zenon DEF n
  <2>2. \A e \in Epochs : e # n => \/ reg'.gate[e] = reg.gate[e] /\ reg.entry[t].epoch # e
                                   \/ reg'.gate[e] = reg.gate[e] /\ reg.gate[e] # "pending"
                                   \/ reg'.gate[e] = "failed"
    BY <1>7, Zenon DEF old
  <2>3. \A e \in Epochs : e # n => /\ fwd'[e].track \in {fwd[e].track, t}
                                   /\ fwd'[e].subs # {} => fwd[e].subs # {}
                                   /\ up'[e].session = up[e].session
                                   /\ up[e].st = "none" => up'[e].st = "none"
    BY <1>8, <1>9, Zenon
  <2>4. DrawsEpoch(t, n)
    BY <1>3, <1>4, <1>6, <1>8, <1>9, <1>11, <2>1, <2>2, <2>3, ZenonT(30) DEF DrawsEpoch
  <2> QED BY <2>4, NewEpoch, Zenon
<1>13. Firsts'
  BY <1>10, <1>12, SMTT(60) DEF Firsts, QuietRequests, SuspendedKept
<1>14. FirstsDistinct'
  BY <1>10, SMTT(60) DEF IInv, FirstsDistinct, QuietRequests
<1>15. PendingHasFirst'
  <2> SUFFICES ASSUME NEW e \in Epochs, reg'.gate[e] = "pending"
               PROVE  \E q \in Subscribers : req'[q].pc = "upstream" /\ req'[q].epoch = e
    BY Zenon DEF PendingHasFirst
  <2>1. reg.gate[e] = "pending"
    BY <1>6, <1>7, Zenon
  <2>2. PICK q \in Subscribers : req[q].pc = "upstream" /\ req[q].epoch = e
    BY <2>1, Zenon DEF IInv, PendingHasFirst
  <2> QED BY <1>10, <2>2, Zenon DEF QuietRequests
<1>16. Waiters'
  BY <1>10, <1>12, Zenon DEF Waiters, QuietRequests, SuspendedKept
<1> QED BY <1>4, <1>11, <1>12, <1>13, <1>14, <1>15, <1>16, Zenon DEF IInv

\* The first subscriber resumes: the promise it settles is the one only it may
\* settle, so it is set once, and no other promise is touched.
LEMMA ResumeFirstOK ==
  ASSUME IInv, NEW r \in Subscribers, ResumeFirst(r)
  PROVE  IInv'
<1> DEFINE t == req[r].track
           e == req[r].epoch
<1>0. RegistryOK(reg) /\ StateType /\ req[r].pc = "upstream" /\ reg.epoch \in 0 .. MaxEpoch
  BY Zenon DEF IInv, RegistryOK, Registry, ResumeFirst
<1>1. /\ t \in Tracks /\ e \in Epochs /\ e <= reg.epoch /\ e # 0
      /\ reg.entry[t].epoch = e <=> reg.gate[e] = "pending"
  BY <1>0, SMTT(60) DEF IInv, Firsts, Epochs
<1>2. up[e].session \in Publishers
  BY <1>1, Zenon DEF IInv, EpochsInUse
<1>3. UNCHANGED <<fwd, up, watching, route, tree>>
  BY Zenon DEF ResumeFirst
<1>4. /\ RegistryOK(reg') /\ reg'.epoch = reg.epoch
      /\ \A x \in Epochs : x # e => reg'.gate[x] = reg.gate[x]
      /\ reg'.gate[e] # "pending"
      /\ \A u \in Tracks : reg.entry[u].epoch # e => reg'.entry[u] = reg.entry[u]
      /\ \A u \in Tracks : reg.entry[u].epoch = e /\ reg'.entry[u].handle # 0 =>
            reg'.entry[u].handle = e /\ reg'.entry[u].upstream = up[e].session
      /\ \A u \in Tracks : reg'.entry[u].epoch \in {0, reg.entry[u].epoch}
  <2>1. CASE up[e].st = "refused"
    <3>1. reg' = failAndRemove(reg, t, e)
      BY <2>1, Zenon DEF ResumeFirst
    <3>2. RegistryOK(reg') /\ Fades(reg, reg')
      BY <1>0, <1>1, <3>1, FailAndRemoveOK, Zenon
    <3>3. CASE reg.entry[t].epoch # e
      <4>1. reg' = reg
        BY <3>1, <3>3, Zenon DEF failAndRemove
      <4>2. \A u \in Tracks : reg.entry[u].epoch = e /\ reg.entry[u].handle # 0 =>
              reg.entry[u].handle = e /\ reg.entry[u].upstream = up[e].session
        BY Zenon DEF IInv, OwnHandle
      <4> QED BY <1>0, <1>1, <3>3, <4>1, <4>2, Zenon
    <3>4. CASE reg.entry[t].epoch = e
      <4>1. /\ reg.entry \in [Tracks -> Entry]
            /\ reg'.epoch = reg.epoch
            /\ reg'.entry = [reg.entry EXCEPT ![t] = NoEntry]
            /\ reg'.gate = SetGate(reg.gate, e, "failed")
        BY <1>0, <3>1, <3>4, ZenonT(30) DEF failAndRemove, RegistryOK, Registry
      <4>2. \A x \in Epochs : reg'.gate[x] = IF x # e THEN reg.gate[x] ELSE "failed"
        BY <1>1, <3>4, <4>1, SMTT(60) DEF SetGate
      <4>3. /\ \A u \in Tracks : u # t => reg'.entry[u] = reg.entry[u]
            /\ reg'.entry[t].epoch = 0 /\ reg'.entry[t].handle = 0
        BY <1>1, <4>1, SMTT(60) DEF NoEntry
      <4>4. \A u \in Tracks : reg.entry[u].epoch = e => u = t
        BY <1>0, <1>1, <3>4, Zenon DEF RegistryOK, EpochsDistinct, exists
      <4> QED BY <1>1, <3>2, <3>4, <4>1, <4>2, <4>3, <4>4, ZenonT(30)
    <3> QED BY <3>3, <3>4, ZenonT(60)
  <2>2. CASE up[e].st # "refused"
    <3> DEFINE S == completeSubscription(reg, t, e, e, up[e].session)
    <3>1. reg' = S
      BY <2>2, Zenon DEF ResumeFirst
    <3>2. RegistryOK(S) /\ CompletedAs(reg, S, t, e, up[e].session)
      <4>1. reg.entry[t].epoch = e => reg.gate[e] = "pending"
        BY <1>1, Zenon
      <4> HIDE DEF t, e
      <4> QED BY <1>0, <1>1, <1>2, <4>1, CompleteOK, Zenon
    <3> HIDE DEF S
    <3>3. \A u \in Tracks : reg.entry[u].epoch = e /\ S.entry[u].handle # 0 =>
            S.entry[u].handle = e /\ S.entry[u].upstream = up[e].session
      <4> SUFFICES ASSUME NEW u \in Tracks, reg.entry[u].epoch = e, S.entry[u].handle # 0
                   PROVE  S.entry[u].handle = e /\ S.entry[u].upstream = up[e].session
        BY Zenon
      <4>1. CASE reg.entry[t].epoch = e
        <5>1. u = t
          BY <1>0, <1>1, <4>1, Zenon DEF RegistryOK, EpochsDistinct, exists
        <5> QED BY <3>2, <4>1, <5>1, Zenon DEF CompletedAs
      <4>2. CASE reg.entry[t].epoch # e
        BY <3>2, <4>2, SMTT(60) DEF IInv, OwnHandle, CompletedAs
      <4> QED BY <4>1, <4>2, Zenon
    <3> QED BY <1>1, <3>1, <3>2, <3>3, Zenon DEF CompletedAs
  <2> QED BY <2>1, <2>2, ZenonT(30)
<1>5. /\ req' \in [Subscribers -> Request] /\ req'[r].pc \in {"idle", "attached"}
      /\ \A q \in Subscribers : q # r => req'[q] = req[q]
  <2> DEFINE new == IF up[e].st # "refused" /\ Completes(reg, t, e) /\ r \in fwd[e].subs
                    THEN [req[r] EXCEPT !.pc = "attached"] ELSE Idle
  <2>1. req' = [req EXCEPT ![r] = new]
    BY Zenon DEF ResumeFirst
  <2>2. new \in Request /\ new.pc \in {"idle", "attached"}
    <3>1. Idle \in Request /\ Idle.pc = "idle"
      BY RegistryAssumption DEF Idle, Request
    <3>2. [req[r] EXCEPT !.pc = "attached"] \in Request
          /\ [req[r] EXCEPT !.pc = "attached"].pc = "attached"
      BY <1>0, Zenon DEF StateType, Request
    <3> QED BY <3>1, <3>2, Zenon
  <2> HIDE DEF new
  <2> QED BY <1>0, <2>1, <2>2, Zenon DEF StateType
<1>6. StateType'
  BY <1>0, <1>3, <1>5, Zenon DEF StateType
<1>7. EpochsInUse'
  BY <1>3, <1>4, Zenon DEF IInv, EpochsInUse
<1>8. OwnHandle'
  <2> SUFFICES ASSUME NEW u \in Tracks, reg'.entry[u].handle # 0
               PROVE  /\ reg'.entry[u].handle = reg'.entry[u].epoch
                      /\ up'[reg'.entry[u].handle].session = reg'.entry[u].upstream
    BY Zenon DEF OwnHandle
  <2>1. reg'.entry[u].handle = reg'.entry[u].epoch
    BY <1>4, Zenon DEF RegistryOK, HandlesSound
  <2>2. CASE reg.entry[u].epoch = e
    BY <1>3, <1>4, <2>1, <2>2, Zenon
  <2>3. CASE reg.entry[u].epoch # e
    BY <1>3, <1>4, <2>1, <2>3, Zenon DEF IInv, OwnHandle
  <2> QED BY <2>2, <2>3, Zenon
<1>9. \A q \in Subscribers : req'[q].pc = "upstream" =>
        q # r /\ req'[q] = req[q] /\ req[q].epoch # e
  BY <1>0, <1>5, Zenon DEF IInv, FirstsDistinct
<1>10. Firsts'
  <2> SUFFICES ASSUME NEW q \in Subscribers, req'[q].pc = "upstream"
               PROVE  /\ req'[q].track \in Tracks
                      /\ req'[q].epoch \in Epochs
                      /\ req'[q].epoch <= reg'.epoch
                      /\ reg'.entry[req'[q].track].epoch = req'[q].epoch
                           <=> reg'.gate[req'[q].epoch] = "pending"
    BY Zenon DEF Firsts
  <2> DEFINE u == req[q].track
             x == req[q].epoch
  <2>1. req'[q] = req[q] /\ x # e
    BY <1>9, Zenon
  <2>2. /\ u \in Tracks /\ x \in Epochs /\ x <= reg.epoch /\ x # 0
        /\ reg.entry[u].epoch = x <=> reg.gate[x] = "pending"
    BY <2>1, SMTT(60) DEF IInv, Firsts, Epochs
  <2>3. reg'.gate[x] = reg.gate[x]
    BY <1>4, <2>1, <2>2, Zenon
  <2>4. reg'.entry[u].epoch = x <=> reg.entry[u].epoch = x
    BY <1>4, <2>1, <2>2, Zenon
  <2> QED BY <1>4, <2>1, <2>2, <2>3, <2>4, ZenonT(60)
<1>11. FirstsDistinct'
  BY <1>9, SMTT(60) DEF IInv, FirstsDistinct
<1>12. PendingHasFirst'
  <2> SUFFICES ASSUME NEW x \in Epochs, reg'.gate[x] = "pending"
               PROVE  \E q \in Subscribers : req'[q].pc = "upstream" /\ req'[q].epoch = x
    BY Zenon DEF PendingHasFirst
  <2>1. x # e /\ reg.gate[x] = "pending"
    BY <1>4, Zenon
  <2>2. PICK q \in Subscribers : req[q].pc = "upstream" /\ req[q].epoch = x
    BY <2>1, Zenon DEF IInv, PendingHasFirst
  <2> QED BY <1>5, <2>1, <2>2, Zenon
<1>13. Waiters'
  <2> SUFFICES ASSUME NEW q \in Subscribers, req'[q].pc = "waiting"
               PROVE  /\ req'[q].track \in Tracks
                      /\ req'[q].epoch \in Epochs
                      /\ req'[q].epoch <= reg'.epoch
                      /\ reg'.gate[req'[q].epoch] = "pending"
                           => reg'.entry[req'[q].track].epoch = req'[q].epoch
    BY Zenon DEF Waiters
  <2>1. req'[q] = req[q]
    BY <1>5, Zenon
  <2>2. /\ req[q].track \in Tracks /\ req[q].epoch \in Epochs /\ req[q].epoch <= reg.epoch
        /\ reg.gate[req[q].epoch] = "pending" => reg.entry[req[q].track].epoch = req[q].epoch
    BY <2>1, Zenon DEF IInv, Waiters
  <2> QED BY <1>4, <2>1, <2>2, SMTT(60)
<1> QED BY <1>4, <1>6, <1>7, <1>8, <1>10, <1>11, <1>12, <1>13, Zenon DEF IInv

-----------------------------------------------------------------------------
\* The invariant holds at the start.
LEMMA InitOK == Init => IInv
<1> SUFFICES ASSUME Init PROVE IInv
  BY Zenon
<1>1. RegistryOK(reg) /\ reg.epoch = 0
  BY EmptyOK, Zenon DEF Init, EmptyRegistry
<1>2. StateType
  <2>1. [track |-> None, subs |-> {}, draining |-> FALSE] \in Forwarder
    BY Zenon DEF Forwarder
  <2>2. [session |-> None, st |-> "none", cancel |-> FALSE, forward |-> FALSE] \in Upstream
    BY Zenon DEF Upstream, UpstreamStates
  <2>3. Idle \in Request
    BY RegistryAssumption, SMTT(60) DEF Idle, Request
  <2> QED BY <2>1, <2>2, <2>3, Zenon DEF Init, StateType
<1>3. EpochsInUse /\ OwnHandle
  BY <1>1, SMTT(60) DEF Init, EmptyRegistry, NoEntry, EpochsInUse, OwnHandle, Epochs
<1>4. Firsts /\ FirstsDistinct /\ Waiters
  BY Zenon DEF Init, Idle, Firsts, FirstsDistinct, Waiters
<1>5. PendingHasFirst
  BY Zenon DEF Init, EmptyRegistry, PendingHasFirst
<1> QED BY <1>1, <1>2, <1>3, <1>4, <1>5, Zenon DEF IInv

\* Every step keeps the invariant.
LEMMA StepOK == IInv /\ [Next]_vars => IInv'
<1> SUFFICES ASSUME IInv, [Next]_vars PROVE IInv'
  BY Zenon
<1>1. ASSUME NEW r \in Subscribers, NEW t \in Tracks,
             SubscribeFirst(r, t) \/ SubscribeJoin(r, t) \/ SubscribeWait(r, t)
      PROVE  IInv'
  BY <1>1, SubscribeFirstOK, SubscribeJoinOK, SubscribeWaitOK, Zenon
<1>2. ASSUME NEW r \in Subscribers, ResumeWaiter(r) \/ ResumeFirst(r)
      PROVE  IInv'
  BY <1>2, ResumeWaiterOK, ResumeFirstOK, Zenon
<1>3. ASSUME NEW x \in Sinks, NEW e \in Epochs, RemoveSubscriber(x, e)
      PROVE  IInv'
  BY <1>3, RemoveSubscriberOK, Zenon
<1>4. ASSUME NEW s \in Publishers, NEW t \in Tracks, Publish(s, t)
      PROVE  IInv'
  BY <1>4, PublishOK, Zenon
<1>5. ASSUME NEW e \in Epochs, UpstreamAnswers(e) \/ PublisherEnds(e)
                               \/ DeliverPublishDone(e) \/ RunUnsubscribe(e)
      PROVE  IInv'
  BY <1>5, UpstreamAnswersOK, PublisherEndsOK, DeliverPublishDoneOK, RunUnsubscribeOK, Zenon
<1>6. ASSUME \/ \E s \in Publishers : PublishNamespace(s)
             \/ PublishNamespaceDone
             \/ \E w \in Watchers : UnsubscribeNamespace(w)
      PROVE  IInv'
  BY <1>6, NamespaceStepsOK, Zenon
<1>7. ASSUME NEW w \in Watchers, SubscribeNamespace(w)
      PROVE  IInv'
  BY <1>7, SubscribeNamespaceOK, Zenon
<1>8. CASE UNCHANGED vars
  BY <1>8, ZenonT(30) DEF vars, IInv, StateType, EpochsInUse, OwnHandle, Firsts, FirstsDistinct,
              PendingHasFirst, Waiters
<1> QED BY <1>1, <1>2, <1>3, <1>4, <1>5, <1>6, <1>7, <1>8, Zenon DEF Next

\* The inductive invariant holds in every behaviour of the relay.
THEOREM Invariance == Spec => []IInv
  BY InitOK, StepOK, PTL DEF Spec

\* The relay's state stays well typed: epochs are drawn in order and every
\* promise belongs to an epoch that was drawn.
THEOREM TypeCorrect == Spec => []TypeOK
<1>1. IInv => TypeOK
  BY Zenon DEF IInv, RegistryOK, EpochsDrawn, StateType, TypeOK
<1> QED BY <1>1, Invariance, PTL

\* completeSubscription and failAndRemove never set a promise twice, whatever
\* replaced the entry while the first subscriber was suspended, and the
\* XCHECKs of onEmptyImpl and forwardChangedImpl never fire.
THEOREM NeverAborts == Spec => []NoAbort
<1>1. IInv => NoAbort
  BY Zenon DEF IInv, RegistryOK, GatesSound, HandlesSound, NoAbort
<1> QED BY <1>1, Invariance, PTL

\* A subscriber suspended in awaitSubsequent always has a first subscriber that
\* is going to settle its promise.
THEOREM WaitersAreServed == Spec => []WaitersServed
<1>1. IInv => WaitersServed
  BY Zenon DEF IInv, Waiters, PendingHasFirst, WaitersServed
<1> QED BY <1>1, Invariance, PTL

\* No entry ever holds the handle of an upstream subscription other than its
\* own.
THEOREM HandlesAreOwn == Spec => []OwnHandle
<1>1. IInv => OwnHandle
  BY Zenon DEF IInv
<1> QED BY <1>1, Invariance, PTL
-----------------------------------------------------------------------------
(***************************************************************************)
(* The orderly case: what the comments of onEmptyImpl say of the relay,    *)
(* when the sessions run on the relay's own executor and nobody takes over *)
(* a track or a namespace that another session publishes.  Any number of   *)
(* tracks, sessions, subscribers and epochs, with drains of any length.    *)
(***************************************************************************)
Current(R, F, e) == R.entry[F[e].track].epoch = e
On(Q, r, e) == Q[r].pc = "attached" /\ Q[r].epoch = e

\* An epoch that has been drawn: with registry R, forwarders F, upstream
\* subscriptions U and requests Q.  A forwarder drains exactly when its upstream
\* has ended; one with subscribers, and an upstream that still runs, belong to
\* the entry the registry has under the name; a refused upstream leaves its
\* first subscriber behind on the forwarder.
EpochOK(R, F, U, Q, e) ==
    /\ U[e].st \notin {"none", "ending"}
    /\ F[e].draining <=> U[e].st = "ended"
    /\ F[e].subs # {} /\ U[e].st # "refused" => Current(R, F, e)
    /\ U[e].st \in {"asked", "live"} => Current(R, F, e)
    /\ U[e].st = "asked" => R.gate[e] = "pending" /\ U[e].forward
    /\ U[e].st = "live" /\ F[e].subs # {} => U[e].forward
    /\ Current(R, F, e) => U[e].st # "cancelled"
    /\ Current(R, F, e) /\ R.gate[e] = "ready" =>
           U[e].st = "ended" \/ (U[e].st = "live" /\ R.entry[F[e].track].handle = e)
    /\ U[e].st = "refused" /\ ~ Current(R, F, e) => \E x \in F[e].subs \cap Subscribers : ~ On(Q, x, e)

\* The forwarder of an entry is for its track; the first subscriber is on its
\* forwarder until that is drained.
OwnForwarder(R, F) == \A t \in Tracks : exists(R, t) => F[R.entry[t].epoch].track = t

FirstsOn(F, Q) ==
    \A q \in Subscribers : Q[q].pc = "upstream" => F[Q[q].epoch].draining \/ q \in F[Q[q].epoch].subs

OInv ==
    /\ \A e \in Epochs : ~ up[e].cancel
    /\ \A e \in Epochs : e <= reg.epoch => EpochOK(reg, fwd, up, req, e)
    /\ OwnForwarder(reg, fwd)
    /\ FirstsOn(fwd, req)

\* What LastSubscriberLeft says of a step, of one epoch and of all of them.
LeftLastOf(e) == Released(up'[e]) /\ ~ Released(up[e]) => fwd'[e].subs = {} \/ fwd'[e].draining
LeftLast == \A e \in Epochs : LeftLastOf(e)

\* A step leaves alone the epochs it is not about.
LEMMA OtherEpoch ==
    ASSUME NEW R, NEW S, NEW F, NEW G, NEW U, NEW V, NEW Q, NEW P, NEW e, EpochOK(R, F, U, Q, e),
           G[e] = F[e], V[e] = U[e], S.gate[e] = R.gate[e], Current(S, G, e) <=> Current(R, F, e),
           Current(R, F, e) => S.entry[F[e].track].handle = R.entry[F[e].track].handle,
           \A r \in Subscribers : On(P, r, e) => On(Q, r, e)
    PROVE  EpochOK(S, G, V, P, e)
BY Zenon DEF EpochOK

\* The entry of a track that is being served, and its epoch.
LEMMA Serving ==
    ASSUME IInv, OInv, NEW t \in Tracks, exists(reg, t)
    PROVE  LET e == reg.entry[t].epoch IN
           /\ e \in Epochs /\ e <= reg.epoch /\ fwd[e].track = t /\ Current(reg, fwd, e)
           /\ EpochOK(reg, fwd, up, req, e) /\ reg.gate[e] \in {"pending", "ready"}
           /\ reg.entry[t].handle \in {0, e} /\ (reg.entry[t].handle # 0 => reg.gate[e] = "ready")
           /\ reg.gate[e] = "pending" => \E q \in Subscribers : req[q].pc = "upstream" /\ req[q].epoch = e
<1> DEFINE e == reg.entry[t].epoch
<1>1. RegistryOK(reg)
  BY Zenon DEF IInv
<1>2. e \in Epochs /\ e <= reg.epoch
  BY <1>1, HandleIsEpoch, Zenon DEF exists
<1>3. fwd[e].track = t
  BY Zenon DEF OInv, OwnForwarder
<1>4. EpochOK(reg, fwd, up, req, e)
  BY <1>2, Zenon DEF OInv
<1>5. reg.gate[e] \in {"pending", "ready"}
  BY <1>1, Zenon DEF RegistryOK, GatesSound
<1>6. reg.entry[t].handle \in {0, e} /\ (reg.entry[t].handle # 0 => reg.gate[e] = "ready")
  BY <1>1, Zenon DEF RegistryOK, HandlesSound
<1>7. reg.gate[e] = "pending" => \E q \in Subscribers : req[q].pc = "upstream" /\ req[q].epoch = e
  BY <1>2, Zenon DEF IInv, PendingHasFirst
<1>8. Current(reg, fwd, e)
  BY <1>3, Zenon DEF Current
<1> HIDE DEF e
<1> QED BY <1>2, <1>3, <1>4, <1>5, <1>6, <1>7, <1>8, Zenon DEF e

\* A step that changes at most one epoch's forwarder and upstream, at most the
\* entry of that epoch's track and only requests that no longer wait.
LEMMA OneEpoch ==
    ASSUME IInv, OInv, NEW e \in Epochs, e <= reg.epoch, reg'.epoch = reg.epoch,
           \A x \in Epochs \ {e} : fwd'[x] = fwd[x] /\ up'[x] = up[x] /\ reg'.gate[x] = reg.gate[x],
           fwd'[e].track = fwd[e].track, ~ up'[e].cancel,
           \A t \in Tracks : t # fwd[e].track => reg'.entry[t] = reg.entry[t],
           \A t \in Tracks : t = fwd[e].track => \/ reg'.entry[t] = reg.entry[t]
                                                 \/ reg.entry[t].epoch = e /\ reg'.entry[t].epoch \in {0, e},
           \A r \in Subscribers, x \in Epochs \ {e} : On(req', r, x) => On(req, r, x),
           FirstsOn(fwd', req'), EpochOK(reg', fwd', up', req', e), LeftLastOf(e)
    PROVE  OInv' /\ LeftLast
<1>1. ASSUME NEW x \in Epochs \ {e}, x <= reg.epoch
      PROVE  EpochOK(reg', fwd', up', req', x)
  <2>1. EpochOK(reg, fwd, up, req, x) /\ fwd[x].track \in Tracks /\ x # 0
    BY <1>1, RegistryAssumption DEF OInv, IInv, EpochsInUse, Epochs
  <2> DEFINE t == fwd[x].track
  <2>2. reg'.entry[t] = reg.entry[t] \/ (reg.entry[t].epoch # x /\ reg'.entry[t].epoch # x)
    BY <1>1, <2>1, Zenon
  <2>3. fwd'[x] = fwd[x] /\ up'[x] = up[x] /\ reg'.gate[x] = reg.gate[x]
    BY <1>1, Zenon
  <2>4. /\ Current(reg', fwd', x) <=> Current(reg, fwd, x)
        /\ Current(reg, fwd, x) => reg'.entry[fwd[x].track].handle = reg.entry[fwd[x].track].handle
    BY <2>2, <2>3, Zenon DEF Current
  <2> QED BY <1>1, <2>1, <2>3, <2>4, OtherEpoch, Zenon
<1>2. \A x \in Epochs : ~ up'[x].cancel
  BY Zenon DEF OInv
<1>3. OwnForwarder(reg', fwd')
  <2> SUFFICES ASSUME NEW t \in Tracks, exists(reg', t)
               PROVE  fwd'[reg'.entry[t].epoch].track = t
    BY Zenon DEF OwnForwarder
  <2>1. reg'.entry[t].epoch = reg.entry[t].epoch /\ exists(reg, t)
    BY Zenon DEF exists
  <2>2. reg.entry[t].epoch \in Epochs /\ fwd[reg.entry[t].epoch].track = t
    BY <2>1, Serving, Zenon
  <2>3. \A x \in Epochs : fwd'[x].track = fwd[x].track
    BY Zenon
  <2> QED BY <2>1, <2>2, <2>3, Zenon
<1>4. LeftLast
  BY Zenon DEF LeftLast, LeftLastOf
<1> QED BY <1>1, <1>2, <1>3, <1>4, Zenon DEF OInv

\* First subscribers that are still waiting, on forwarders that keep them.
LEMMA FirstsKept ==
    ASSUME IInv, OInv, \A q \in Subscribers : req'[q].pc = "upstream" => req'[q] = req[q],
           \A x \in Epochs : fwd[x].draining => fwd'[x].draining,
           \A x \in Epochs, q \in Subscribers :
               req[q].pc = "upstream" /\ req[q].epoch = x /\ q \in fwd[x].subs
                   => fwd'[x].draining \/ q \in fwd'[x].subs
    PROVE  FirstsOn(fwd', req')
<1>1. \A q \in Subscribers : req[q].pc = "upstream" => req[q].epoch \in Epochs
  BY Zenon DEF IInv, Firsts
<1> QED BY <1>1 DEF OInv, FirstsOn

\* A step of the requests alone.
LEMMA OnlyRequests ==
    ASSUME IInv, OInv, UNCHANGED <<reg, fwd, up>>,
           \A r \in Subscribers : req'[r] # req[r] => req'[r].pc \in {"idle", "waiting"}
    PROVE  OInv' /\ LeftLast
<1>1. FirstsOn(fwd', req')
  BY FirstsKept, Zenon
<1>2. ASSUME NEW e \in Epochs, e <= reg.epoch
      PROVE  EpochOK(reg', fwd', up', req', e)
  <2>1. EpochOK(reg, fwd, up, req, e) /\ \A r \in Subscribers : On(req', r, e) => On(req, r, e)
    BY <1>2, Zenon DEF OInv, On
  <2> QED BY <2>1, OtherEpoch, Zenon
<1>3. OwnForwarder(reg', fwd') /\ \A e \in Epochs : ~ up'[e].cancel
  BY Zenon DEF OInv
<1>4. LeftLast
  BY Zenon DEF LeftLast, LeftLastOf
<1> QED BY <1>1, <1>2, <1>3, <1>4, Zenon DEF OInv

\* attachSubscriber: the first to join an idle forwarder has the objects resumed.
LEMMA AttachOrderly ==
    ASSUME IInv, OInv, NEW r \in Subscribers, NEW t \in Tracks, req[r].pc # "upstream",
           exists(reg, t), Attach(r, t), UNCHANGED reg
    PROVE  OInv' /\ LeftLast
<1> DEFINE e == reg.entry[t].epoch
           u == up[e]
           f == fwd[e]
<1>1. /\ e \in Epochs /\ e <= reg.epoch /\ f.track = t /\ Current(reg, fwd, e)
      /\ EpochOK(reg, fwd, up, req, e) /\ reg.gate[e] \in {"pending", "ready"}
      /\ reg.gate[e] = "pending" => \E q \in Subscribers : req[q].pc = "upstream" /\ req[q].epoch = e
  BY Serving, ZenonT(60)
<1>2. CASE f.draining
  <2>1. UNCHANGED <<reg, fwd, up>> /\ req' = [req EXCEPT ![r] = Idle]
    BY <1>2, Zenon DEF Attach
  <2>2. \A q \in Subscribers : req'[q] # req[q] => req'[q].pc \in {"idle", "waiting"}
    BY <2>1, Zenon DEF IInv, StateType, Idle
  <2> QED BY <2>1, <2>2, OnlyRequests, Zenon
<1>3. CASE ~ f.draining
  <2>1. /\ req' = [req EXCEPT ![r] = [pc |-> "attached", track |-> t, epoch |-> e]]
        /\ fwd' = [fwd EXCEPT ![e].subs = @ \cup {r}]
        /\ up' = IF f.subs = {} THEN ForwardChanged(reg, up, t) ELSE up
    BY <1>3, Zenon DEF Attach
  <2>2. StateType
    BY Zenon DEF IInv
  <2>3. /\ \A x \in Epochs \ {e} : fwd'[x] = fwd[x]
        /\ fwd'[e].track = t /\ fwd'[e].subs = f.subs \cup {r} /\ fwd'[e].draining = f.draining
    <3>1. e \in Epochs /\ f.track = t
      BY <1>1, Zenon
    <3>2. fwd \in [Epochs -> Forwarder]
      BY <2>2, Zenon DEF StateType
    <3>3. fwd' = [fwd EXCEPT ![e].subs = @ \cup {r}]
      BY <2>1, Zenon
    <3> HIDE DEF e
    <3> QED BY <3>1, <3>2, <3>3 DEF Forwarder
  <2>4. \A q \in Subscribers : q # r => req'[q] = req[q]
    BY <2>1, <2>2, Zenon DEF StateType
  <2>5. req'[r].pc = "attached" /\ req'[r].epoch = e
    BY <2>1, <2>2, Zenon DEF StateType
  <2>6. f.subs = {} => u.st = "live" /\ reg.entry[t].handle = e /\ reg.gate[e] = "ready"
    <3>1. f.subs = {} => reg.gate[e] = "ready"
      BY <1>1, <1>3, Zenon DEF OInv, FirstsOn
    <3> QED BY <1>1, <1>3, <3>1, Zenon DEF EpochOK
  <2>7. /\ \A x \in Epochs \ {e} : up'[x] = up[x]
        /\ up'[e].st = u.st /\ up'[e].cancel = u.cancel /\ up'[e].session = u.session
        /\ IF f.subs = {} THEN up'[e].forward ELSE up'[e] = u
    <3>1. CASE f.subs = {}
      <4>1. IsReady(reg, t) /\ e # 0
        BY <1>1, <2>6, <3>1, Zenon DEF IsReady, exists
      <4>2. up' = [up EXCEPT ![e].forward = TRUE]
        BY <2>1, <2>6, <3>1, <4>1, ZenonT(60) DEF ForwardChanged
      <4>3. e \in Epochs
        BY <1>1, Zenon
      <4>4. up \in [Epochs -> Upstream]
        BY <2>2, Zenon DEF StateType
      <4> HIDE DEF e
      <4> QED BY <3>1, <4>2, <4>3, <4>4 DEF Upstream
    <3>2. CASE f.subs # {}
      BY <2>1, <3>2, Zenon
    <3> QED BY <3>1, <3>2, Zenon
  <2>8. FirstsOn(fwd', req')
    BY <2>3, <2>4, <2>5, FirstsKept, Zenon
  <2>9. EpochOK(reg', fwd', up', req', e)
    <3>1. Current(reg', fwd', e)
      BY <2>3, Zenon DEF Current
    <3>2. u.st = "live" => up'[e].forward
      BY <1>1, <2>7, Zenon DEF EpochOK
    <3> HIDE DEF e, u, f
    <3> QED BY <1>1, <2>3, <2>7, <3>1, <3>2, SMTT(30) DEF EpochOK, Current, u, f
  <2>10. \A q \in Subscribers, x \in Epochs \ {e} : On(req', q, x) => On(req, q, x)
    BY <2>4, <2>5, Zenon DEF On
  <2> HIDE DEF e, u, f
  <2>11. ~ up'[e].cancel
    BY <1>1, <2>7, Zenon DEF OInv, u
  <2>12. LeftLastOf(e)
    BY <2>7, Zenon DEF LeftLastOf, Released, u
  <2> QED BY <1>1, <2>3, <2>7, <2>8, <2>9, <2>10, <2>11, <2>12, OneEpoch, Zenon DEF f
<1> QED BY <1>2, <1>3, Zenon
-----------------------------------------------------------------------------
\* A SUBSCRIBE or a PUBLISH of a track that has no entry draws an epoch.
LEMMA DrawnOrderly ==
    ASSUME IInv, OInv, NEW t \in Tracks, NEW n \in Epochs, n = reg.epoch + 1, ~ exists(reg, t),
           reg'.epoch = n, reg'.entry[t].epoch = n, \A u \in Tracks \ {t} : reg'.entry[u] = reg.entry[u],
           \A x \in Epochs \ {n} : fwd'[x] = fwd[x] /\ up'[x] = up[x] /\ reg'.gate[x] = reg.gate[x],
           fwd'[n].track = t, ~ up'[n].cancel,
           \A r \in Subscribers, x \in Epochs : On(req', r, x) => On(req, r, x),
           FirstsOn(fwd', req'), EpochOK(reg', fwd', up', req', n), LeftLastOf(n)
    PROVE  OInv' /\ LeftLast
<1>0. RegistryOK(reg) /\ reg.epoch \in Nat
  BY SMTT(30) DEF IInv, RegistryOK, Registry
<1>1. ASSUME NEW x \in Epochs, x <= reg.epoch
      PROVE  EpochOK(reg', fwd', up', req', x)
  <2>1. EpochOK(reg, fwd, up, req, x) /\ fwd[x].track \in Tracks /\ x # 0 /\ x # n
    BY <1>0, <1>1 DEF OInv, IInv, EpochsInUse, Epochs
  <2>2. fwd'[x] = fwd[x] /\ up'[x] = up[x] /\ reg'.gate[x] = reg.gate[x]
    BY <2>1, Zenon
  <2>3. /\ Current(reg', fwd', x) <=> Current(reg, fwd, x)
        /\ Current(reg, fwd, x) => reg'.entry[fwd[x].track].handle = reg.entry[fwd[x].track].handle
    <3>1. CASE fwd[x].track = t
      BY <2>1, <2>2, <3>1, SMTT(30) DEF Current, exists
    <3>2. CASE fwd[x].track # t
      BY <2>1, <2>2, <3>2, SMTT(30) DEF Current
    <3> QED BY <3>1, <3>2, Zenon
  <2> QED BY <2>1, <2>2, <2>3, OtherEpoch, Zenon
<1>2. \A x \in Epochs : ~ up'[x].cancel
  BY Zenon DEF OInv
<1>3. OwnForwarder(reg', fwd')
  <2> SUFFICES ASSUME NEW u \in Tracks, exists(reg', u), u # t
               PROVE  fwd'[reg'.entry[u].epoch].track = u
    BY ZenonT(60) DEF OwnForwarder
  <2>1. reg'.entry[u] = reg.entry[u] /\ exists(reg, u)
    BY Zenon DEF exists
  <2>2. reg.entry[u].epoch \in Epochs /\ reg.entry[u].epoch <= reg.epoch /\ fwd[reg.entry[u].epoch].track = u
    BY <2>1, Serving, Zenon
  <2>3. reg.entry[u].epoch # n
    BY <1>0, <2>2
  <2> QED BY <2>1, <2>2, <2>3, ZenonT(60)
<1>4. \A x \in Epochs : x <= n => x <= reg.epoch \/ x = n
  BY <1>0 DEF Epochs
<1>5. LeftLast
  BY Zenon DEF LeftLast, LeftLastOf
<1> QED BY <1>1, <1>2, <1>3, <1>4, <1>5, Zenon DEF OInv

\* Epochs in use have first subscribers of their own.
LEMMA FirstsBefore ==
    ASSUME IInv, NEW n, n = reg.epoch + 1, NEW q \in Subscribers, req[q].pc = "upstream"
    PROVE  req[q].epoch \in Epochs \ {n}
<1>1. reg.epoch \in Nat
  BY DEF IInv, RegistryOK, Registry
<1>2. req[q].epoch \in Epochs /\ req[q].epoch <= reg.epoch
  BY Zenon DEF IInv, Firsts
<1> QED BY <1>1, <1>2 DEF Epochs

\* The first SUBSCRIBE of a track: its upstream is asked, with the objects.
LEMMA SubscribeFirstOrderly ==
    ASSUME IInv, OInv, NEW r \in Subscribers, NEW t \in Tracks, SubscribeFirst(r, t)
    PROVE  OInv' /\ LeftLast
<1> DEFINE n == reg.epoch + 1
<1>0. StateType /\ reg \in Registry
  BY Zenon DEF IInv, RegistryOK
<1>1. n \in Epochs /\ ~ exists(reg, t)
  <2>1. reg.epoch \in 0 .. MaxEpoch /\ reg.epoch < MaxEpoch
    BY <1>0, Zenon DEF SubscribeFirst, Registry
  <2>2. ~ exists(reg, t)
    BY Zenon DEF SubscribeFirst
  <2>3. n \in Epochs
    BY <2>1, RegistryAssumption DEF Epochs
  <2> QED BY <2>2, <2>3, ZenonT(60)
<1>2. reg' = CreateFromSubscribe(reg, t)
  BY Zenon DEF SubscribeFirst
<1>3. /\ reg'.epoch = n /\ reg'.entry[t].epoch = n /\ \A u \in Tracks \ {t} : reg'.entry[u] = reg.entry[u]
      /\ reg'.gate[n] = "pending" /\ \A x \in Epochs \ {n} : reg'.gate[x] = reg.gate[x]
  BY <1>0, <1>1, <1>2, Zenon DEF CreateFromSubscribe, Registry
<1>4. /\ fwd' = [fwd EXCEPT ![n] = [track |-> t, subs |-> {r}, draining |-> FALSE]]
      /\ up' = [up EXCEPT ![n] = [session |-> route, st |-> "asked", cancel |-> FALSE, forward |-> TRUE]]
      /\ req' = [req EXCEPT ![r] = [pc |-> "upstream", track |-> t, epoch |-> n]]
      /\ req[r].pc = "idle"
  BY Zenon DEF SubscribeFirst
<1>5. /\ \A x \in Epochs \ {n} : fwd'[x] = fwd[x] /\ up'[x] = up[x]
      /\ fwd'[n].track = t /\ fwd'[n].subs = {r} /\ ~ fwd'[n].draining
      /\ up'[n].st = "asked" /\ ~ up'[n].cancel /\ up'[n].forward
  BY <1>0, <1>1, <1>4, Zenon DEF StateType
<1>6. /\ \A q \in Subscribers \ {r} : req'[q] = req[q]
      /\ req'[r].pc = "upstream" /\ req'[r].epoch = n
  BY <1>0, <1>4, Zenon DEF StateType
<1> HIDE DEF n
<1>7. FirstsOn(fwd', req')
  <2> SUFFICES ASSUME NEW q \in Subscribers, req'[q].pc = "upstream"
               PROVE  fwd'[req'[q].epoch].draining \/ q \in fwd'[req'[q].epoch].subs
    BY Zenon DEF FirstsOn
  <2>1. CASE q = r
    BY <1>5, <1>6, <2>1, Zenon
  <2>2. CASE q # r
    <3>1. req'[q] = req[q] /\ req[q].epoch \in Epochs \ {n}
      BY <1>6, <2>2, FirstsBefore, Zenon DEF n
    <3> QED BY <1>5, <3>1 DEF OInv, FirstsOn
  <2> QED BY <2>1, <2>2, Zenon
<1>8. EpochOK(reg', fwd', up', req', n)
  BY <1>3, <1>5, Zenon DEF EpochOK, Current
<1>9. \A q \in Subscribers, x \in Epochs : On(req', q, x) => On(req, q, x)
  BY <1>6, Zenon DEF On
<1>10. n = reg.epoch + 1
  BY Zenon DEF n
<1>11. \A x \in Epochs \ {n} : fwd'[x] = fwd[x] /\ up'[x] = up[x] /\ reg'.gate[x] = reg.gate[x]
  BY <1>3, <1>5, Zenon
<1>12. /\ reg'.epoch = n /\ reg'.entry[t].epoch = n /\ \A u \in Tracks \ {t} : reg'.entry[u] = reg.entry[u]
       /\ fwd'[n].track = t /\ ~ up'[n].cancel
  BY <1>3, <1>5, Zenon
<1>13. LeftLastOf(n)
  BY <1>5, Zenon DEF LeftLastOf, Released
<1> QED BY <1>1, <1>7, <1>8, <1>9, <1>10, <1>11, <1>12, <1>13, DrawnOrderly, Zenon

\* A PUBLISH of a track nobody serves.
LEMMA PublishOrderly ==
    ASSUME ~ Takeover, IInv, OInv, NEW s \in Publishers, NEW t \in Tracks, Publish(s, t)
    PROVE  OInv' /\ LeftLast
<1> DEFINE n == reg.epoch + 1
<1>0. StateType /\ reg \in Registry /\ RegistryOK(reg)
  BY Zenon DEF IInv, RegistryOK
<1>1. n \in Epochs /\ ~ exists(reg, t)
  <2>1. reg.epoch \in 0 .. MaxEpoch /\ reg.epoch < MaxEpoch
    BY <1>0, Zenon DEF Publish, Registry
  <2>2. ~ exists(reg, t)
    BY Zenon DEF Publish
  <2>3. n \in Epochs
    BY <2>1, RegistryAssumption DEF Epochs
  <2> QED BY <2>2, <2>3, Zenon
<1>2. reg.entry[t].epoch = 0 /\ reg.entry[t].handle = 0
  BY <1>0, <1>1, Zenon DEF exists, RegistryOK, HandlesSound
<1>3. reg' = createFromPublish(reg, t, s)
  BY <1>0, PublishEffect, Zenon
<1>4. /\ reg'.epoch = n /\ reg'.entry[t].epoch = n /\ reg'.entry[t].handle = n
      /\ \A u \in Tracks \ {t} : reg'.entry[u] = reg.entry[u]
  BY <1>0, <1>1, <1>3, Zenon DEF createFromPublish, Registry
<1>5. reg'.gate[n] = "ready" /\ \A x \in Epochs \ {n} : reg'.gate[x] = reg.gate[x]
  <2>1. BreakGate(reg.gate, 0) = reg.gate
    BY <1>0, RegistryAssumption DEF BreakGate, Registry, Epochs
  <2> QED BY <1>0, <1>1, <1>2, <1>3, <2>1, Zenon DEF createFromPublish, Registry
<1>6. /\ fwd' = [x \in Epochs |-> IF x = n THEN [track |-> t, subs |-> watching, draining |-> FALSE] ELSE fwd[x]]
      /\ req' = req
      /\ up' = [up EXCEPT ![n] = [session |-> s, st |-> "live", cancel |-> FALSE, forward |-> watching # {}]]
  <2>1. fwd' = [x \in Epochs |-> IF x = n THEN [track |-> t, subs |-> watching, draining |-> FALSE] ELSE fwd[x]]
        /\ req' = req
    BY <1>2, Zenon DEF Publish
  <2>2. up' = [up EXCEPT ![n] = [session |-> s, st |-> "live", cancel |-> FALSE, forward |-> watching # {}]]
    BY <1>0, <1>2, PublishEffect, Zenon
  <2> QED BY <2>1, <2>2, Zenon
<1>7. /\ \A x \in Epochs \ {n} : fwd'[x] = fwd[x] /\ up'[x] = up[x]
      /\ fwd'[n].track = t /\ fwd'[n].subs = watching /\ ~ fwd'[n].draining
      /\ up'[n].st = "live" /\ ~ up'[n].cancel /\ up'[n].forward = (watching # {})
  BY <1>0, <1>1, <1>6, Zenon DEF StateType
<1> HIDE DEF n
<1>8. FirstsOn(fwd', req')
  <2> SUFFICES ASSUME NEW q \in Subscribers, req[q].pc = "upstream"
               PROVE  fwd'[req[q].epoch].draining \/ q \in fwd'[req[q].epoch].subs
    BY <1>6, Zenon DEF FirstsOn
  <2>1. req[q].epoch \in Epochs \ {n}
    BY FirstsBefore, Zenon DEF n
  <2> QED BY <1>7, <2>1, Zenon DEF OInv, FirstsOn
<1>9. EpochOK(reg', fwd', up', req', n)
  BY <1>4, <1>7, Zenon DEF EpochOK, Current
<1>10. n = reg.epoch + 1 /\ \A q \in Subscribers, x \in Epochs : On(req', q, x) => On(req, q, x)
  BY <1>6, Zenon DEF n
<1>11. LeftLastOf(n)
  BY <1>7, Zenon DEF LeftLastOf, Released
<1> QED BY <1>1, <1>4, <1>5, <1>7, <1>8, <1>9, <1>10, <1>11, DrawnOrderly, Zenon

\* Later subscribers join the forwarder there is, at once or after the promise.
LEMMA WaitersOrderly ==
    ASSUME IInv, OInv, NEW r \in Subscribers,
           \/ \E t \in Tracks : SubscribeJoin(r, t) \/ SubscribeWait(r, t)
           \/ ResumeWaiter(r)
    PROVE  OInv' /\ LeftLast
<1>1. ASSUME NEW t \in Tracks, SubscribeJoin(r, t)
      PROVE  OInv' /\ LeftLast
  <2>1. exists(reg, t) /\ req[r].pc # "upstream" /\ Attach(r, t) /\ UNCHANGED reg
    BY <1>1 DEF SubscribeJoin, IsReady, exists, Epochs
  <2> QED BY <2>1, AttachOrderly, Zenon
<1>2. ASSUME NEW t \in Tracks, SubscribeWait(r, t)
      PROVE  OInv' /\ LeftLast
  <2>1. UNCHANGED <<reg, fwd, up>>
    BY <1>2, Zenon DEF SubscribeWait
  <2>2. req' = [req EXCEPT ![r] = [pc |-> "waiting", track |-> t, epoch |-> reg.entry[t].epoch]]
    BY <1>2, Zenon DEF SubscribeWait
  <2>3. \A q \in Subscribers : req'[q] # req[q] => req'[q].pc \in {"idle", "waiting"}
    BY <2>2, Zenon DEF IInv, StateType
  <2> QED BY <2>1, <2>3, OnlyRequests, Zenon
<1>3. ASSUME ResumeWaiter(r)
      PROVE  OInv' /\ LeftLast
  <2> DEFINE t == req[r].track
  <2>1. t \in Tracks /\ req[r].pc # "upstream" /\ UNCHANGED reg
    BY <1>3, Zenon DEF ResumeWaiter, IInv, Waiters
  <2>2. CASE reg.gate[req[r].epoch] = "ready" /\ exists(reg, t)
    BY <1>3, <2>1, <2>2, AttachOrderly, ZenonT(60) DEF ResumeWaiter
  <2>3. CASE ~ (reg.gate[req[r].epoch] = "ready" /\ exists(reg, t))
    <3>1. req' = [req EXCEPT ![r] = Idle] /\ UNCHANGED <<reg, fwd, up>>
      BY <1>3, <2>3, Zenon DEF ResumeWaiter
    <3>2. \A q \in Subscribers : req'[q] # req[q] => req'[q].pc \in {"idle", "waiting"}
      BY <3>1, Zenon DEF IInv, StateType, Idle
    <3> QED BY <3>1, <3>2, OnlyRequests, Zenon
  <2> QED BY <2>2, <2>3, Zenon
<1> QED BY <1>1, <1>2, <1>3, Zenon

\* The answer to the upstream SUBSCRIBE, not yet seen by subscribeImpl.
LEMMA UpstreamAnswersOrderly ==
    ASSUME IInv, OInv, NEW e \in Epochs, UpstreamAnswers(e)
    PROVE  OInv' /\ LeftLast
<1>1. up[e].st = "asked" /\ UNCHANGED <<reg, fwd, req>> /\ StateType
  BY Zenon DEF UpstreamAnswers, IInv
<1>2. PICK st \in {"live", "refused"} : up' = [up EXCEPT ![e].st = st]
  BY Zenon DEF UpstreamAnswers
<1>3. /\ \A x \in Epochs \ {e} : up'[x] = up[x]
      /\ up'[e].st = st /\ up'[e].cancel = up[e].cancel /\ up'[e].forward = up[e].forward
  BY <1>1, <1>2 DEF StateType, Upstream
<1>4. e <= reg.epoch
  BY <1>1 DEF IInv, EpochsInUse, RegistryOK, Registry, Epochs
<1>5. EpochOK(reg, fwd, up, req, e)
  BY <1>4, Zenon DEF OInv
<1>6. EpochOK(reg', fwd', up', req', e)
  BY <1>1, <1>3, <1>5, Zenon DEF EpochOK, Current
<1>7. FirstsOn(fwd', req') /\ ~ up'[e].cancel
  BY <1>1, <1>3, Zenon DEF OInv
<1>8. LeftLastOf(e)
  BY <1>3, Zenon DEF LeftLastOf, Released
<1> QED BY <1>1, <1>3, <1>4, <1>6, <1>7, <1>8, OneEpoch, ZenonT(60)

\* The rest of the first subscriber's subscribeImpl: the entry completes with the
\* handle of its own upstream, or fails and goes.
LEMMA ResumeFirstOrderly ==
    ASSUME IInv, OInv, NEW r \in Subscribers, ResumeFirst(r)
    PROVE  OInv' /\ LeftLast
<1> DEFINE t == req[r].track
           e == req[r].epoch
<1>1. /\ t \in Tracks /\ e \in Epochs /\ e <= reg.epoch /\ UNCHANGED <<fwd, up>>
      /\ req[r].pc = "upstream" /\ up[e].st # "asked" /\ StateType /\ reg \in Registry
  BY Zenon DEF IInv, Firsts, ResumeFirst, RegistryOK
<1>2. EpochOK(reg, fwd, up, req, e) /\ (fwd[e].draining \/ r \in fwd[e].subs) /\ ~ up[e].cancel
  BY <1>1, Zenon DEF OInv, FirstsOn
<1>3. req' \in [Subscribers -> Request] /\ (req'[r].pc \in {"idle", "attached"}) /\ (req'[r].pc = "attached" => req'[r].epoch = e)
      /\ \A q \in Subscribers \ {r} : req'[q] = req[q]
  <2>1. /\ req' \in [Subscribers -> Request] /\ \A q \in Subscribers \ {r} : req'[q] = req[q]
        /\ \/ req'[r] = Idle
           \/ req'[r] = [req[r] EXCEPT !.pc = "attached"]
    <3>1. Idle \in Request /\ [req[r] EXCEPT !.pc = "attached"] \in Request
      BY <1>1, RegistryAssumption DEF StateType, Idle, Request
    <3>2. PICK p \in {Idle, [req[r] EXCEPT !.pc = "attached"]} : req' = [req EXCEPT ![r] = p]
      BY Zenon DEF ResumeFirst
    <3> QED BY <1>1, <3>1, <3>2, Zenon DEF StateType
  <2>2. [req[r] EXCEPT !.pc = "attached"].pc = "attached" /\ [req[r] EXCEPT !.pc = "attached"].epoch = e
    BY <1>1, Zenon DEF StateType, Request
  <2>3. Idle.pc = "idle"
    BY Zenon DEF Idle
  <2> QED BY <2>1, <2>2, <2>3, ZenonT(60)
<1>4. FirstsOn(fwd', req')
  BY <1>1, <1>3, FirstsKept, Zenon
<1>5. \A q \in Subscribers, x \in Epochs \ {e} : On(req', q, x) => On(req, q, x)
  BY <1>3, Zenon DEF On
<1>left. LeftLastOf(e)
  BY <1>1, Zenon DEF LeftLastOf
<1>6. CASE reg.entry[t].epoch # e
  <2>1. reg' = reg
    BY <1>6, Zenon DEF ResumeFirst, failAndRemove, completeSubscription, Completes
  <2>2. EpochOK(reg', fwd', up', req', e)
    <3>1. \A q \in Subscribers : up[e].st = "refused" => (On(req', q, e) => On(req, q, e))
      <4>1. up[e].st = "refused" => req'[r] = Idle
        BY <1>1, Zenon DEF ResumeFirst, StateType
      <4> QED BY <1>3, <4>1 DEF On, Idle
    <3> HIDE DEF e, t
    <3> QED BY <1>1, <1>2, <2>1, <3>1, Zenon DEF EpochOK, Current
  <2> HIDE DEF e, t
  <2> QED BY <1>1, <1>2, <1>4, <1>5, <1>left, <2>1, <2>2, OneEpoch, Zenon
<1>7. CASE reg.entry[t].epoch = e
  <2>1. exists(reg, t) /\ fwd[e].track = t /\ Current(reg, fwd, e)
    <3>1. exists(reg, t)
      BY <1>1, <1>7 DEF exists, Epochs
    <3> QED BY <1>1, <1>7, <3>1, Serving, ZenonT(60)
  <2>2. CASE up[e].st = "refused"
    <3>1. reg' = failAndRemove(reg, t, e) /\ req' = [req EXCEPT ![r] = Idle]
      BY <2>2, Zenon DEF ResumeFirst
    <3>2. /\ reg'.epoch = reg.epoch /\ reg'.entry[t].epoch = 0
          /\ \A u \in Tracks : u # t => reg'.entry[u] = reg.entry[u]
      BY <1>1, <1>7, <3>1, Zenon DEF failAndRemove, Registry, NoEntry
    <3>3. \A x \in Epochs \ {e} : reg'.gate[x] = reg.gate[x]
      BY <1>1, <1>7, <3>1, Zenon DEF failAndRemove, SetGate, Registry
    <3>4. ~ On(req', r, e)
      BY <1>1, <3>1, Zenon DEF On, Idle, StateType
    <3>5. EpochOK(reg', fwd', up', req', e)
      <4>1. r \in fwd[e].subs /\ ~ fwd[e].draining
        BY <1>2, <2>2, Zenon DEF EpochOK
      <4>2. ~ Current(reg', fwd', e)
        BY <1>1, <2>1, <3>2, SMTT(30) DEF Current, Epochs
      <4> HIDE DEF e, t
      <4> QED BY <1>1, <1>2, <2>2, <3>4, <4>1, <4>2, Zenon DEF EpochOK
    <3> HIDE DEF e, t
    <3> QED BY <1>1, <1>2, <1>4, <1>5, <1>left, <1>7, <2>1, <3>2, <3>3, <3>5, OneEpoch
  <2>3. CASE up[e].st # "refused"
    <3>1. reg' = completeSubscription(reg, t, e, e, up[e].session)
      BY <2>3, Zenon DEF ResumeFirst
    <3>2. /\ reg'.epoch = reg.epoch /\ reg'.entry[t].epoch = e /\ reg'.entry[t].handle = e
          /\ \A u \in Tracks : u # t => reg'.entry[u] = reg.entry[u]
      BY <1>1, <1>7, <3>1, Zenon DEF completeSubscription, Completes, Registry
    <3>3. \A x \in Epochs \ {e} : reg'.gate[x] = reg.gate[x]
      BY <1>1, <1>7, <3>1, Zenon DEF completeSubscription, Completes, SetGate, Registry
    <3>4. EpochOK(reg', fwd', up', req', e)
      <4>1. Current(reg', fwd', e)
        BY <1>1, <2>1, <3>2, Zenon DEF Current
      <4>2. up[e].st \in {"live", "ended"}
        BY <1>1, <1>2, <2>1, <2>3, ZenonT(60) DEF StateType, Upstream, UpstreamStates, EpochOK
      <4> HIDE DEF e, t
      <4> QED BY <1>1, <1>2, <2>1, <3>2, <4>1, <4>2, Zenon DEF EpochOK
    <3> HIDE DEF e, t
    <3> QED BY <1>1, <1>2, <1>4, <1>5, <1>left, <1>7, <2>1, <3>2, <3>3, <3>4, OneEpoch, ZenonT(60)
  <2> QED BY <2>2, <2>3, Zenon
<1> QED BY <1>6, <1>7, Zenon

\* Requests answered because their subscribers left a forwarder.
LEMMA AnsweredOrderly ==
    ASSUME IInv, NEW D, NEW e
    PROVE  /\ \A q \in Subscribers : Answered(D, e)[q].pc = "upstream" => Answered(D, e)[q] = req[q]
           /\ \A q \in Subscribers, x \in Epochs : On(Answered(D, e), q, x) => On(req, q, x)
<1>1. \A q \in Subscribers : Answered(D, e)[q] \in {Idle, req[q]}
  BY Zenon DEF Answered
<1>2. Idle.pc = "idle"
  BY Zenon DEF Idle
<1> QED BY <1>1, <1>2, Zenon DEF On

\* Erasing the entry of track t.
LEMMA RemovedEntry ==
    ASSUME NEW R \in Registry, NEW t \in Tracks
    PROVE  /\ remove(R, t).epoch = R.epoch /\ remove(R, t).entry[t] = NoEntry
           /\ \A u \in Tracks \ {t} : remove(R, t).entry[u] = R.entry[u]
           /\ \A x \in Epochs : x # R.entry[t].epoch => remove(R, t).gate[x] = R.gate[x]
BY Zenon DEF remove, BreakGate, Registry

\* A subscriber leaves, and the last one has the track released.
LEMMA RemoveSubscriberOrderly ==
    ASSUME ~ Hop, IInv, OInv, NEW x \in Sinks, NEW e \in Epochs, RemoveSubscriber(x, e)
    PROVE  OInv' /\ LeftLast
<1> DEFINE t == fwd[e].track
           f == fwd[e]
<1>0. StateType /\ reg \in Registry /\ RegistryOK(reg)
  BY Zenon DEF IInv, RegistryOK
<1>1. /\ x \in f.subs
      /\ f.draining \/ x \in Watchers \/ (x \in Subscribers /\ On(req, x, e))
      /\ fwd' = [fwd EXCEPT ![e].subs = @ \ {x}]
      /\ req' = Answered({x}, e)
  BY Zenon DEF RemoveSubscriber, On
<1>2. e <= reg.epoch /\ t \in Tracks
  BY <1>0, <1>1 DEF IInv, EpochsInUse, Registry, Epochs
<1>3. EpochOK(reg, fwd, up, req, e) /\ ~ up[e].cancel
  BY <1>2, Zenon DEF OInv
<1>4. /\ \A y \in Epochs \ {e} : fwd'[y] = fwd[y]
      /\ fwd'[e].track = t /\ fwd'[e].subs = f.subs \ {x} /\ fwd'[e].draining = f.draining
  BY <1>0, <1>1 DEF StateType, Forwarder
<1>5. \A q \in Subscribers, y \in Epochs : On(req', q, y) => On(req, q, y)
  BY <1>1, AnsweredOrderly, Zenon
<1>6. \A q \in Subscribers : req[q].pc = "upstream" => q # x \/ f.draining
  BY <1>1, RelayAssumption, Zenon DEF On
<1>7. FirstsOn(fwd', req')
  <2>1. \A q \in Subscribers : req'[q].pc = "upstream" => req'[q] = req[q]
    BY <1>1, AnsweredOrderly
  <2>2. \A y \in Epochs, q \in Subscribers :
           req[q].pc = "upstream" /\ req[q].epoch = y /\ q \in fwd[y].subs
               => fwd'[y].draining \/ q \in fwd'[y].subs
    BY <1>4, <1>6, Zenon
  <2>3. \A y \in Epochs : fwd[y].draining => fwd'[y].draining
    BY <1>4, Zenon
  <2> QED BY <2>1, <2>2, <2>3, FirstsKept, Zenon
<1>8. CASE ~ LeavesEmpty(e, {x})
  <2>1. UNCHANGED <<reg, up>> /\ fwd'[e].subs # {}
    BY <1>1, <1>4, <1>8, Zenon DEF RemoveSubscriber, LeavesEmpty
  <2>2. Current(reg', fwd', e) <=> Current(reg, fwd, e)
    BY <1>4, <2>1, Zenon DEF Current
  <2>3. up[e].st = "refused" /\ ~ Current(reg, fwd, e)
           => \E y \in fwd'[e].subs \cap Subscribers : ~ On(req', y, e)
    <3> SUFFICES ASSUME up[e].st = "refused", ~ Current(reg, fwd, e)
                 PROVE  \E y \in fwd'[e].subs \cap Subscribers : ~ On(req', y, e)
      BY Zenon
    <3>1. PICK y \in f.subs \cap Subscribers : ~ On(req, y, e)
      BY <1>3, Zenon DEF EpochOK
    <3>2. ~ f.draining
      BY <1>3, Zenon DEF EpochOK
    <3>3. y # x
      BY <1>1, <3>1, <3>2, RelayAssumption, Zenon
    <3>4. y \in fwd'[e].subs
      BY <1>4, <3>1, <3>3, Zenon
    <3>5. ~ On(req', y, e)
      BY <1>5, <3>1, Zenon
    <3> QED BY <3>1, <3>4, <3>5, Zenon
  <2>4. EpochOK(reg', fwd', up', req', e)
    <3> HIDE DEF t
    <3>1. f.subs # {}
      BY <1>1, Zenon
    <3> QED BY <1>3, <1>4, <2>1, <2>2, <2>3, <3>1, Zenon DEF EpochOK, t
  <2>5. LeftLastOf(e)
    BY <2>1, Zenon DEF LeftLastOf
  <2> QED BY <1>2, <1>3, <1>4, <1>5, <1>7, <2>1, <2>4, <2>5, OneEpoch, Zenon
<1>9. CASE LeavesEmpty(e, {x})
  <2>1. f.subs = {x} /\ fwd'[e].subs = {}
    BY <1>1, <1>4, <1>9, Zenon DEF LeavesEmpty
  <2>2. reg' = OnEmptyRegistry(reg, t) /\ up' = OnEmptyUpstream(reg, up, t)
    BY <1>9, Zenon DEF RemoveSubscriber
  <2>left. LeftLastOf(e)
    BY <2>1, Zenon DEF LeftLastOf
  <2>3. (up[e].st = "refused" => Current(reg, fwd, e)) /\ Current(reg, fwd, e)
    <3>1. ASSUME up[e].st = "refused", ~ Current(reg, fwd, e)
          PROVE  FALSE
      <4>1. PICK y \in f.subs \cap Subscribers : ~ On(req, y, e)
        BY <1>3, <3>1, Zenon DEF EpochOK
      <4>2. ~ f.draining
        BY <1>3, <3>1, Zenon DEF EpochOK
      <4> QED BY <1>1, <2>1, <4>1, <4>2, RelayAssumption, Zenon
    <3> QED BY <1>3, <2>1, <3>1, Zenon DEF EpochOK
  <2>4. exists(reg, t) /\ reg.entry[t].epoch = e
    BY <2>3, SMTT(30) DEF Current, exists, Epochs
  <2>5. /\ reg.gate[e] \in {"pending", "ready"}
        /\ reg.entry[t].handle \in {0, e} /\ (reg.entry[t].handle # 0 => reg.gate[e] = "ready")
        /\ reg.gate[e] = "pending" => \E q \in Subscribers : req[q].pc = "upstream" /\ req[q].epoch = e
    <3>1. t \in Tracks /\ exists(reg, t)
      BY <1>2, <2>4, Zenon
    <3> HIDE DEF t, f
    <3> QED BY <2>4, <3>1, Serving, ZenonT(60)
  <2>6. reg.gate[e] = "pending" => f.draining
    <3> SUFFICES ASSUME reg.gate[e] = "pending"
                 PROVE  f.draining
      BY Zenon
    <3>1. PICK q \in Subscribers : req[q].pc = "upstream" /\ req[q].epoch = e
      BY <2>5, Zenon
    <3> QED BY <1>6, <2>1, <3>1, Zenon DEF OInv, FirstsOn
  <2>7. up[e].st = "ended" \/ (up[e].st = "live" /\ reg.entry[t].handle = e)
    BY <1>3, <2>3, <2>5, <2>6, Zenon DEF EpochOK
  <2>8. CASE reg.entry[t].handle # 0 /\ reg.entry[t].isPublish
    <3>1. reg' = reg /\ up' = [up EXCEPT ![e].forward = FALSE]
      BY <2>2, <2>5, <2>8, Zenon DEF OnEmptyRegistry, OnEmptyUpstream
    <3> HIDE DEF t, f
    <3>2. /\ \A y \in Epochs \ {e} : up'[y] = up[y]
          /\ up'[e].st = up[e].st /\ ~ up'[e].cancel
      BY <1>0, <1>3, <3>1 DEF StateType, Upstream
    <3>3. Current(reg', fwd', e)
      BY <1>4, <2>3, <3>1, Zenon DEF Current, t
    <3>4. EpochOK(reg', fwd', up', req', e)
      BY <1>3, <1>4, <2>1, <2>7, <3>1, <3>2, <3>3, <2>5, <2>8, SMTT(30) DEF EpochOK, t, f
    <3> QED BY <1>2, <1>4, <1>5, <1>7, <2>left, <3>1, <3>2, <3>4, OneEpoch, Zenon DEF t
  <2>9. CASE ~ (reg.entry[t].handle # 0 /\ reg.entry[t].isPublish)
    <3>1. reg' = remove(reg, t)
      BY <2>2, <2>9, Zenon DEF OnEmptyRegistry
    <3>2. /\ \A y \in Epochs \ {e} : up'[y] = up[y]
          /\ up'[e].st = (IF up[e].st = "live" THEN "cancelled" ELSE up[e].st) /\ ~ up'[e].cancel
      <4>1. CASE reg.entry[t].handle = 0
        <5>1. up' = up
          BY <2>2, <4>1, Zenon DEF OnEmptyUpstream
        <5>2. up[e].st = "ended"
          BY <2>7, <4>1 DEF Epochs
        <5> QED BY <1>3, <5>1, <5>2, Zenon
      <4>2. CASE reg.entry[t].handle # 0
        <5>1. up' = unsubscribe(up, e)
          BY <2>2, <2>5, <2>9, <4>2, ZenonT(60) DEF OnEmptyUpstream
        <5> HIDE DEF t, f
        <5> QED BY <1>0, <5>1, RelayAssumption, SMTT(30) DEF unsubscribe, StateType, Upstream
      <4> QED BY <4>1, <4>2, Zenon
    <3>3. /\ reg'.epoch = reg.epoch /\ reg'.entry[t] = NoEntry
          /\ \A u \in Tracks \ {t} : reg'.entry[u] = reg.entry[u]
          /\ \A y \in Epochs \ {e} : reg'.gate[y] = reg.gate[y]
      BY <1>0, <1>2, <2>4, <3>1, RemovedEntry, SMTT(30)
    <3>4. reg'.entry[t].epoch = 0
      BY <3>3 DEF NoEntry
    <3> HIDE DEF t, f
    <3>5. ~ Current(reg', fwd', e)
      BY <1>4, <3>4, SMTT(30) DEF Current, Epochs, t
    <3>6. EpochOK(reg', fwd', up', req', e)
      BY <1>3, <1>4, <2>1, <2>7, <3>2, <3>5, ZenonT(60) DEF EpochOK, f
    <3> QED BY <1>2, <1>4, <1>5, <1>7, <2>4, <2>left, <3>2, <3>3, <3>4, <3>6, OneEpoch, Zenon DEF t
  <2> QED BY <2>8, <2>9, Zenon
<1> QED BY <1>8, <1>9, Zenon
-----------------------------------------------------------------------------
\* onPublishDone of an upstream subscription that is live: the entry is the
\* subscription's own, and goes at once when nobody is left to be drained.
LEMMA PublisherEndsOrderly ==
    ASSUME ~ Hop, IInv, OInv, NEW e \in Epochs, PublisherEnds(e)
    PROVE  OInv' /\ LeftLast
<1> DEFINE t == fwd[e].track
           f == fwd[e]
           empty == exists(reg, t) /\ \E c \in Epochs : c = reg.entry[t].epoch /\ fwd[c].subs = {}
           reg1 == onPublisherTerminated(reg, t, empty)
<1>0. StateType /\ reg \in Registry /\ RegistryOK(reg)
  BY Zenon DEF IInv, RegistryOK
<1>1. up[e].st = "live" /\ PublishDoneHandler(e)
  BY Zenon DEF PublisherEnds
<1>2. e <= reg.epoch /\ t \in Tracks
  BY <1>0, <1>1, SMTT(30) DEF IInv, EpochsInUse, Registry, Epochs
<1>3. EpochOK(reg, fwd, up, req, e) /\ ~ up[e].cancel /\ Current(reg, fwd, e)
  BY <1>1, <1>2, Zenon DEF OInv, EpochOK
<1>4. exists(reg, t) /\ reg.entry[t].epoch = e
  BY <1>3, SMTT(30) DEF Current, exists, Epochs
<1>5. PICK D :
        /\ fwd' = [fwd EXCEPT ![e] = [track |-> t, subs |-> @.subs \ D, draining |-> TRUE]]
        /\ req' = Answered(D, e)
        /\ reg' = IF LeavesEmpty(e, D) THEN OnEmptyRegistry(reg1, t) ELSE reg1
        /\ up' = [(IF LeavesEmpty(e, D) THEN OnEmptyUpstream(reg1, up, t) ELSE up)
                    EXCEPT ![e].st = "ended"]
  BY <1>1, Zenon DEF PublishDoneHandler
<1>6. empty <=> f.subs = {}
  BY <1>4, Zenon
<1>7. f.subs # {} => /\ reg1.epoch = reg.epoch /\ reg1.entry[t].handle = 0 /\ reg1.entry[t].epoch = e
                     /\ \A u \in Tracks \ {t} : reg1.entry[u] = reg.entry[u]
                     /\ reg1.gate = reg.gate
  <2> SUFFICES ASSUME f.subs # {}
               PROVE  /\ reg1.epoch = reg.epoch /\ reg1.entry[t].handle = 0 /\ reg1.entry[t].epoch = e
                      /\ \A u \in Tracks \ {t} : reg1.entry[u] = reg.entry[u]
                      /\ reg1.gate = reg.gate
    BY ZenonT(60)
  <2>1. ~ empty
    BY <1>6, Zenon
  <2> HIDE DEF t, f, empty
  <2>2. reg1 = [entry |-> [reg.entry EXCEPT ![t] = [epoch |-> reg.entry[t].epoch, upstream |-> None,
                                                   handle |-> 0, isPublish |-> reg.entry[t].isPublish]],
                epoch |-> reg.epoch, gate |-> reg.gate]
    BY <1>4, <2>1, Zenon DEF onPublisherTerminated
  <2> HIDE DEF reg1
  <2> QED BY <1>0, <1>2, <1>4, <2>2, Zenon DEF Registry
<1>8. reg1 \in Registry
  BY <1>0, <1>2, TerminatedOK, ZenonT(60) DEF RegistryOK
<1>9. up' = [up EXCEPT ![e].st = "ended"]
  BY <1>5, <1>7, Zenon DEF LeavesEmpty, OnEmptyUpstream
<1>10. /\ \A x \in Epochs \ {e} : fwd'[x] = fwd[x] /\ up'[x] = up[x]
       /\ fwd'[e].track = t /\ fwd'[e].subs = f.subs \ D /\ fwd'[e].draining
       /\ up'[e].st = "ended" /\ ~ up'[e].cancel
  <2> HIDE DEF reg1, empty
  <2>1. fwd' = [fwd EXCEPT ![e] = [track |-> t, subs |-> f.subs \ D, draining |-> TRUE]]
    BY <1>5, Zenon
  <2> HIDE DEF t, f
  <2>2. /\ \A x \in Epochs \ {e} : fwd'[x] = fwd[x]
        /\ fwd'[e].track = t /\ fwd'[e].subs = f.subs \ D /\ fwd'[e].draining
    BY <1>0, <2>1, Zenon DEF StateType
  <2>3. /\ \A x \in Epochs \ {e} : up'[x] = up[x]
        /\ up'[e].st = "ended" /\ ~ up'[e].cancel
    BY <1>0, <1>3, <1>9, Zenon DEF StateType, Upstream
  <2> QED BY <2>2, <2>3, Zenon
<1>11. /\ reg'.epoch = reg.epoch
       /\ \A u \in Tracks \ {t} : reg'.entry[u] = reg.entry[u]
       /\ \A x \in Epochs \ {e} : reg'.gate[x] = reg.gate[x]
       /\ reg'.entry[t].epoch = IF f.subs \ D = {} THEN 0 ELSE e
  <2>1. CASE f.subs = {}
    <3>1. reg' = remove(reg, t)
      BY <1>4, <1>5, <1>6, <2>1, Zenon DEF LeavesEmpty, onPublisherTerminated
    <3> HIDE DEF t
    <3> QED BY <1>0, <1>2, <1>4, <2>1, <3>1, RemovedEntry, SMTT(30) DEF NoEntry
  <2>2. CASE f.subs # {} /\ f.subs \ D = {}
    <3>1. reg' = remove(reg1, t)
      BY <1>5, <1>7, <2>2, ZenonT(60) DEF LeavesEmpty, OnEmptyRegistry
    <3> HIDE DEF t, reg1, f
    <3> QED BY <1>2, <1>7, <1>8, <2>2, <3>1, RemovedEntry, SMTT(30) DEF NoEntry
  <2>3. CASE f.subs \ D # {}
    <3>1. reg' = reg1 /\ f.subs # {}
      BY <1>5, <2>3, Zenon DEF LeavesEmpty
    <3> HIDE DEF t, reg1, f
    <3> QED BY <1>7, <2>3, <3>1, Zenon
  <2> QED BY <2>1, <2>2, <2>3, Zenon
<1> HIDE DEF reg1, empty
<1>12. \A q \in Subscribers, x \in Epochs : On(req', q, x) => On(req, q, x)
  BY <1>5, AnsweredOrderly, Zenon
<1>13. FirstsOn(fwd', req')
  <2>1. \A q \in Subscribers : req'[q].pc = "upstream" => req'[q] = req[q]
    BY <1>5, AnsweredOrderly, Zenon
  <2>2. \A y \in Epochs, q \in Subscribers :
           req[q].pc = "upstream" /\ req[q].epoch = y /\ q \in fwd[y].subs
               => fwd'[y].draining \/ q \in fwd'[y].subs
    BY <1>10, Zenon
  <2>3. \A y \in Epochs : fwd[y].draining => fwd'[y].draining
    BY <1>10, Zenon
  <2> QED BY <2>1, <2>2, <2>3, FirstsKept, Zenon
<1>14. EpochOK(reg', fwd', up', req', e)
  <2>1. fwd'[e].subs # {} <=> Current(reg', fwd', e)
    BY <1>10, <1>11, SMTT(30) DEF Current, Epochs
  <2> HIDE DEF t, f
  <2> QED BY <1>10, <2>1, Zenon DEF EpochOK
<1>15. \A x \in Epochs \ {e} : fwd'[x] = fwd[x] /\ up'[x] = up[x] /\ reg'.gate[x] = reg.gate[x]
  BY <1>10, <1>11, Zenon
<1>16. reg'.entry[t].epoch \in {0, e}
  BY <1>11, Zenon
<1>17. LeftLastOf(e)
  BY <1>10, Zenon DEF LeftLastOf
<1> QED BY <1>2, <1>4, <1>10, <1>11, <1>12, <1>13, <1>14, <1>15, <1>16, <1>17, OneEpoch, Zenon

\* On one executor nothing is under way between the relay and its sessions.
LEMMA NothingUnderWay ==
    ASSUME IInv, OInv, NEW e \in Epochs
    PROVE  ~ DeliverPublishDone(e) /\ ~ RunUnsubscribe(e)
<1>1. ~ up[e].cancel
  BY Zenon DEF OInv
<1>2. up[e].st # "ending"
  BY DEF OInv, EpochOK, IInv, EpochsInUse, RegistryOK, Registry, Epochs
<1> QED BY <1>1, <1>2, Zenon DEF DeliverPublishDone, RunUnsubscribe

\* A namespace subscriber joins the forwarders of the published tracks.
LEMMA SubscribeNamespaceOrderly ==
    ASSUME IInv, OInv, NEW w \in Watchers, SubscribeNamespace(w)
    PROVE  OInv' /\ LeftLast
<1> DEFINE matches == {t \in Tracks : tree[t] # None /\ exists(reg, t)}
           joined(e) == ~ fwd[e].draining /\ \E t \in matches : reg.entry[t].epoch = e
           woken(e) == joined(e) /\ fwd[e].subs = {} /\ IsReady(reg, fwd[e].track)
                       /\ reg.entry[fwd[e].track].handle = e
<1>0. StateType
  BY Zenon DEF IInv
<1>1. UNCHANGED <<reg, req>>
  BY Zenon DEF SubscribeNamespace
<1>2. /\ fwd' = [e \in Epochs |-> IF joined(e) THEN [fwd[e] EXCEPT !.subs = @ \cup {w}] ELSE fwd[e]]
      /\ up' = [e \in Epochs |-> IF woken(e) THEN [up[e] EXCEPT !.forward = TRUE] ELSE up[e]]
  BY Zenon DEF SubscribeNamespace
<1>3. ASSUME NEW e \in Epochs, joined(e)
      PROVE  /\ Current(reg, fwd, e) /\ reg.gate[e] \in {"pending", "ready"}
             /\ reg.gate[e] = "pending" => fwd[e].subs # {}
             /\ e <= reg.epoch
  <2>1. PICK t \in Tracks : exists(reg, t) /\ reg.entry[t].epoch = e
    BY <1>3, Zenon
  <2>2. ~ fwd[e].draining
    BY <1>3, Zenon
  <2> HIDE DEF joined
  <2>3. /\ Current(reg, fwd, e) /\ reg.gate[e] \in {"pending", "ready"} /\ e <= reg.epoch
        /\ reg.gate[e] = "pending" => \E q \in Subscribers : req[q].pc = "upstream" /\ req[q].epoch = e
    BY <2>1, Serving, ZenonT(60)
  <2> QED BY <2>2, <2>3, ZenonT(60) DEF OInv, FirstsOn
<1>4. ASSUME NEW e \in Epochs
      PROVE  /\ fwd'[e].track = fwd[e].track /\ fwd'[e].draining = fwd[e].draining
             /\ fwd'[e].subs = IF joined(e) THEN fwd[e].subs \cup {w} ELSE fwd[e].subs
  <2> HIDE DEF joined
  <2> QED BY <1>0, <1>2, Zenon DEF StateType, Forwarder
<1>5. ASSUME NEW e \in Epochs
      PROVE  /\ up'[e].st = up[e].st /\ up'[e].cancel = up[e].cancel
             /\ (up[e].forward => up'[e].forward) /\ (woken(e) => up'[e].forward)
  <2> HIDE DEF woken
  <2> QED BY <1>0, <1>2, Zenon DEF StateType, Upstream
<1>6. ASSUME NEW e \in Epochs, e <= reg.epoch
      PROVE  EpochOK(reg', fwd', up', req', e)
  <2>1. EpochOK(reg, fwd, up, req, e)
    BY <1>6, Zenon DEF OInv
  <2>2. Current(reg', fwd', e) <=> Current(reg, fwd, e)
    BY <1>1, <1>4, Zenon DEF Current
  <2>3. fwd'[e].subs # {} => fwd[e].subs # {} \/ Current(reg, fwd, e)
    BY <1>3, <1>4, ZenonT(60)
  <2>4. up[e].st = "live" /\ fwd'[e].subs # {} => up'[e].forward
    <3>1. CASE fwd[e].subs # {}
      BY <1>5, <2>1, <3>1, Zenon DEF EpochOK
    <3>2. CASE ~ joined(e)
      BY <1>4, <1>5, <2>1, <3>2, ZenonT(60) DEF EpochOK
    <3>3. ASSUME fwd[e].subs = {}, joined(e), up[e].st = "live"
          PROVE  woken(e)
      <4>1. Current(reg, fwd, e) /\ reg.gate[e] = "ready"
        BY <1>3, <3>3, Zenon
      <4>2. reg.entry[fwd[e].track].handle = e /\ IsReady(reg, fwd[e].track)
        BY <2>1, <3>3, <4>1, Zenon DEF EpochOK, Current, IsReady
      <4> HIDE DEF joined
      <4> QED BY <3>3, <4>2, Zenon
    <3> HIDE DEF joined, woken
    <3> QED BY <1>5, <3>1, <3>2, <3>3, Zenon
  <2>5. \A y \in fwd[e].subs : y \in fwd'[e].subs
    BY <1>4, ZenonT(60)
  <2>6. /\ fwd'[e].track = fwd[e].track /\ fwd'[e].draining = fwd[e].draining
        /\ up'[e].st = up[e].st /\ (up[e].forward => up'[e].forward)
    BY <1>4, <1>5, Zenon
  <2> HIDE DEF joined, woken
  <2> QED BY <1>1, <2>1, <2>2, <2>3, <2>4, <2>5, <2>6, Zenon DEF EpochOK
<1>7. FirstsOn(fwd', req')
  <2>1. \A q \in Subscribers : req'[q].pc = "upstream" => req'[q] = req[q]
    BY <1>1, Zenon
  <2>2. \A y \in Epochs, q \in Subscribers :
           req[q].pc = "upstream" /\ req[q].epoch = y /\ q \in fwd[y].subs
               => fwd'[y].draining \/ q \in fwd'[y].subs
    BY <1>4, ZenonT(60)
  <2>3. \A y \in Epochs : fwd[y].draining => fwd'[y].draining
    BY <1>4, Zenon
  <2> QED BY <2>1, <2>2, <2>3, FirstsKept, Zenon
<1>8. OwnForwarder(reg', fwd')
  <2> SUFFICES ASSUME NEW t \in Tracks, exists(reg', t)
               PROVE  fwd'[reg'.entry[t].epoch].track = t
    BY Zenon DEF OwnForwarder
  <2>1. reg' = reg /\ exists(reg, t)
    BY <1>1, Zenon
  <2>2. reg.entry[t].epoch \in Epochs /\ fwd[reg.entry[t].epoch].track = t
    BY <2>1, Serving, Zenon
  <2> QED BY <1>4, <2>1, <2>2, Zenon
<1>9. \A e \in Epochs : ~ up'[e].cancel
  BY <1>5, ZenonT(60) DEF OInv
<1>10. LeftLast
  <2> HIDE DEF joined, woken
  <2> QED BY <1>5, Zenon DEF LeftLast, LeftLastOf, Released
<1> HIDE DEF joined, woken
<1> QED BY <1>1, <1>6, <1>7, <1>8, <1>9, <1>10, Zenon DEF OInv
-----------------------------------------------------------------------------
\* The other namespace steps do not touch what OInv is about.
LEMMA NamespaceStepsOrderly ==
    ASSUME ~ Takeover, IInv, OInv,
           \/ \E s \in Publishers : PublishNamespace(s)
           \/ PublishNamespaceDone
           \/ \E w \in Watchers : UnsubscribeNamespace(w)
           \/ UNCHANGED vars
    PROVE  OInv' /\ LeftLast
<1>1. UNCHANGED <<reg, fwd, up, req>>
  BY Zenon DEF PublishNamespace, PublishNamespaceDone, UnsubscribeNamespace, vars
<1> QED BY <1>1, OnlyRequests, Zenon

\* It holds initially.
LEMMA InitOrderly == Init => OInv
<1> SUFFICES ASSUME Init
             PROVE  OInv
  BY Zenon
<1>1. reg.epoch = 0 /\ \A t \in Tracks : reg.entry[t].epoch = 0
  BY Zenon DEF Init, EmptyRegistry, NoEntry
<1>2. \A e \in Epochs : ~ up[e].cancel
  BY Zenon DEF Init
<1>3. \A q \in Subscribers : req[q].pc = "idle"
  BY Zenon DEF Init, Idle
<1>4. \A e \in Epochs : ~ (e <= reg.epoch)
  BY <1>1 DEF Epochs
<1> QED BY <1>1, <1>2, <1>3, <1>4, Zenon DEF OInv, OwnForwarder, FirstsOn, exists

\* One step, by the actions of Next.
LEMMA StepOrderly ==
    ASSUME ~ Hop, ~ Takeover, IInv, OInv, [Next]_vars
    PROVE  OInv' /\ LeftLast
<1>1. ASSUME NEW r \in Subscribers, NEW t \in Tracks,
             SubscribeFirst(r, t) \/ SubscribeJoin(r, t) \/ SubscribeWait(r, t)
      PROVE  OInv' /\ LeftLast
  BY <1>1, SubscribeFirstOrderly, WaitersOrderly, Zenon
<1>2. ASSUME NEW r \in Subscribers, ResumeWaiter(r) \/ ResumeFirst(r)
      PROVE  OInv' /\ LeftLast
  BY <1>2, ResumeFirstOrderly, WaitersOrderly, Zenon
<1>3. ASSUME NEW x \in Sinks, NEW e \in Epochs, RemoveSubscriber(x, e)
      PROVE  OInv' /\ LeftLast
  BY <1>3, RemoveSubscriberOrderly, Zenon
<1>4. ASSUME NEW s \in Publishers, NEW t \in Tracks, Publish(s, t)
      PROVE  OInv' /\ LeftLast
  BY <1>4, PublishOrderly, Zenon
<1>5. ASSUME NEW e \in Epochs, \/ UpstreamAnswers(e) \/ PublisherEnds(e)
                               \/ DeliverPublishDone(e) \/ RunUnsubscribe(e)
      PROVE  OInv' /\ LeftLast
  BY <1>5, UpstreamAnswersOrderly, PublisherEndsOrderly, NothingUnderWay, Zenon
<1>6. ASSUME NEW w \in Watchers, SubscribeNamespace(w)
      PROVE  OInv' /\ LeftLast
  BY <1>6, SubscribeNamespaceOrderly, Zenon
<1>7. CASE \/ \E s \in Publishers : PublishNamespace(s)
           \/ PublishNamespaceDone
           \/ \E w \in Watchers : UnsubscribeNamespace(w)
           \/ UNCHANGED vars
  BY <1>7, NamespaceStepsOrderly, Zenon
<1> QED BY <1>1, <1>2, <1>3, <1>4, <1>5, <1>6, <1>7, Zenon DEF Next

\* OInv is inductive relative to IInv, when the sessions share the relay's
\* executor and nobody takes over.
THEOREM OrderlyInvariance ==
    ASSUME ~ Hop, ~ Takeover
    PROVE  Spec => []OInv
<1>1. Init => OInv
  BY InitOrderly, Zenon
<1>2. IInv /\ OInv /\ [Next]_vars => OInv'
  BY StepOrderly, Zenon
<1> QED BY <1>1, <1>2, Invariance, PTL DEF Spec

\* onEmptyImpl takes a null handle for "publisher terminated": in the orderly
\* relay a fulfilled entry without a handle is one whose own publisher is done.
THEOREM NullHandleIsTheEnd ==
    ASSUME ~ Hop, ~ Takeover
    PROVE  Spec => []NullHandleMeansEnded
<1>1. ASSUME IInv, OInv
      PROVE  NullHandleMeansEnded
  <2> SUFFICES ASSUME NEW t \in Tracks, IsReady(reg, t), reg.entry[t].handle = 0
               PROVE  up[reg.entry[t].epoch].st = "ended"
    BY Zenon DEF NullHandleMeansEnded
  <2>1. exists(reg, t) /\ reg.gate[reg.entry[t].epoch] = "ready"
    BY SMTT(30) DEF IsReady, exists, Epochs
  <2>2. /\ reg.entry[t].epoch \in Epochs /\ fwd[reg.entry[t].epoch].track = t
        /\ Current(reg, fwd, reg.entry[t].epoch) /\ EpochOK(reg, fwd, up, req, reg.entry[t].epoch)
    BY <1>1, <2>1, Serving, ZenonT(60)
  <2>3. reg.entry[t].epoch # 0
    BY <2>1, Zenon DEF exists
  <2> QED BY <2>1, <2>2, <2>3, ZenonT(60) DEF EpochOK
<1> QED BY <1>1, Invariance, OrderlyInvariance, PTL

\* Nobody is left on a silent track: a forwarder with subscribers that is not
\* being drained has an upstream that is asked or live, not cancelled, and told
\* to send objects, or one that refused.
THEOREM SubscribersStayFed ==
    ASSUME ~ Hop, ~ Takeover
    PROVE  Spec => []SubscribersAreFed
<1>1. ASSUME IInv, OInv
      PROVE  SubscribersAreFed
  <2> SUFFICES ASSUME NEW e \in Epochs, fwd[e].subs # {}, ~ fwd[e].draining
               PROVE  \/ up[e].st \in {"refused", "ending"}
                      \/ up[e].st \in {"asked", "live"} /\ ~ Released(up[e])
    BY Zenon DEF SubscribersAreFed
  <2>1. e <= reg.epoch
    BY <1>1, SMTT(30) DEF IInv, EpochsInUse, RegistryOK, Registry, Epochs
  <2>2. EpochOK(reg, fwd, up, req, e) /\ ~ up[e].cancel
    BY <1>1, <2>1, Zenon DEF OInv
  <2>3. up[e].st \in UpstreamStates
    BY <1>1, Zenon DEF IInv, StateType, Upstream
  <2> QED BY <2>2, <2>3, Zenon DEF EpochOK, Released, UpstreamStates
<1> QED BY <1>1, Invariance, OrderlyInvariance, PTL

\* onEmptyImpl takes a handle for "just last subscriber left": a step of the
\* orderly relay that cancels an upstream subscription, or stops its objects,
\* leaves that subscription's own forwarder empty or draining.
THEOREM ReleasedWhenEmpty ==
    ASSUME ~ Hop, ~ Takeover
    PROVE  Spec => LastSubscriberLeft
<1>1. IInv /\ OInv /\ [Next]_vars
        => [\A e \in Epochs : Released(up'[e]) /\ ~ Released(up[e])
               => fwd'[e].subs = {} \/ fwd'[e].draining]_vars
  BY StepOrderly, Zenon DEF LeftLast, LeftLastOf
<1> QED BY <1>1, Invariance, OrderlyInvariance, PTL DEF Spec, LastSubscriberLeft
=============================================================================
