----------------------- MODULE UpstreamProviderProofs -----------------------
(***************************************************************************)
(* The provider's session is always the one that is up, and whoever asks   *)
(* for a session gets one unless a session ended during its own hook, with *)
(* any number of coroutines, connects and mishaps.                         *)
(***************************************************************************)
EXTENDS UpstreamProvider, TLAPS

(***************************************************************************)
(* The inductive invariant.                                                *)
(***************************************************************************)
\* What SessionIsCurrent says of a provider U, and that only the session of the
\* current client can be up.
Current(U) ==
    /\ U.live \subseteq {U.client} /\ 0 \notin U.live
    /\ U.session # 0 => U.session \in U.live /\ U.client = U.session
    /\ U.watched = IF U.session = 0 THEN {} ELSE {U.session}
    /\ ~ U.stopped => Held(U) = U.watched
    /\ U.stopped => U.session = 0 /\ U.client = 0 /\ U.live = {}

\* Promises beyond the last connect have not been settled.
Fresh(U) ==
    /\ U.promise <= U.count
    /\ \A k \in 1 .. MaxConnect : k > U.count => U.settled[k] = "pending"

Sound(U) == U \in Provider /\ Current(U) /\ Fresh(U)

\* Nobody but U's own connector settles the promise of the connect under way.
Connector(U, b) ==
    /\ U.state = "Connecting" /\ U.client = b.at /\ U.promise = b.at
    /\ U.settled[b.at] = "pending"
    /\ U.session = IF b.pc = "hook" THEN b.at ELSE 0
    /\ b.pc = "setup" => U.live = {}

Connecting(c) == co[c].pc \in {"setup", "hook"}

\* The coroutines that connect: one at most, unless a session ended too early
\* or the provider is stopped.
ConnectorsOK ==
    /\ \A c \in Coroutines : Connecting(c) => co[c].at # 0
    /\ ~ early /\ ~ u.stopped =>
          /\ u.session # 0 => u.state # "Disconnected"
          /\ \A c \in Coroutines : Connecting(c) => Connector(u, co[c])
          /\ \A c, d \in Coroutines : Connecting(c) /\ Connecting(d) => c = d

ProviderInv == TypeOK /\ Sound(u) /\ ConnectorsOK /\ EnsuresUnlessEarly
-----------------------------------------------------------------------------
(***************************************************************************)
(* The methods.                                                            *)
(***************************************************************************)
\* What a method that only ends sessions leaves alone.
Kept(U, V) ==
    /\ V.count = U.count /\ V.promise = U.promise /\ V.settled = U.settled
    /\ V.stopped = U.stopped /\ V.wild = U.wild

\* resetSession and onMoQSessionClosed leave no session and keep the client.
NoSession(U, V) ==
    /\ Kept(U, V) /\ V.session = 0 /\ V.state = "Disconnected"
    /\ V.client = U.client /\ V.live = U.live /\ V.watched = U.watched \ {U.session}
    /\ Held(V) = IF U.stopped THEN Held(U) ELSE Held(U) \ {U.session}

\* resetSession lets go of the session, wherever it stood.
LEMMA ResetKeeps ==
    ASSUME NEW U \in Provider
    PROVE  resetSession(U) \in Provider /\ NoSession(U, resetSession(U))
<1> DEFINE w == U.watched \ {U.session}
           q == [s \in 1 .. MaxConnect |-> IF s # U.session \/ U.stopped THEN U.posted[s]
                                          ELSE IF U.posted[s] = "connect" THEN "both" ELSE "disconnect"]
           V == [U EXCEPT !.watched = w, !.posted = q, !.session = 0, !.state = "Disconnected"]
<1>1. w \in SUBSET (1 .. MaxConnect) /\ 0 \in Numbers
  BY ProviderAssumption DEF Provider, Numbers
<1>2. q \in [1 .. MaxConnect -> Calls] /\ DOMAIN U.posted = 1 .. MaxConnect
  BY Zenon DEF Provider, Calls
<1>3. resetSession(U) = V
  BY <1>2, Zenon DEF resetSession
<1>4. \A s \in 1 .. MaxConnect : q[s] = IF s # U.session \/ U.stopped THEN U.posted[s]
                                       ELSE IF U.posted[s] = "connect" THEN "both" ELSE "disconnect"
  BY Zenon
<1> HIDE DEF w, q
<1>5. /\ V \in Provider /\ Kept(U, V) /\ V.session = 0 /\ V.state = "Disconnected"
      /\ V.client = U.client /\ V.live = U.live /\ V.watched = w /\ V.posted = q /\ V.peered = U.peered
  BY <1>1, <1>2, ZenonT(60) DEF Provider, Kept
<1> HIDE DEF V
<1>6. Held(V) = IF U.stopped THEN Held(U) ELSE Held(U) \ {U.session}
  BY <1>4, <1>5 DEF Held
<1> QED BY <1>3, <1>5, <1>6, Zenon DEF NoSession, w

\* onMoQSessionClosed does the same, and may queue a connect loop.
LEMMA ClosedKeeps ==
    ASSUME NEW U \in Provider
    PROVE  onMoQSessionClosed(U) \in Provider /\ NoSession(U, onMoQSessionClosed(U))
<1> DEFINE V == resetSession(U)
<1>1. V \in Provider /\ NoSession(U, V)
  BY ResetKeeps, Zenon
<1>2. onMoQSessionClosed(U) = IF V.stopped THEN V ELSE [V EXCEPT !.backoff = 0, !.spawned = V.spawned + 1]
  BY Zenon DEF onMoQSessionClosed
<1> HIDE DEF V
<1>3. V.spawned + 1 \in Nat /\ 0 \in 0 .. MaxBackoff
  BY <1>1, ProviderAssumption, SMTT(60) DEF Provider
<1>4. [V EXCEPT !.backoff = 0, !.spawned = V.spawned + 1] \in Provider
  BY <1>1, <1>3, Zenon DEF Provider
<1>5. NoSession(U, [V EXCEPT !.backoff = 0, !.spawned = V.spawned + 1])
  BY <1>1, SMTT(60) DEF Provider, NoSession, Kept, Held
<1> QED BY <1>1, <1>2, <1>4, <1>5, Zenon

\* Session s goes; if the provider listens to it, it has no session any more.
Ended(U, s, V) ==
    /\ Kept(U, V) /\ V.client = U.client /\ V.live = U.live \ {s}
    /\ s \in U.watched =>
          /\ V.session = 0 /\ V.watched = U.watched \ {s, U.session}
          /\ Held(V) = IF U.stopped THEN Held(U) ELSE Held(U) \ {U.session}
    /\ s \notin U.watched =>
          /\ V.session = U.session /\ V.watched = U.watched /\ Held(V) = Held(U)
          /\ V.state = U.state

\* The end of session s is noticed by whoever still watches it.
LEMMA SessionEndsKeeps ==
    ASSUME NEW U \in Provider, NEW s \in Numbers
    PROVE  SessionEnds(U, s) \in Provider /\ Ended(U, s, SessionEnds(U, s))
<1> DEFINE l == U.live \ {s}
           w == U.watched \ {s}
           V == [U EXCEPT !.live = l, !.watched = w]
           X == onMoQSessionClosed(V)
<1>1. SessionEnds(U, s) = IF s \in U.watched THEN X ELSE V
  BY Zenon DEF SessionEnds
<1>2. l \in SUBSET (1 .. MaxConnect) /\ w \in SUBSET (1 .. MaxConnect)
  BY Zenon DEF Provider
<1>3. /\ V.live = l /\ V.watched = w /\ Kept(U, V) /\ V.client = U.client
      /\ V.session = U.session /\ Held(V) = Held(U) /\ V.state = U.state
  BY Zenon DEF Provider, Kept, Held
<1>4. V \in Provider
  <2> HIDE DEF l, w
  <2> QED BY <1>2, Zenon DEF Provider
<1> HIDE DEF V
<1>5. X \in Provider /\ NoSession(V, X)
  BY <1>4, ClosedKeeps, Zenon
<1> HIDE DEF X
<1>6. CASE s \in U.watched
  <2>1. /\ Kept(U, X) /\ X.client = U.client /\ X.live = U.live \ {s} /\ X.session = 0
        /\ X.watched = U.watched \ {s, U.session}
    BY <1>3, <1>5 DEF NoSession, Kept
  <2>2. Held(X) = IF U.stopped THEN Held(U) ELSE Held(U) \ {U.session}
    BY <1>3, <1>5, Zenon DEF NoSession, Kept
  <2> QED BY <1>1, <1>5, <1>6, <2>1, <2>2, Zenon DEF Ended
<1>7. CASE s \notin U.watched
  <2>1. w = U.watched
    BY <1>7, Zenon
  <2> QED BY <1>1, <1>3, <1>4, <1>7, <2>1, Zenon DEF Ended
<1> QED BY <1>6, <1>7, Zenon

\* The end of the only session that can be up leaves the provider current.
LEMMA EndIsCurrent ==
    ASSUME NEW U \in Provider, Current(U), NEW s \in U.live
    PROVE  /\ SessionEnds(U, s) \in Provider /\ Current(SessionEnds(U, s))
           /\ Kept(U, SessionEnds(U, s))
<1> DEFINE V == SessionEnds(U, s)
<1>1. s \in Numbers
  BY DEF Provider, Numbers
<1>2. V \in Provider /\ Ended(U, s, V)
  BY <1>1, SessionEndsKeeps, Zenon
<1> HIDE DEF V
<1>3. V.live = {} /\ V.session = 0 /\ V.watched = {} /\ Kept(U, V)
  BY <1>2, Zenon DEF Ended, Current
<1>4. ~ V.stopped => Held(V) = {}
  BY <1>2, Zenon DEF Ended, Current, Kept
<1>5. V.stopped => V.client = 0
  BY <1>2, Zenon DEF Ended, Current, Kept
<1>6. Current(V)
  BY <1>3, <1>4, <1>5, Zenon DEF Current
<1> QED BY <1>2, <1>3, <1>6, Zenon DEF V

\* Without its client a provider has no session and none is up.
LEMMA DropClientKeeps ==
    ASSUME NEW U \in Provider, Current(U)
    PROVE  /\ DropClient(U) \in Provider /\ Current(DropClient(U)) /\ Kept(U, DropClient(U))
           /\ DropClient(U).client = 0 /\ DropClient(U).live = {} /\ DropClient(U).session = 0
           /\ U.session = 0 => DropClient(U).state = U.state
<1>1. CASE U.client = 0
  <2>1. DropClient(U) = U
    BY <1>1, Zenon DEF DropClient
  <2>2. U.live = {} /\ U.session = 0
    BY <1>1, Zenon DEF Current
  <2> QED BY <1>1, <2>1, <2>2, Zenon DEF Kept
<1>2. CASE U.client # 0
  <2> DEFINE k == U.client
             W == [U EXCEPT !.client = 0]
             V == SessionEnds(W, k)
  <2>1. k \in Numbers /\ 0 \in Numbers
    BY ProviderAssumption DEF Provider, Numbers
  <2>2. W \in Provider
    BY <2>1, Zenon DEF Provider
  <2>3. /\ Kept(U, W) /\ W.client = 0 /\ W.live = U.live /\ W.watched = U.watched
        /\ W.session = U.session /\ Held(W) = Held(U) /\ W.state = U.state
    BY Zenon DEF Provider, Kept, Held
  <2>4. DropClient(U) = V
    BY <1>2, Zenon DEF DropClient
  <2> HIDE DEF W
  <2>5. V \in Provider /\ Ended(W, k, V)
    BY <2>1, <2>2, SessionEndsKeeps, Zenon
  <2> HIDE DEF V
  <2>6. V.live = {} /\ V.session = 0 /\ V.watched = {} /\ V.client = 0
    BY <1>2, <2>3, <2>5 DEF Ended, Current
  <2>7. Kept(U, V)
    BY <2>3, <2>5, Zenon DEF Ended, Kept
  <2>8. ~ V.stopped => Held(V) = {}
    BY <2>3, <2>5 DEF Ended, Current, Kept
  <2>9. Current(V)
    BY <2>6, <2>8, Zenon DEF Current
  <2>10. U.session = 0 => V.state = U.state
    BY <2>3, <2>5, Zenon DEF Ended, Current
  <2> QED BY <2>4, <2>5, <2>6, <2>7, <2>9, <2>10, Zenon
<1> QED BY <1>1, <1>2, Zenon

\* A stopped provider has no client, no session, and none is up.
LEMMA StopKeeps ==
    ASSUME NEW U \in Provider, Current(U), ~ U.stopped
    PROVE  /\ stopOnOwner(U) \in Provider /\ Current(stopOnOwner(U)) /\ stopOnOwner(U).stopped
           /\ stopOnOwner(U).count = U.count /\ stopOnOwner(U).promise = U.promise
           /\ stopOnOwner(U).settled = U.settled
<1> DEFINE W == [U EXCEPT !.stopped = TRUE]
           X == [W EXCEPT !.session = 0]
           Y == [X EXCEPT !.client = 0]
           V == DropClient(X)
           Z == [V EXCEPT !.state = "Disconnected"]
<1>1. stopOnOwner(U) = Z
  BY Zenon DEF stopOnOwner, close
<1>2. 0 \in Numbers
  BY ProviderAssumption, SMTT(60) DEF Numbers
<1>3. /\ X \in Provider /\ X.stopped /\ X.session = 0 /\ X.client = U.client /\ X.live = U.live
      /\ X.watched = U.watched /\ X.count = U.count /\ X.promise = U.promise /\ X.settled = U.settled
  BY <1>2, Zenon DEF Provider
<1> HIDE DEF X
<1>4. /\ Y \in Provider /\ Y.stopped /\ Y.session = 0 /\ Y.client = 0 /\ Y.live = U.live
      /\ Y.watched = U.watched /\ Y.count = U.count /\ Y.promise = U.promise /\ Y.settled = U.settled
  BY <1>2, <1>3, SMTT(60) DEF Provider
<1>5. V = IF X.client = 0 THEN X ELSE SessionEnds(Y, X.client)
  BY Zenon DEF DropClient
<1> HIDE DEF Y, V
<1>6. /\ V \in Provider /\ V.stopped /\ V.session = 0 /\ V.client = 0 /\ V.live = {}
      /\ V.watched = {} /\ V.count = U.count /\ V.promise = U.promise /\ V.settled = U.settled
  <2>1. CASE X.client = 0
    BY <1>3, <1>5, <2>1 DEF Current
  <2>2. CASE X.client # 0
    <3>1. X.client \in Numbers
      BY <1>3, Zenon DEF Provider
    <3>2. V \in Provider /\ Ended(Y, X.client, V)
      BY <1>4, <1>5, <2>2, <3>1, SessionEndsKeeps, Zenon
    <3>3. /\ V.stopped /\ V.session = 0 /\ V.client = 0
          /\ V.count = U.count /\ V.promise = U.promise /\ V.settled = U.settled
      BY <1>4, <3>2, Zenon DEF Ended, Kept
    <3>4. V.live = {} /\ V.watched = {}
      BY <1>3, <1>4, <3>2, <2>2 DEF Ended, Current
    <3> QED BY <3>2, <3>3, <3>4, Zenon
  <2> QED BY <2>1, <2>2, Zenon
<1>7. /\ Z \in Provider /\ Z.stopped /\ Z.session = 0 /\ Z.client = 0 /\ Z.live = {}
      /\ Z.watched = {} /\ Z.count = U.count /\ Z.promise = U.promise /\ Z.settled = U.settled
  BY <1>6, Zenon DEF Provider
<1> HIDE DEF Z
<1>8. Current(Z)
  BY <1>7, Zenon DEF Current
<1> QED BY <1>1, <1>7, <1>8, Zenon

\* A fresh connect: nothing of the old client is left, and if there was no
\* session the new connect is under way.
LEMMA ConnectSound ==
    ASSUME NEW U, Sound(U), U.count < MaxConnect, ~ U.stopped
    PROVE  /\ Sound(Connect(U)) /\ ~ Connect(U).stopped /\ Connect(U).session = 0
           /\ U.session = 0 => Connector(Connect(U), [pc |-> "setup", at |-> U.count + 1])
<1> DEFINE k == U.count + 1
           S == [q \in 1 .. MaxConnect |->
                    IF q = U.promise /\ U.settled[q] = "pending" THEN "error" ELSE U.settled[q]]
           V == [U EXCEPT !.state = "Connecting", !.count = k, !.settled = S, !.promise = k]
           X == DropClient(V)
           Y == [X EXCEPT !.client = k]
<1>1. U \in Provider /\ DOMAIN U.settled = 1 .. MaxConnect
  BY Zenon DEF Sound, Provider
<1>2. Connect(U) = Y
  BY <1>1, Zenon DEF Connect
<1>3. k \in Numbers /\ k \in 1 .. MaxConnect /\ k > U.count /\ U.promise \in Nat /\ U.promise < k
  BY <1>1, ProviderAssumption, SMTT(60) DEF Sound, Fresh, Provider, Numbers
<1>4. S \in [1 .. MaxConnect -> {"pending", "value", "error"}]
  BY <1>1, Zenon DEF Provider
<1>5. \A q \in 1 .. MaxConnect : q >= k => S[q] = "pending"
  BY <1>1, <1>3, SMTT(60) DEF Sound, Fresh, Provider, Numbers
<1> HIDE DEF k, S
<1>6. /\ V \in Provider /\ V.state = "Connecting" /\ V.count = k /\ V.settled = S /\ V.promise = k
      /\ V.session = U.session /\ V.client = U.client /\ V.live = U.live /\ V.watched = U.watched
      /\ Held(V) = Held(U) /\ V.stopped = U.stopped
  BY <1>1, <1>3, <1>4, Zenon DEF Provider, Held
<1> HIDE DEF V
<1>7. Current(V)
  BY <1>6, Zenon DEF Sound, Current
<1>8. /\ X \in Provider /\ Current(X) /\ Kept(V, X) /\ X.client = 0 /\ X.live = {} /\ X.session = 0
      /\ V.session = 0 => X.state = V.state
  BY <1>6, <1>7, DropClientKeeps, Zenon
<1> HIDE DEF X
<1>9. /\ Y \in Provider /\ Y.client = k /\ Y.live = {} /\ Y.session = 0 /\ Y.state = X.state
      /\ Y.watched = X.watched /\ Held(Y) = Held(X) /\ Kept(X, Y)
  BY <1>3, <1>8, Zenon DEF Provider, Kept, Held
<1> HIDE DEF Y
<1>10. Kept(V, Y) /\ ~ Y.stopped
  BY <1>6, <1>8, <1>9, Zenon DEF Kept
<1>11. Current(Y)
  BY <1>8, <1>9, <1>10, Zenon DEF Current, Kept
<1>12. Fresh(Y)
  BY <1>3, <1>5, <1>6, <1>10 DEF Fresh, Kept
<1>13. U.session = 0 => Connector(Y, [pc |-> "setup", at |-> k])
  BY <1>3, <1>5, <1>6, <1>8, <1>9, <1>10 DEF Connector, Kept
<1> QED BY <1>2, <1>9, <1>10, <1>11, <1>12, <1>13, Zenon DEF Sound, k

\* The session of the client is set up.
LEMMA EstablishedSound ==
    ASSUME NEW U, Sound(U), NEW k \in 1 .. MaxConnect, U.client = k
    PROVE  /\ Sound(Established(U, k)) /\ Kept(U, Established(U, k))
           /\ Established(U, k).session = k /\ Established(U, k).client = k
           /\ Established(U, k).state = U.state
<1> DEFINE l == U.live \cup {k}
           w == U.watched \cup {k}
           q == [U.posted EXCEPT ![k] = "connect"]
           V == [U EXCEPT !.session = k, !.live = l, !.watched = w, !.posted = q]
<1>1. U \in Provider /\ Established(U, k) = V
  BY Zenon DEF Sound, Established
<1>2. /\ l \in SUBSET (1 .. MaxConnect) /\ w \in SUBSET (1 .. MaxConnect)
      /\ q \in [1 .. MaxConnect -> Calls] /\ k \in Numbers
  BY <1>1 DEF Provider, Numbers, Calls
<1>a. \A s \in 1 .. MaxConnect : q[s] = IF s = k THEN "connect" ELSE U.posted[s]
  BY <1>1, Zenon DEF Provider
<1>3. k # 0
  OBVIOUS
<1>4. ~ U.stopped
  BY <1>3, Zenon DEF Sound, Current
<1>5. U.session \in {0, k} /\ l = {k} /\ w = {k} /\ Held(U) \subseteq {k}
  BY <1>4, Zenon DEF Sound, Current
<1> HIDE DEF l, w, q
<1>6. /\ V \in Provider /\ V.session = k /\ V.live = l /\ V.watched = w
      /\ V.posted = q /\ V.peered = U.peered
      /\ V.client = k /\ V.state = U.state /\ Kept(U, V)
  BY <1>1, <1>2, ZenonT(60) DEF Provider, Kept
<1> HIDE DEF V
<1>b. Held(V) = Held(U) \cup {k}
  BY <1>a, <1>6 DEF Held
<1>7. Current(V)
  BY <1>3, <1>4, <1>5, <1>6, <1>b, Zenon DEF Current, Kept
<1>8. Fresh(V)
  BY <1>6, Zenon DEF Sound, Fresh, Kept
<1> QED BY <1>1, <1>6, <1>7, <1>8, Zenon DEF Sound

\* A connect that fails leaves no session.
LEMMA ConnectFailedSound ==
    ASSUME NEW U, Sound(U)
    PROVE  /\ Sound(ConnectFailed(U)) /\ ConnectFailed(U).stopped = U.stopped
           /\ ConnectFailed(U).session = 0
<1> DEFINE W == [U EXCEPT !.state = "Disconnected"]
           V == DropClient(W)
           S == [V.settled EXCEPT ![V.promise] = "error"]
           A == [V EXCEPT !.wild = TRUE]
           B == [V EXCEPT !.settled = S, !.promise = 0]
<1>1. U \in Provider
  BY Zenon DEF Sound
<1>2. /\ W \in Provider /\ Kept(U, W) /\ W.session = U.session /\ W.client = U.client
      /\ W.live = U.live /\ W.watched = U.watched /\ Held(W) = Held(U)
  BY <1>1, Zenon DEF Provider, Kept, Held
<1> HIDE DEF W
<1>3. Current(W)
  BY <1>2, Zenon DEF Sound, Current, Kept
<1>4. V \in Provider /\ Current(V) /\ Kept(W, V) /\ V.session = 0
  BY <1>2, <1>3, DropClientKeeps, Zenon
<1>5. ConnectFailed(U) = IF V.promise = 0 THEN A ELSE IF V.settled[V.promise] # "pending" THEN V ELSE B
  BY Zenon DEF ConnectFailed, W
<1> HIDE DEF V
<1>6. Fresh(V) /\ V.stopped = U.stopped
  BY <1>2, <1>4 DEF Sound, Fresh, Kept
<1>7. Sound(A) /\ A.stopped = V.stopped /\ A.session = 0
  <2>1. /\ A \in Provider /\ A.session = 0 /\ A.client = V.client /\ A.live = V.live
        /\ A.watched = V.watched /\ Held(A) = Held(V) /\ A.stopped = V.stopped
        /\ A.promise = V.promise /\ A.count = V.count /\ A.settled = V.settled
    BY <1>4, ZenonT(60) DEF Provider, Held
  <2> HIDE DEF A
  <2>2. Current(A) /\ Fresh(A)
    BY <1>4, <1>6, <2>1, Zenon DEF Current, Fresh
  <2> QED BY <2>1, <2>2, Zenon DEF Sound
<1>8. ASSUME V.promise # 0 PROVE Sound(B) /\ B.stopped = V.stopped /\ B.session = 0
  <2>1. V.promise \in 1 .. MaxConnect /\ 0 \in Numbers /\ V.count \in Nat
    BY <1>4, <1>8, ProviderAssumption DEF Provider, Numbers
  <2>2. S \in [1 .. MaxConnect -> {"pending", "value", "error"}]
    BY <1>4, <2>1, Zenon DEF Provider
  <2>3. \A q \in 1 .. MaxConnect : q > V.count => S[q] = "pending"
    BY <1>4, <1>6, <2>1, SMTT(60) DEF Fresh, Provider
  <2> HIDE DEF S
  <2>4. /\ B \in Provider /\ B.session = 0 /\ B.client = V.client /\ B.live = V.live
        /\ B.watched = V.watched /\ Held(B) = Held(V) /\ B.stopped = V.stopped
        /\ B.promise = 0 /\ B.count = V.count /\ B.settled = S
    BY <1>4, <2>1, <2>2, ZenonT(60) DEF Provider, Held
  <2> HIDE DEF B
  <2>5. Current(B)
    BY <1>4, <2>4, Zenon DEF Current
  <2>6. Fresh(B)
    BY <2>1, <2>3, <2>4 DEF Fresh
  <2> QED BY <2>4, <2>5, <2>6, Zenon DEF Sound
<1> QED BY <1>4, <1>5, <1>6, <1>7, <1>8, Zenon DEF Sound

\* The promise of a connect that succeeds is settled.
LEMMA SetValueSound ==
    ASSUME NEW U, Sound(U), U.promise # 0
    PROVE  /\ Sound(SetValue(U)) /\ SetValue(U).stopped = U.stopped
           /\ SetValue(U).session = U.session /\ SetValue(U).state = "Connected"
<1> DEFINE S == [U.settled EXCEPT ![U.promise] = "value"]
           V == [U EXCEPT !.state = "Connected", !.settled = S]
<1>1. U \in Provider /\ U.promise \in 1 .. MaxConnect /\ U.count \in Nat
  BY ProviderAssumption, SMTT(30) DEF Sound, Provider, Numbers
<1>2. SetValue(U) = V
  BY <1>1, Zenon DEF SetValue
<1>3. S \in [1 .. MaxConnect -> {"pending", "value", "error"}]
  BY <1>1, Zenon DEF Provider
<1>4. \A q \in 1 .. MaxConnect : q > U.count => S[q] = "pending"
  BY <1>1, SMTT(60) DEF Sound, Fresh, Provider
<1> HIDE DEF S
<1>5. /\ V \in Provider /\ V.session = U.session /\ V.client = U.client /\ V.live = U.live
      /\ V.watched = U.watched /\ Held(V) = Held(U) /\ V.stopped = U.stopped
      /\ V.promise = U.promise /\ V.count = U.count /\ V.settled = S /\ V.state = "Connected"
  BY <1>1, <1>3, Zenon DEF Provider, Held
<1> HIDE DEF V
<1>6. Current(V)
  BY <1>5, Zenon DEF Sound, Current
<1>7. Fresh(V)
  BY <1>4, <1>5, Zenon DEF Sound, Fresh
<1> QED BY <1>2, <1>5, <1>6, <1>7, Zenon DEF Sound
-----------------------------------------------------------------------------
(***************************************************************************)
(* The steps.                                                              *)
(***************************************************************************)
\* V differs from U at most in its backoff and the loops queued.
Alike(U, V) ==
    /\ V.state = U.state /\ V.session = U.session /\ V.client = U.client /\ V.live = U.live
    /\ V.watched = U.watched /\ Held(V) = Held(U) /\ Kept(U, V)

\* What is alike is as sound, and carries on the same connect loops.
LEMMA AlikeSound ==
    ASSUME NEW U, Sound(U), NEW V \in Provider, Alike(U, V)
    PROVE  Sound(V) /\ \A b : Connector(U, b) => Connector(V, b)
<1>1. Current(V)
  BY Zenon DEF Sound, Current, Alike, Kept
<1>2. Fresh(V)
  BY Zenon DEF Sound, Fresh, Alike, Kept
<1>3. ASSUME NEW b, Connector(U, b) PROVE Connector(V, b)
  BY <1>3, Zenon DEF Connector, Alike, Kept
<1> QED BY <1>1, <1>2, <1>3, Zenon DEF Sound

\* Coroutine c moves to a point at which it connects to nothing.
LEMMA MoveOK ==
    ASSUME ProviderInv, NEW c \in Coroutines, NEW p \in Points \ {"setup", "hook"},
           NEW a \in Numbers, co' = [co EXCEPT ![c] = [pc |-> p, at |-> a]],
           Sound(u'), u'.stopped = u.stopped, early' = early, mishaps' \in 0 .. MaxMishap,
           ~ early /\ ~ u.stopped =>
              /\ u'.session # 0 => u'.state # "Disconnected"
              /\ \A d \in Coroutines \ {c} : Connecting(d) => Connector(u', co[d]),
           p = "got" => early \/ a # 0
    PROVE  ProviderInv'
<1>1. co \in [Coroutines -> [pc : Points, at : Numbers]]
  BY Zenon DEF ProviderInv, TypeOK
<1>2. /\ co' \in [Coroutines -> [pc : Points, at : Numbers]]
      /\ co'[c].pc = p /\ co'[c].at = a /\ \A d \in Coroutines \ {c} : co'[d] = co[d]
  BY <1>1, Zenon
<1>3. TypeOK'
  BY <1>2, Zenon DEF ProviderInv, TypeOK, Sound
<1>4. \A d \in Coroutines : Connecting(d)' => d # c /\ Connecting(d) /\ co'[d] = co[d]
  BY <1>2, Zenon DEF Connecting
<1>5. ConnectorsOK'
  <2>1. \A d \in Coroutines : Connecting(d)' => co'[d].at # 0
    BY <1>4, Zenon DEF ProviderInv, ConnectorsOK
  <2>2. ASSUME ~ early', ~ u'.stopped
        PROVE  /\ u'.session # 0 => u'.state # "Disconnected"
               /\ \A d \in Coroutines : Connecting(d)' => Connector(u', co'[d])
               /\ \A d, e \in Coroutines : Connecting(d)' /\ Connecting(e)' => d = e
    BY <1>4, <2>2, Zenon DEF ProviderInv, ConnectorsOK
  <2> QED BY <2>1, <2>2, Zenon DEF ConnectorsOK
<1>6. EnsuresUnlessEarly'
  BY <1>2, Zenon DEF ProviderInv, EnsuresUnlessEarly, EnsuresSession, Coroutines
<1> QED BY <1>3, <1>5, <1>6, Zenon DEF ProviderInv

\* A coroutine leaves getOrConnectSession with a session or an exception.
LEMMA LeaveOK ==
    ASSUME ProviderInv, NEW c \in Coroutines, NEW U, Sound(U), U.stopped = u.stopped,
           early' = early, mishaps' \in 0 .. MaxMishap,
           ~ early /\ ~ u.stopped =>
              /\ U.session # 0 => U.state # "Disconnected"
              /\ \A d \in Coroutines \ {c} : Connecting(d) => Connector(U, co[d]),
           Threw(c, U) \/ (Got(c, U) /\ (early \/ U.session # 0))
    PROVE  ProviderInv'
<1>1. U \in Provider /\ 0 \in Numbers /\ U.session \in Numbers /\ U.backoff \in 0 .. MaxBackoff
  BY ProviderAssumption, SMTT(60) DEF Sound, Provider, Numbers
<1>2. NextBackoff(U.backoff) \in 0 .. MaxBackoff /\ 0 \in 0 .. MaxBackoff
  BY <1>1, ProviderAssumption DEF NextBackoff
<1>3. ASSUME NEW b \in 0 .. MaxBackoff
      PROVE  [U EXCEPT !.backoff = b] \in Provider /\ Alike(U, [U EXCEPT !.backoff = b])
  BY <1>1, Zenon DEF Provider, Alike, Kept, Held
<1>4. u' \in Provider /\ Alike(U, u')
  <2>1. u' = U \/ u' = [U EXCEPT !.backoff = 0] \/ u' = [U EXCEPT !.backoff = NextBackoff(U.backoff)]
    BY Zenon DEF Threw, Got
  <2>2. Alike(U, U)
    BY Zenon DEF Alike, Kept
  <2> QED BY <1>1, <1>2, <1>3, <2>1, <2>2, Zenon
<1>5. /\ Sound(u') /\ u'.stopped = u.stopped
      /\ ~ early /\ ~ u.stopped =>
              /\ u'.session # 0 => u'.state # "Disconnected"
              /\ \A d \in Coroutines \ {c} : Connecting(d) => Connector(u', co[d])
  <2>1. u'.stopped = U.stopped /\ u'.session = U.session /\ u'.state = U.state
    BY <1>4, Zenon DEF Alike, Kept
  <2> QED BY <1>4, <2>1, AlikeSound, Zenon
<1>6. \E p \in Points \ {"setup", "hook"}, a \in Numbers :
         co' = [co EXCEPT ![c] = [pc |-> p, at |-> a]] /\ (p = "got" => early \/ a # 0)
  <2>1. CASE Threw(c, U)
    BY <1>1, <2>1 DEF Threw, Points
  <2>2. CASE Got(c, U) /\ (early \/ U.session # 0)
    BY <1>1, <2>2 DEF Got, Points
  <2> QED BY <2>1, <2>2, Zenon
<1> QED BY <1>5, <1>6, MoveOK, ZenonT(60)

\* While state_ is not Connecting, nobody connects.
LEMMA NobodyConnects ==
    ASSUME ProviderInv, ~ early, ~ u.stopped, u.state # "Connecting"
    PROVE  \A d \in Coroutines : ~ Connecting(d)
  BY Zenon DEF ProviderInv, ConnectorsOK, Connector

\* A coroutine that is not connecting calls getOrConnectSession.
LEMMA GetOrConnectOK ==
    ASSUME ProviderInv, NEW c \in Coroutines, ~ Connecting(c), NEW U \in Provider, Alike(u, U),
           getOrConnectSession(c, U), UNCHANGED <<mishaps, early>>
    PROVE  ProviderInv'
<1>1. Sound(U) /\ (\A b : Connector(u, b) => Connector(U, b)) /\ mishaps' \in 0 .. MaxMishap
  BY AlikeSound, Zenon DEF ProviderInv, TypeOK
<1>2. U.stopped = u.stopped /\ U.session = u.session /\ U.state = u.state
  BY Zenon DEF Alike, Kept
<1>3. ~ early /\ ~ u.stopped =>
         /\ U.session # 0 => U.state # "Disconnected"
         /\ \A d \in Coroutines \ {c} : Connecting(d) => Connector(U, co[d])
  BY <1>1, <1>2, Zenon DEF ProviderInv, ConnectorsOK
<1>4. CASE Threw(c, U)
  BY <1>1, <1>2, <1>3, <1>4, LeaveOK, Zenon
<1>5. CASE HasSession(U) /\ Got(c, U)
  BY <1>1, <1>2, <1>3, <1>5, LeaveOK, Zenon DEF HasSession
<1>6. CASE AwaitPromise(c, U)
  <2>1. u' = U /\ co' = [co EXCEPT ![c] = [pc |-> "waiting", at |-> U.promise]]
    BY <1>6, Zenon DEF AwaitPromise
  <2>2. U.promise \in Numbers /\ "waiting" \in Points \ {"setup", "hook"}
    BY Zenon DEF Provider, Points
  <2> QED BY <1>1, <1>2, <1>3, <2>1, <2>2, MoveOK, ZenonT(60)
<1>7. CASE ~ U.stopped /\ ~ HasSession(U) /\ U.state # "Connecting" /\ OwnConnect(c, U)
  <2> DEFINE k == U.count + 1
  <2>1. U.count < MaxConnect /\ u' = Connect(U) /\ co' = [co EXCEPT ![c] = [pc |-> "setup", at |-> k]]
    BY <1>7, Zenon DEF OwnConnect
  <2>2. k \in Numbers /\ k # 0 /\ "setup" \in Points
    BY <2>1, ProviderAssumption DEF Provider, Numbers, Points
  <2>3. /\ Sound(u') /\ ~ u'.stopped /\ u'.session = 0
        /\ U.session = 0 => Connector(u', [pc |-> "setup", at |-> k])
    BY <1>1, <1>7, <2>1, ConnectSound, Zenon
  <2> HIDE DEF k
  <2>4. co \in [Coroutines -> [pc : Points, at : Numbers]]
    BY Zenon DEF ProviderInv, TypeOK
  <2>5. /\ co' \in [Coroutines -> [pc : Points, at : Numbers]]
        /\ co'[c] = [pc |-> "setup", at |-> k] /\ \A d \in Coroutines \ {c} : co'[d] = co[d]
    BY <2>1, <2>2, <2>4, Zenon
  <2>6. TypeOK'
    BY <2>3, <2>5, Zenon DEF ProviderInv, TypeOK, Sound
  <2>7. \A d \in Coroutines : Connecting(d)' => d = c \/ (Connecting(d) /\ co'[d] = co[d])
    BY <2>5, Zenon DEF Connecting
  <2>8. ConnectorsOK'
    <3>1. \A d \in Coroutines : Connecting(d)' => co'[d].at # 0
      BY <2>2, <2>5, <2>7, SMTT(60) DEF ProviderInv, ConnectorsOK
    <3>2. ASSUME ~ early'
          PROVE  /\ \A d \in Coroutines : Connecting(d)' => Connector(u', co'[d])
                 /\ \A d, e \in Coroutines : Connecting(d)' /\ Connecting(e)' => d = e
      <4>1. ~ early /\ ~ u.stopped /\ u.state # "Connecting"
        BY <1>2, <1>7, <3>2, Zenon
      <4>2. \A d \in Coroutines : Connecting(d)' => d = c
        BY <2>7, <4>1, NobodyConnects, Zenon
      <4>3. U.session = 0
        BY <1>1, <1>2, <1>3, <1>7, <4>1, Zenon DEF HasSession, Provider
      <4> QED BY <2>3, <2>5, <4>2, <4>3, Zenon
    <3> QED BY <2>3, <3>1, <3>2, Zenon DEF ConnectorsOK
  <2>9. EnsuresUnlessEarly'
    BY <2>5 DEF ProviderInv, EnsuresUnlessEarly, EnsuresSession, Coroutines
  <2> QED BY <2>3, <2>6, <2>8, <2>9, Zenon DEF ProviderInv
<1> QED BY <1>4, <1>5, <1>6, <1>7, Zenon DEF getOrConnectSession

\* A loop starts or wakes, and ends, sleeps or connects.
LEMMA LoopOK ==
    ASSUME ProviderInv, NEW l \in Loops, StartLoop(l) \/ LoopWakes(l)
    PROVE  ProviderInv'
<1> DEFINE W == [u EXCEPT !.spawned = u.spawned - 1]
<1>1. /\ l \in Coroutines /\ ~ Connecting(l) /\ early' = early /\ mishaps' = mishaps
      /\ u \in Provider /\ Sound(u) /\ co[l] \in [pc : Points, at : Numbers]
  BY Zenon DEF ProviderInv, TypeOK, StartLoop, LoopWakes, Connecting, Coroutines
<1>2. Alike(u, u)
  BY Zenon DEF Alike, Kept
<1>3. ASSUME u.spawned > 0 PROVE W \in Provider /\ Alike(u, W)
  <2>1. u.spawned - 1 \in Nat
    BY <1>1, <1>3 DEF Provider
  <2> QED BY <1>1, <2>1, Zenon DEF Provider, Alike, Kept, Held
<1>4. ASSUME NEW U \in Provider, Alike(u, U), getOrConnectSession(l, U) PROVE ProviderInv'
  BY <1>1, <1>4, GetOrConnectOK, Zenon
<1>5. ASSUME NEW p \in {"off", "sleeping"}, co' = [co EXCEPT ![l].pc = p],
             u' \in Provider, Alike(u, u')
      PROVE  ProviderInv'
  <2> DEFINE a == co[l].at
  <2>1. co' = [co EXCEPT ![l] = [pc |-> p, at |-> a]]
    <3>1. [co[l] EXCEPT !.pc = p] = [pc |-> p, at |-> a]
      BY <1>1, SMTT(60)
    <3>2. co' = [co EXCEPT ![l] = [co[l] EXCEPT !.pc = p]]
      BY <1>5, Zenon
    <3> QED BY <3>1, <3>2, Zenon
  <2>2. a \in Numbers /\ p \in Points \ {"setup", "hook"} /\ p # "got"
    BY <1>1, Zenon DEF Points
  <2> HIDE DEF a
  <2>3. /\ Sound(u') /\ u'.stopped = u.stopped /\ u'.session = u.session /\ u'.state = u.state
        /\ \A b : Connector(u, b) => Connector(u', b)
    BY <1>1, <1>5, AlikeSound, Zenon DEF Alike, Kept
  <2>4. ~ early /\ ~ u.stopped =>
         /\ u'.session # 0 => u'.state # "Disconnected"
         /\ \A d \in Coroutines \ {l} : Connecting(d) => Connector(u', co[d])
    BY <2>3, Zenon DEF ProviderInv, ConnectorsOK
  <2>5. mishaps' \in 0 .. MaxMishap
    BY <1>1, Zenon DEF ProviderInv, TypeOK
  <2> QED BY <1>1, <2>1, <2>2, <2>3, <2>4, <2>5, MoveOK, Zenon
<1>6. CASE StartLoop(l)
  <2>1. u.spawned > 0
    BY <1>6, Zenon DEF StartLoop
  <2>2. W \in Provider /\ Alike(u, W)
    BY <1>3, <2>1, Zenon
  <2>3. CASE u' = W /\ co' = [co EXCEPT ![l].pc = IF u.stopped THEN "off" ELSE "sleeping"]
    BY <1>5, <2>2, <2>3, Zenon
  <2>4. CASE getOrConnectSession(l, W)
    BY <1>4, <2>2, <2>4, Zenon
  <2> QED BY <1>6, <2>3, <2>4, Zenon DEF StartLoop
<1>7. CASE LoopWakes(l)
  <2>1. CASE co' = [co EXCEPT ![l].pc = "off"] /\ u' = u
    BY <1>1, <1>2, <1>5, <2>1, Zenon
  <2>2. CASE getOrConnectSession(l, u)
    BY <1>1, <1>2, <1>4, <2>2, Zenon
  <2> QED BY <1>7, <2>1, <2>2, Zenon DEF LoopWakes
<1> QED BY <1>6, <1>7, Zenon

\* A coroutine that waited for another's connect goes on.
LEMMA WaiterResumesOK ==
    ASSUME ProviderInv, NEW c \in Coroutines, WaiterResumes(c)
    PROVE  ProviderInv'
<1>1. /\ Sound(u) /\ early' = early /\ mishaps' \in 0 .. MaxMishap /\ ~ Connecting(c)
      /\ Threw(c, u) \/ (u.session # 0 /\ Got(c, u))
  BY Zenon DEF ProviderInv, TypeOK, WaiterResumes, Connecting
<1>2. ~ early /\ ~ u.stopped =>
         /\ u.session # 0 => u.state # "Disconnected"
         /\ \A d \in Coroutines \ {c} : Connecting(d) => Connector(u, co[d])
  BY Zenon DEF ProviderInv, ConnectorsOK
<1> QED BY <1>1, <1>2, LeaveOK, Zenon

\* The set-up is done and the hook is called.
LEMMA SetupSucceedsOK ==
    ASSUME ProviderInv, NEW c \in Coroutines, SetupSucceeds(c)
    PROVE  ProviderInv'
<1> DEFINE k == co[c].at
<1>1. /\ Sound(u) /\ co \in [Coroutines -> [pc : Points, at : Numbers]] /\ k \in 1 .. MaxConnect
      /\ co[c].pc = "setup" /\ u.client = k /\ u' = Established(u, k)
      /\ co' = [co EXCEPT ![c].pc = "hook"] /\ mishaps' = mishaps /\ early' = early
  BY ProviderAssumption DEF ProviderInv, TypeOK, SetupSucceeds, ConnectorsOK, Connecting, Numbers
<1> HIDE DEF k
<1>2. Sound(u') /\ Kept(u, u') /\ u'.session = k /\ u'.client = k /\ u'.state = u.state
  BY <1>1, EstablishedSound, Zenon
<1>3. /\ co' \in [Coroutines -> [pc : Points, at : Numbers]]
      /\ co'[c].pc = "hook" /\ co'[c].at = k /\ \A d \in Coroutines \ {c} : co'[d] = co[d]
  BY <1>1, Zenon DEF k, Points
<1>4. TypeOK'
  BY <1>1, <1>2, <1>3, Zenon DEF ProviderInv, TypeOK, Sound
<1>5. \A d \in Coroutines : Connecting(d)' => Connecting(d)
  BY <1>1, <1>3, Zenon DEF Connecting
<1>6. ConnectorsOK'
  <2>1. \A d \in Coroutines : Connecting(d)' => co'[d].at # 0
    BY <1>1, <1>3, <1>5 DEF ProviderInv, ConnectorsOK
  <2>2. ASSUME ~ early', ~ u'.stopped
        PROVE  /\ u'.session # 0 => u'.state # "Disconnected"
               /\ \A d \in Coroutines : Connecting(d)' => Connector(u', co'[d])
               /\ \A d, e \in Coroutines : Connecting(d)' /\ Connecting(e)' => d = e
    <3>1. ~ early /\ ~ u.stopped /\ Connecting(c)
      BY <1>1, <1>2, <2>2, Zenon DEF Kept, Connecting
    <3>2. /\ Connector(u, co[c])
          /\ \A d, e \in Coroutines : Connecting(d) /\ Connecting(e) => d = e
      BY <3>1, Zenon DEF ProviderInv, ConnectorsOK
    <3>3. Connector(u', co'[c])
      BY <1>1, <1>2, <1>3, <3>2, Zenon DEF Connector, Kept, k
    <3>4. u'.state # "Disconnected"
      BY <1>2, <3>2, Zenon DEF Connector
    <3> QED BY <1>5, <3>1, <3>2, <3>3, <3>4, Zenon
  <2> QED BY <2>1, <2>2, Zenon DEF ConnectorsOK
<1>7. EnsuresUnlessEarly'
  BY <1>1, <1>3, Zenon DEF ProviderInv, EnsuresUnlessEarly, EnsuresSession, Coroutines
<1> QED BY <1>2, <1>4, <1>6, <1>7, Zenon DEF ProviderInv

\* The connector comes back from its set-up or its hook.
LEMMA ConnectorOK ==
    ASSUME ProviderInv, NEW c \in Coroutines,
           SetupFails(c) \/ HookReturns(c) \/ HookThrows(c)
    PROVE  ProviderInv'
<1>1. /\ Sound(u) /\ Connecting(c) /\ early' = early
      /\ mishaps \in 0 .. MaxMishap
      /\ mishaps' = mishaps \/ (mishaps < MaxMishap /\ mishaps' = mishaps + 1)
  BY Zenon DEF ProviderInv, TypeOK, SetupFails, HookReturns, HookThrows, Connecting, HookRan
<1>2. mishaps' \in 0 .. MaxMishap
  BY <1>1, ProviderAssumption
<1>3. ~ early /\ ~ u.stopped => \A d \in Coroutines \ {c} : ~ Connecting(d)
  BY <1>1, Zenon DEF ProviderInv, ConnectorsOK
<1>4. CASE Threw(c, ConnectFailed(u))
  <2> DEFINE U == ConnectFailed(u)
  <2>1. Sound(U) /\ U.stopped = u.stopped /\ U.session = 0
    BY <1>1, ConnectFailedSound, Zenon
  <2>2. Threw(c, U)
    BY <1>4, Zenon
  <2> HIDE DEF U
  <2> QED BY <1>1, <1>2, <1>3, <2>1, <2>2, LeaveOK, Zenon
<1>5. CASE Threw(c, [u EXCEPT !.wild = TRUE]) /\ ~ u.stopped /\ u.promise = 0 /\ HookReturns(c)
  <2> DEFINE U == [u EXCEPT !.wild = TRUE]
  <2>1. /\ U \in Provider /\ U.session = u.session /\ U.client = u.client /\ U.live = u.live
        /\ U.watched = u.watched /\ Held(U) = Held(u) /\ U.stopped = u.stopped
        /\ U.promise = u.promise /\ U.count = u.count /\ U.settled = u.settled /\ U.state = u.state
    BY <1>1, Zenon DEF Sound, Provider, Held
  <2>2. Threw(c, U)
    BY <1>5, Zenon
  <2> HIDE DEF U
  <2>3. Current(U) /\ Fresh(U)
    BY <1>1, <2>1, Zenon DEF Sound, Current, Fresh
  <2>4. Sound(U)
    BY <2>1, <2>3, Zenon DEF Sound
  <2>5. ~ early /\ ~ u.stopped => (U.session # 0 => U.state # "Disconnected")
    BY <2>1, Zenon DEF ProviderInv, ConnectorsOK
  <2> QED BY <1>1, <1>2, <1>3, <2>1, <2>2, <2>4, <2>5, LeaveOK, Zenon
<1>6. CASE Got(c, SetValue(u)) /\ ~ u.stopped /\ u.promise # 0 /\ HookReturns(c)
  <2> DEFINE U == SetValue(u)
  <2>1. Sound(U) /\ U.stopped = u.stopped /\ U.session = u.session /\ U.state = "Connected"
    BY <1>1, <1>6, SetValueSound, Zenon
  <2>2. Got(c, U)
    BY <1>6, Zenon
  <2> HIDE DEF U
  <2>3. early \/ U.session # 0
    BY <1>1, <1>6, <2>1, Zenon DEF ProviderInv, ConnectorsOK, Connector, HookReturns, HookRan
  <2> QED BY <1>1, <1>2, <1>3, <2>1, <2>2, <2>3, LeaveOK, Zenon
<1> QED BY <1>4, <1>5, <1>6, Zenon DEF SetupFails, HookReturns, HookThrows

\* The coroutines stay where they are.
LEMMA EventOK ==
    ASSUME ProviderInv, UNCHANGED co, Sound(u'), mishaps' \in 0 .. MaxMishap, early' \in BOOLEAN,
           early => early',
           ~ early' /\ ~ u'.stopped => u'.session = 0 /\ \A c \in Coroutines : ~ Connecting(c)
    PROVE  ProviderInv'
<1>1. TypeOK'
  BY Zenon DEF ProviderInv, TypeOK, Sound
<1>2. ConnectorsOK'
  BY Zenon DEF ProviderInv, ConnectorsOK, Connecting
<1>3. EnsuresUnlessEarly'
  BY Zenon DEF ProviderInv, EnsuresUnlessEarly, EnsuresSession
<1> QED BY <1>1, <1>2, <1>3, Zenon DEF ProviderInv

\* The network or the peer ends a session that is up, which is too early if
\* somebody is connecting.
LEMMA MishapEarly ==
    ASSUME ProviderInv, NEW s \in u.live, Mishap(s)
    PROVE  /\ mishaps' \in 0 .. MaxMishap /\ early' \in BOOLEAN /\ (early => early')
           /\ ~ early' /\ ~ u.stopped => \A c \in Coroutines : ~ Connecting(c)
<1>1. mishaps \in 0 .. MaxMishap /\ early \in BOOLEAN /\ mishaps < MaxMishap /\ mishaps' = mishaps + 1
  BY Zenon DEF ProviderInv, TypeOK, Mishap
<1>2. mishaps' \in 0 .. MaxMishap
  BY <1>1, ProviderAssumption
<1>3. early' = (early \/ \E c \in Coroutines : co[c].pc = "hook" /\ co[c].at = s)
  BY Zenon DEF Mishap
<1>4. ASSUME ~ early', ~ u.stopped, NEW c \in Coroutines, Connecting(c) PROVE FALSE
  <2>1. Connector(u, co[c])
    BY <1>3, <1>4, Zenon DEF ProviderInv, ConnectorsOK
  <2>2. u.client = s
    BY Zenon DEF ProviderInv, Sound, Current
  <2>3. co[c].pc = "hook" /\ co[c].at = s
    BY <1>4, <2>1, <2>2, Zenon DEF Connector, Connecting
  <2> QED BY <1>3, <1>4, <2>3, Zenon
<1> QED BY <1>1, <1>2, <1>3, <1>4, Zenon

\* A session may end at any time.
LEMMA SessionClosesOK ==
    ASSUME ProviderInv, NEW s \in 1 .. MaxConnect, SessionCloses(s)
    PROVE  ProviderInv'
<1>1. s \in u.live /\ Mishap(s) /\ u' = SessionEnds(u, s) /\ UNCHANGED co /\ Sound(u)
  BY Zenon DEF SessionCloses, ProviderInv
<1>2. u' \in Provider /\ Current(u') /\ Kept(u, u')
  BY <1>1, EndIsCurrent, Zenon DEF Sound
<1>3. Sound(u') /\ u'.stopped = u.stopped
  BY <1>1, <1>2, Zenon DEF Sound, Fresh, Kept
<1>4. u'.session = 0
  <2>1. s \in Numbers /\ u \in Provider
    BY <1>1 DEF Sound, Numbers
  <2>2. Ended(u, s, u')
    BY <1>1, <2>1, SessionEndsKeeps, Zenon
  <2> QED BY <1>1, <2>2, Zenon DEF Ended, Sound, Current
<1>5. /\ mishaps' \in 0 .. MaxMishap /\ early' \in BOOLEAN /\ (early => early')
      /\ ~ early' /\ ~ u.stopped => \A c \in Coroutines : ~ Connecting(c)
  BY <1>1, MishapEarly, Zenon
<1> QED BY <1>1, <1>3, <1>4, <1>5, EventOK, Zenon

\* The upstream may send a GOAWAY on the session that is kept.
LEMMA GoawayOK == ASSUME ProviderInv, goaway PROVE ProviderInv'
<1>1. u.session \in u.live /\ Mishap(u.session) /\ u' = onMoQSessionClosed(u) /\ UNCHANGED co /\ Sound(u)
  BY Zenon DEF goaway, ProviderInv, Sound, Current
<1>2. u' \in Provider /\ NoSession(u, u')
  BY <1>1, ClosedKeeps, Zenon DEF Sound
<1>3. Current(u')
  BY <1>1, <1>2, Zenon DEF NoSession, Kept, Sound, Current
<1>4. Fresh(u') /\ u'.stopped = u.stopped /\ u'.session = 0
  BY <1>1, <1>2, Zenon DEF NoSession, Kept, Sound, Fresh
<1>5. /\ mishaps' \in 0 .. MaxMishap /\ early' \in BOOLEAN /\ (early => early')
      /\ ~ early' /\ ~ u.stopped => \A c \in Coroutines : ~ Connecting(c)
  BY <1>1, MishapEarly, Zenon
<1> QED BY <1>1, <1>2, <1>3, <1>4, <1>5, EventOK, Zenon DEF Sound

\* The relay may stop the provider at any time.
LEMMA StopOK == ASSUME ProviderInv, stop PROVE ProviderInv'
<1>1. ~ u.stopped /\ u' = stopOnOwner(u) /\ Sound(u) /\ UNCHANGED <<co, mishaps, early>>
  BY Zenon DEF stop, ProviderInv
<1>2. /\ u' \in Provider /\ Current(u') /\ u'.stopped
      /\ u'.count = u.count /\ u'.promise = u.promise /\ u'.settled = u.settled
  BY <1>1, StopKeeps, Zenon DEF Sound
<1>3. Sound(u')
  BY <1>1, <1>2, Zenon DEF Sound, Fresh
<1>4. mishaps' \in 0 .. MaxMishap /\ early' \in BOOLEAN
  BY <1>1, Zenon DEF ProviderInv, TypeOK
<1> QED BY <1>1, <1>2, <1>3, <1>4, EventOK, Zenon
\* What the relay runs was posted: what it will hold stays as it is.
LEMMA RelayRunsOK ==
    ASSUME ProviderInv, NEW s \in 1 .. MaxConnect, RelayRuns(s)
    PROVE  ProviderInv'
<1>1. Sound(u) /\ u \in Provider /\ UNCHANGED <<co, mishaps, early>>
  BY Zenon DEF ProviderInv, Sound, RelayRuns
<1>2. ASSUME NEW b \in Calls, NEW h \in SUBSET (1 .. MaxConnect),
             u' = [u EXCEPT !.peered = h, !.posted[s] = b],
             \A r \in 1 .. MaxConnect : r # s => (r \in h <=> r \in u.peered),
             IF u.posted[s] = "none" THEN s \in u.peered <=> b = "connect" \/ (b = "none" /\ s \in h)
             ELSE u.posted[s] = "connect" <=> b = "connect" \/ (b = "none" /\ s \in h)
      PROVE  u' \in Provider /\ Alike(u, u')
  <2> DEFINE q == [u.posted EXCEPT ![s] = b]
  <2>1. q \in [1 .. MaxConnect -> Calls] /\ \A r \in 1 .. MaxConnect : q[r] = IF r = s THEN b ELSE u.posted[r]
    BY <1>1, Zenon DEF Provider
  <2>2. u' = [u EXCEPT !.peered = h, !.posted = q]
    BY <1>2, Zenon
  <2> HIDE DEF q
  <2>3. /\ u' \in Provider /\ u'.state = u.state /\ u'.session = u.session /\ u'.client = u.client
        /\ u'.live = u.live /\ u'.watched = u.watched /\ Kept(u, u') /\ u'.posted = q /\ u'.peered = h
    BY <1>1, <2>1, <2>2, ZenonT(60) DEF Provider, Kept
  <2>4. Held(u') = Held(u)
    <3> DEFINE V == u'
    <3>1. V.posted = q /\ V.peered = h
      BY <2>3, Zenon
    <3> HIDE DEF V
    <3>2. \A r \in 1 .. MaxConnect : r \in Held(V) <=> r \in Held(u)
      BY <1>2, <2>1, <3>1 DEF Held
    <3>3. Held(V) = Held(u)
      BY <3>2, Zenon DEF Held
    <3> QED BY <3>3, Zenon DEF V
  <2> QED BY <2>3, <2>4, Zenon DEF Alike
<1>3. u' \in Provider /\ Alike(u, u')
  <2>1. CASE u.posted[s] \in {"connect", "both"} /\ u' = onUpstreamConnect(u, s)
    <3> DEFINE b == IF u.posted[s] = "both" THEN "disconnect" ELSE "none"
               h == u.peered \cup {s}
    <3>1. b \in Calls /\ h \in SUBSET (1 .. MaxConnect) /\ u' = [u EXCEPT !.peered = h, !.posted[s] = b]
      BY <1>1, <2>1, Zenon DEF onUpstreamConnect, Calls, Provider
    <3>2. (\A r \in 1 .. MaxConnect : r # s => (r \in h <=> r \in u.peered)) /\ s \in h
      BY Zenon
    <3>3. u.posted[s] # "none" /\ b # "connect" /\ (b = "none" <=> u.posted[s] = "connect")
      BY <2>1
    <3> HIDE DEF b, h
    <3> QED BY <1>2, <3>1, <3>2, <3>3, Zenon
  <2>2. CASE u.posted[s] = "disconnect" /\ u' = onUpstreamDisconnect(u, s)
    <3> DEFINE b == "none"
               h == u.peered \ {s}
    <3>1. b \in Calls /\ h \in SUBSET (1 .. MaxConnect) /\ u' = [u EXCEPT !.peered = h, !.posted[s] = b]
      BY <1>1, <2>2, Zenon DEF onUpstreamDisconnect, Calls, Provider
    <3>2. (\A r \in 1 .. MaxConnect : r # s => (r \in h <=> r \in u.peered)) /\ s \notin h
      BY Zenon
    <3>3. u.posted[s] # "none" /\ u.posted[s] # "connect" /\ b # "connect"
      BY <2>2
    <3> HIDE DEF b, h
    <3> QED BY <1>2, <3>1, <3>2, <3>3, Zenon
  <2> QED BY <2>1, <2>2, Zenon DEF RelayRuns
<1>4. /\ Sound(u') /\ u'.stopped = u.stopped /\ u'.session = u.session /\ u'.state = u.state
      /\ \A b : Connector(u, b) => Connector(u', b)
  BY <1>1, <1>3, AlikeSound, Zenon DEF Alike, Kept
<1>5. TypeOK'
  BY <1>1, <1>4, Zenon DEF ProviderInv, TypeOK, Sound
<1>6. ConnectorsOK'
  BY <1>1, <1>4, Zenon DEF ProviderInv, ConnectorsOK, Connecting
<1>7. EnsuresUnlessEarly'
  BY <1>1, Zenon DEF ProviderInv, EnsuresUnlessEarly, EnsuresSession
<1> QED BY <1>4, <1>5, <1>6, <1>7, Zenon DEF ProviderInv
-----------------------------------------------------------------------------
\* At the start nobody has asked for anything.
LEMMA InitProvider == Init => ProviderInv
<1> SUFFICES ASSUME Init PROVE ProviderInv
  BY Zenon
<1>1. u \in Provider
  BY ProviderAssumption, SMTT(60) DEF Init, Provider, Numbers, Calls
<1>2. TypeOK
  <2>1. mishaps \in 0 .. MaxMishap /\ 0 \in Numbers
    BY ProviderAssumption, SMTT(60) DEF Init, Numbers
  <2>2. co \in [Coroutines -> [pc : Points, at : Numbers]]
    BY <2>1, Zenon DEF Init, Points
  <2> QED BY <1>1, <2>1, <2>2, Zenon DEF Init, TypeOK
<1>3. Current(u) /\ Fresh(u)
  BY DEF Init, Current, Fresh, Held
<1>4. ConnectorsOK
  BY Zenon DEF Init, ConnectorsOK, Connecting
<1>5. EnsuresUnlessEarly
  BY Zenon DEF Init, EnsuresUnlessEarly, EnsuresSession, Coroutines
<1> QED BY <1>1, <1>2, <1>3, <1>4, <1>5, Zenon DEF ProviderInv, Sound

\* Every step keeps the invariant.
LEMMA NextProvider == ProviderInv /\ [Next]_vars => ProviderInv'
<1> SUFFICES ASSUME ProviderInv, [Next]_vars PROVE ProviderInv'
  BY Zenon
<1>1. ASSUME NEW l \in Loops, StartLoop(l) \/ LoopWakes(l) PROVE ProviderInv'
  BY <1>1, LoopOK, Zenon
<1>2. ASSUME NEW c \in Coroutines, WaiterResumes(c) PROVE ProviderInv'
  BY <1>2, WaiterResumesOK, Zenon
<1>3. ASSUME NEW c \in Coroutines, SetupSucceeds(c) PROVE ProviderInv'
  BY <1>3, SetupSucceedsOK, Zenon
<1>4. ASSUME NEW c \in Coroutines, SetupFails(c) \/ HookReturns(c) \/ HookThrows(c) PROVE ProviderInv'
  BY <1>4, ConnectorOK, Zenon
<1>5. ASSUME NEW c \in Requests, Request(c) PROVE ProviderInv'
  <2>1. c \in Coroutines /\ ~ Connecting(c) /\ getOrConnectSession(c, u) /\ UNCHANGED <<mishaps, early>>
    BY <1>5, Zenon DEF Request, Coroutines, Connecting
  <2>2. u \in Provider /\ Alike(u, u)
    BY Zenon DEF ProviderInv, Sound, Alike, Kept
  <2> QED BY <2>1, <2>2, GetOrConnectOK, Zenon
<1>6. ASSUME NEW s \in 1 .. MaxConnect, SessionCloses(s) PROVE ProviderInv'
  BY <1>6, SessionClosesOK, Zenon
<1>a. ASSUME NEW s \in 1 .. MaxConnect, RelayRuns(s) PROVE ProviderInv'
  BY <1>a, RelayRunsOK, Zenon
<1>7. CASE goaway
  BY <1>7, GoawayOK, Zenon
<1>8. CASE stop
  BY <1>8, StopOK, Zenon
<1>9. CASE UNCHANGED vars
  BY <1>9, Zenon DEF vars, ProviderInv, TypeOK, Sound, ConnectorsOK, Connecting, EnsuresUnlessEarly, EnsuresSession
<1> QED BY <1>1, <1>2, <1>3, <1>4, <1>5, <1>6, <1>a, <1>7, <1>8, <1>9, Zenon DEF Next, Resumes, Relay

\* The invariant holds throughout.
LEMMA ProviderInvariant == Spec => []ProviderInv
  BY InitProvider, NextProvider, PTL DEF Spec

\* The session that UpstreamProvider keeps is up, is its client's, reports its
\* end and is the one the relay keeps handles of once it has run what the
\* provider posted to it; once it is stopped nothing is
\* left up, whatever the order of connects, closes, GOAWAYs and stop.
THEOREM SessionAlwaysCurrent == Spec => []SessionIsCurrent
<1>1. ProviderInv => SessionIsCurrent
  BY Zenon DEF ProviderInv, Sound, Current, SessionIsCurrent
<1> QED BY ProviderInvariant, <1>1, PTL

\* getOrConnectSession returns a session to whoever it returns to, unless one
\* ended while onConnect_ was still running on it.
THEOREM SessionIsEnsured == Spec => []EnsuresUnlessEarly
<1>1. ProviderInv => EnsuresUnlessEarly
  BY Zenon DEF ProviderInv
<1> QED BY ProviderInvariant, <1>1, PTL
=============================================================================
