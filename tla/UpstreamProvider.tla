-------------------------- MODULE UpstreamProvider --------------------------
(***************************************************************************)
(* UpstreamProvider (UpstreamProvider.cpp): one client connection to a     *)
(* remote relay, opened on demand, reopened when it drops, and shared by   *)
(* the coroutines that need it.  All of its state lives on one executor;   *)
(* what interleaves is the coroutines, at their awaits, with the events of *)
(* the session.  onConnect_ and onDisconnect_ post to the executor of the  *)
(* relay, which runs the calls on a session in the order they were posted; *)
(* calls on different sessions touch different handles.                    *)
(*                                                                         *)
(* The members of the object are the fields of the record u, so that the   *)
(* methods are operators from record to record and a method that calls     *)
(* another, or re-enters the object through the session's close callback,  *)
(* is one operator applied to another.  The k-th connect makes the k-th    *)
(* client, session and promise, which all have the number k; 0 is null.    *)
(***************************************************************************)
EXTENDS Naturals, FiniteSets

CONSTANTS
    Loops,        \* reconnectLoop() coroutines that can run at once
    Requests,     \* coroutines that call getOrConnectSession()
    MaxConnect,   \* bound: connects
    MaxMishap,    \* bound: sessions dropped, connects refused, hooks that throw
    MaxBackoff    \* kMaxReconnectBackoff, in units of kInitialReconnectBackoff

ASSUME ProviderAssumption ==
    /\ MaxConnect \in Nat /\ MaxMishap \in Nat /\ MaxBackoff \in Nat \ {0}
    /\ Loops \cap Requests = {}

VARIABLES
    u,         \* the provider
    co,        \* where each coroutine is, and the session or promise it is there for
    mishaps,   \* how often the network or the peer misbehaved
    early      \* has a session ended while onConnect_ was still running on it?

vars == <<u, co, mishaps, early>>

Coroutines == Loops \cup Requests
Numbers == 0 .. MaxConnect

\* onUpstreamConnect, onUpstreamDisconnect, or the one and then the other.
Calls == {"none", "connect", "disconnect", "both"}

Provider ==
    [state    : {"Disconnected", "Connecting", "Connected"},
     session  : Numbers,
     client   : Numbers,
     promise  : Numbers,                \* connectPromise_
     count    : Numbers,                \* connects so far
     settled  : [1 .. MaxConnect -> {"pending", "value", "error"}],
     live     : SUBSET (1 .. MaxConnect),  \* sessions that are up
     watched  : SUBSET (1 .. MaxConnect),  \* sessions with the close callback set
     posted   : [1 .. MaxConnect -> Calls], \* calls on their way to the relay
     peered   : SUBSET (1 .. MaxConnect),  \* MoqxRelay::upstreamHandles_
     backoff  : 0 .. MaxBackoff,
     spawned  : Nat,                    \* reconnectLoop()s queued on exec_
     stopped  : BOOLEAN,
     wild     : BOOLEAN]                \* an empty connectPromise_ was dereferenced

Points == {"off", "sleeping", "setup", "hook", "waiting", "got", "failed"}

\* Every member keeps its type: the backoff stays within its limit.
TypeOK ==
    /\ u \in Provider
    /\ co \in [Coroutines -> [pc : Points, at : Numbers]]
    /\ mishaps \in 0 .. MaxMishap
    /\ early \in BOOLEAN
-----------------------------------------------------------------------------
(***************************************************************************)
(* The methods.                                                            *)
(***************************************************************************)
\* Faulty form: the relay is not told that the session is gone.
resetSession_silent(U) ==
    [U EXCEPT !.watched = @ \ {U.session}, !.session = 0, !.state = "Disconnected"]

\* onDisconnect_ is gone once the provider is stopped.
resetSession(U) ==
    [U EXCEPT !.watched = @ \ {U.session},
              !.posted  = [s \in DOMAIN @ |-> IF s # U.session \/ U.stopped THEN @[s]
                                              ELSE IF @[s] = "connect" THEN "both" ELSE "disconnect"],
              !.session = 0,
              !.state   = "Disconnected"]

\* Faulty form: nobody reconnects.
onMoQSessionClosed_once(U) == resetSession(U)

\* onMoQSessionClosed, and goaway, which differs only in the url.
onMoQSessionClosed(U) ==
    LET V == resetSession(U) IN
    IF V.stopped THEN V ELSE [V EXCEPT !.backoff = 0, !.spawned = @ + 1]

\* Session s is over; the callback, if it is still set, runs within close().
SessionEnds(U, s) ==
    LET V == [U EXCEPT !.live = @ \ {s}, !.watched = @ \ {s}] IN
    IF s \in U.watched THEN onMoQSessionClosed(V) ELSE V

\* client_.reset(): ~MoQClientBase closes the client's session.
DropClient(U) ==
    IF U.client = 0 THEN U ELSE SessionEnds([U EXCEPT !.client = 0], U.client)

close(U) == [DropClient([U EXCEPT !.session = 0]) EXCEPT !.state = "Disconnected"]

stopOnOwner(U) == IF U.stopped THEN U ELSE close([U EXCEPT !.stopped = TRUE])

\* The first half of getOrConnectSession's own connect: emplace() destroys the
\* promise that was there, which fails those still waiting for it, and the
\* new client replaces the old one.
Connect(U) ==
    LET k == U.count + 1
        V == [U EXCEPT !.state   = "Connecting",
                       !.count   = k,
                       !.settled = [p \in DOMAIN @ |->
                                      IF p = U.promise /\ @[p] = "pending" THEN "error" ELSE @[p]],
                       !.promise = k]
    IN [DropClient(V) EXCEPT !.client = k]

\* doConnect up to the call of onConnect_, which goes to the relay.
Established(U, k) ==
    [U EXCEPT !.session = k,
              !.live    = @ \cup {k},
              !.watched = @ \cup {k},
              !.posted[k] = "connect"]

\* The relay makes room for the handles of session s, or drops them.
onUpstreamConnect(U, s) ==
    [U EXCEPT !.peered = @ \cup {s}, !.posted[s] = IF @ = "both" THEN "disconnect" ELSE "none"]
onUpstreamDisconnect(U, s) ==
    [U EXCEPT !.peered = @ \ {s}, !.posted[s] = "none"]

\* Faulty form: those waiting are not told.
ConnectFailed_silent(U) == DropClient([U EXCEPT !.state = "Disconnected"])

\* The catch clause of getOrConnectSession.  setException throws if the
\* promise is settled already, and then connectPromise_ stays as it is.
ConnectFailed(U) ==
    LET V == DropClient([U EXCEPT !.state = "Disconnected"]) IN
    IF V.promise = 0 THEN [V EXCEPT !.wild = TRUE]
    ELSE IF V.settled[V.promise] # "pending" THEN V
    ELSE [V EXCEPT !.settled[V.promise] = "error", !.promise = 0]

\* What follows a hook that returned without the provider being stopped.
SetValue(U) == [U EXCEPT !.state = "Connected", !.settled[U.promise] = "value"]

NextBackoff(b) ==
    IF b = 0 THEN 1 ELSE IF b * 2 < MaxBackoff THEN b * 2 ELSE MaxBackoff
-----------------------------------------------------------------------------
(***************************************************************************)
(* The two ways out of getOrConnectSession.  A request passes on what it   *)
(* gets; reconnectLoop ends when it gets a session, and otherwise sleeps   *)
(* and tries again.                                                        *)
(***************************************************************************)
Got(c, U) ==
    IF c \in Requests
    THEN /\ co' = [co EXCEPT ![c] = [pc |-> "got", at |-> U.session]]
         /\ u' = U
    ELSE /\ co' = [co EXCEPT ![c] = [pc |-> "off", at |-> 0]]
         /\ u' = [U EXCEPT !.backoff = 0]

Threw(c, U) ==
    IF c \in Requests
    THEN /\ co' = [co EXCEPT ![c] = [pc |-> "failed", at |-> 0]]
         /\ u' = U
    ELSE /\ co' = [co EXCEPT ![c] = [pc |-> IF U.stopped THEN "off" ELSE "sleeping", at |-> 0]]
         /\ u' = IF U.stopped THEN U ELSE [U EXCEPT !.backoff = NextBackoff(@)]

\* Coroutine c waits for the connect under way, or makes one of its own.
AwaitPromise(c, U) ==
    /\ U.state = "Connecting"
    /\ co' = [co EXCEPT ![c] = [pc |-> "waiting", at |-> U.promise]]
    /\ u' = U

OwnConnect(c, U) ==
    /\ U.count < MaxConnect
    /\ u' = Connect(U)
    /\ co' = [co EXCEPT ![c] = [pc |-> "setup", at |-> U.count + 1]]

HasSession(U) == U.state = "Connected" /\ U.session # 0

getOrConnectSession(c, U) ==
    \/ U.stopped /\ Threw(c, U)
    \/ ~ U.stopped /\ HasSession(U) /\ Got(c, U)
    \/ ~ U.stopped /\ AwaitPromise(c, U)
    \/ ~ U.stopped /\ ~ HasSession(U) /\ U.state # "Connecting" /\ OwnConnect(c, U)
-----------------------------------------------------------------------------
(***************************************************************************)
(* Steps of the coroutines.                                                *)
(***************************************************************************)
\* Nothing is said of what follows the use of an empty connectPromise_.
Running == ~ u.wild

\* subscribe, fetch, trackStatus, subscribeNamespace, subscribeTracks,
\* publishNamespace and publish all start this way; the fast path of getSession
\* is the second case of getOrConnectSession.
Request(c) ==
    /\ Running /\ co[c].pc = "off"
    /\ getOrConnectSession(c, u)
    /\ UNCHANGED <<mishaps, early>>

\* A queued reconnectLoop starts; with no backoff to sleep it connects at once.
StartLoop(l) ==
    /\ Running /\ u.spawned > 0 /\ co[l].pc = "off"
    /\ LET U == [u EXCEPT !.spawned = @ - 1] IN
       IF u.stopped \/ u.backoff > 0
       THEN /\ u' = U
            /\ co' = [co EXCEPT ![l].pc = IF u.stopped THEN "off" ELSE "sleeping"]
       ELSE getOrConnectSession(l, U)
    /\ UNCHANGED <<mishaps, early>>

\* The sleep is over, or stopSource_ cut it short.
LoopWakes(l) ==
    /\ Running /\ co[l].pc = "sleeping"
    /\ IF u.stopped THEN co' = [co EXCEPT ![l].pc = "off"] /\ u' = u
       ELSE getOrConnectSession(l, u)
    /\ UNCHANGED <<mishaps, early>>

\* Faulty form: nobody looks whether the session is still there.
WaiterResumes_blind(c) ==
    /\ Running /\ co[c].pc = "waiting"
    /\ \/ u.settled[co[c].at] = "value" /\ Got(c, u)
       \/ u.settled[co[c].at] = "error" /\ Threw(c, u)
    /\ UNCHANGED <<mishaps, early>>

\* A coroutine that waited for another's connect.  stopSource_ cancels the
\* wait of a loop.
WaiterResumes(c) ==
    /\ Running /\ co[c].pc = "waiting"
    /\ \/ u.settled[co[c].at] = "value" /\ u.session # 0 /\ Got(c, u)
       \/ u.settled[co[c].at] = "value" /\ u.session = 0 /\ Threw(c, u)
       \/ u.settled[co[c].at] = "error" /\ Threw(c, u)
       \/ u.settled[co[c].at] = "pending" /\ c \in Loops /\ u.stopped /\ Threw(c, u)
    /\ UNCHANGED <<mishaps, early>>

\* setupMoQSession succeeds: session_ is set and onConnect_ is called.
SetupSucceeds(c) ==
    /\ Running /\ co[c].pc = "setup" /\ u.client = co[c].at
    /\ u' = Established(u, co[c].at)
    /\ co' = [co EXCEPT ![c].pc = "hook"]
    /\ UNCHANGED <<mishaps, early>>

\* It fails: the peer refused or the timeout passed, or the client was
\* destroyed while it ran.
SetupFails(c) ==
    /\ Running /\ co[c].pc = "setup"
    /\ \/ u.client # co[c].at /\ UNCHANGED mishaps
       \/ u.client = co[c].at /\ mishaps < MaxMishap /\ mishaps' = mishaps + 1
    /\ Threw(c, ConnectFailed(u))
    /\ UNCHANGED early

\* onConnect_ is over once the relay has run it.
HookRan(c) == co[c].pc = "hook" /\ u.posted[co[c].at] \in {"none", "disconnect"}

\* It returns, with its session still up or not.  setValue throws when another
\* connect has settled the promise, which is caught like any failure.
HookReturns(c) ==
    /\ Running /\ HookRan(c)
    /\ \/ u.stopped /\ Threw(c, ConnectFailed(u))
       \/ ~ u.stopped /\ u.promise = 0 /\ Threw(c, [u EXCEPT !.wild = TRUE])
       \/ ~ u.stopped /\ u.promise # 0 /\ u.settled[u.promise] # "pending" /\ Threw(c, ConnectFailed(u))
       \/ ~ u.stopped /\ u.promise # 0 /\ u.settled[u.promise] = "pending" /\ Got(c, SetValue(u))
    /\ UNCHANGED <<mishaps, early>>

\* onConnect_ throws.
HookThrows(c) ==
    /\ Running /\ HookRan(c)
    /\ mishaps < MaxMishap
    /\ Threw(c, ConnectFailed(u))
    /\ mishaps' = mishaps + 1
    /\ UNCHANGED early
-----------------------------------------------------------------------------
(***************************************************************************)
(* The relay's executor, and events.                                       *)
(***************************************************************************)
RelayRuns(s) ==
    /\ Running
    /\ \/ u.posted[s] \in {"connect", "both"} /\ u' = onUpstreamConnect(u, s)
       \/ u.posted[s] = "disconnect" /\ u' = onUpstreamDisconnect(u, s)
    /\ UNCHANGED <<co, mishaps, early>>

\* The network or the peer ends session s.
Mishap(s) ==
    /\ mishaps < MaxMishap
    /\ mishaps' = mishaps + 1
    /\ early' = (early \/ \E c \in Coroutines : co[c].pc = "hook" /\ co[c].at = s)

\* The session closes: an error, a timeout, or the peer.
SessionCloses(s) ==
    /\ Running /\ s \in u.live
    /\ Mishap(s)
    /\ u' = SessionEnds(u, s)
    /\ UNCHANGED co

\* GOAWAY on the current session.
goaway ==
    /\ Running /\ u.session # 0
    /\ Mishap(u.session)
    /\ u' = onMoQSessionClosed(u)
    /\ UNCHANGED co

stop ==
    /\ Running /\ ~ u.stopped
    /\ u' = stopOnOwner(u)
    /\ UNCHANGED <<co, mishaps, early>>

\* MoqxRelayContext::startUpstream has queued start().
Init ==
    /\ u = [state |-> "Disconnected", session |-> 0, client |-> 0, promise |-> 0, count |-> 0,
            settled |-> [p \in 1 .. MaxConnect |-> "pending"],
            live |-> {}, watched |-> {}, posted |-> [s \in 1 .. MaxConnect |-> "none"], peered |-> {},
            backoff |-> 0, spawned |-> 1, stopped |-> FALSE, wild |-> FALSE]
    /\ co = [c \in Coroutines |-> [pc |-> "off", at |-> 0]]
    /\ mishaps = 0
    /\ early = FALSE

Resumes ==
    \/ \E l \in Loops : StartLoop(l)
    \/ \E l \in Loops : LoopWakes(l)
    \/ \E c \in Coroutines : WaiterResumes(c)
    \/ \E c \in Coroutines : SetupSucceeds(c)
    \/ \E c \in Coroutines : SetupFails(c)
    \/ \E c \in Coroutines : HookReturns(c)
    \/ \E c \in Coroutines : HookThrows(c)

Relay == \E s \in 1 .. MaxConnect : RelayRuns(s)

Next ==
    \/ Resumes
    \/ Relay
    \/ \E c \in Requests : Request(c)
    \/ \E s \in 1 .. MaxConnect : SessionCloses(s)
    \/ goaway
    \/ stop

Spec == Init /\ [][Next]_vars

\* exec_ and the relay's executor run what is queued on them, sleeps end,
\* setupMoQSession has a timeout, and the peer answers the requests onConnect_
\* sends.
FairSpec == Spec /\ WF_vars(Resumes) /\ WF_vars(Relay)
-----------------------------------------------------------------------------
(***************************************************************************)
(* Properties.                                                             *)
(***************************************************************************)
\* getOrConnectSession "ensures a session exists": whoever it returns to has one.
EnsuresSession == \A c \in Requests : co[c].pc = "got" => co[c].at # 0

\* That holds as long as no session ended during its own hook: a coroutine that
\* waited for another's connect looks again before it returns.
EnsuresUnlessEarly == early \/ EnsuresSession

\* The sessions whose handles the relay keeps once it has run what was posted.
Held(U) == {s \in 1 .. MaxConnect : IF U.posted[s] = "none" THEN s \in U.peered ELSE U.posted[s] = "connect"}

\* The current session is up, belongs to the current client, reports its end
\* to the provider, and is the one whose handles the relay keeps, or drops no
\* later than it has run what was posted to it; a stopped provider has no
\* client and leaves no session up (~UpstreamProvider).
SessionIsCurrent ==
    /\ u.session # 0 => u.session \in u.live /\ u.client = u.session
    /\ u.watched = IF u.session = 0 THEN {} ELSE {u.session}
    /\ ~ u.stopped => Held(u) = u.watched
    /\ u.stopped => u.session = 0 /\ u.client = 0 /\ u.live = {}

\* A provider that is not stopped gets its session back.
Reconnects == u.session = 0 ~> u.stopped \/ HasSession(u) \/ early

\* No request hangs.
RequestsEnd == \A c \in Requests : co[c].pc # "off" ~> co[c].pc \in {"got", "failed"} \/ early
=============================================================================
