----------------------------- MODULE Admission ------------------------------
(***************************************************************************)
(* From a configuration to an answered request: the configuration is       *)
(* resolved and a MoqxRelayContext built on it; a client is routed to a    *)
(* service by authority and path and its setup tokens are verified; every  *)
(* request then goes through the service's auth filters, against the       *)
(* grants of the setup, the tokens of the request and the clock.           *)
(*                                                                         *)
(* Sessions share nothing that changes, so they are independent of each    *)
(* other; what a request does once it is let through is in other modules.  *)
(***************************************************************************)
EXTENDS ConfigResolver

CONSTANTS
    Configs,        \* the parsed configurations
    Served,         \* bound: those of them under which clients connect
    Sessions,
    Authorities, Paths,     \* what can be routed
    Clients,        \* bound: the <<authority, path>> that connect
    SetupParams,    \* the tokens of a CLIENT_SETUP
    Requests,       \* [op, ns, track, params, peer]
    Instants        \* bound: the readings of the clock

ASSUME AdmissionAssumption == Never \in Nat /\ Second \in Nat \ {0} /\ Instants \subseteq 0 .. Never - 1
ASSUME ConfigsAssumption == (\A c \in Configs : ParsedConfig(c)) /\ Null \notin Nat \cup Action /\ NaN \notin Int

VARIABLES
    config,         \* the configuration file
    server,         \* the resolved configuration
    matcher,        \* the service matcher of the relay context
    now,            \* system_clock
    session,        \* what a session holds: its service, its grants
    answer          \* the answer on its way to a client

vars == <<config, server, matcher, now, session, answer>>

Closed == [open |-> FALSE]
NoAnswer == [to |-> "none"]
NoMatcher == [built |-> FALSE]
Starting == [ok |-> FALSE, errors |-> {}]

Init ==
    /\ config \in Configs
    /\ server = Starting
    /\ matcher = NoMatcher
    /\ now = 0
    /\ session = [s \in Sessions |-> Closed]
    /\ answer = NoAnswer

\* resolveConfig, and the MoqxRelayContext when it succeeds; the services come
\* out of their hash map in any order.
Load ==
    /\ server = Starting
    /\ LET resolved == resolveConfig(config)
       IN /\ server' = resolved
          /\ IF ~ resolved.ok THEN UNCHANGED matcher
             ELSE \E order \in SetToSeqs(DOMAIN resolved.services) :
                      matcher' = NewServiceMatcher(resolved.services, order)
    /\ UNCHANGED <<config, now, session, answer>>
-----------------------------------------------------------------------------
closeCode(error) == CASE error = "Expired" -> "EXPIRED_AUTH_TOKEN"
                      [] error = "Malformed" -> "MALFORMED_AUTH_TOKEN"
                      [] OTHER -> "UNAUTHORIZED"

\* The server asks this of every CLIENT_SETUP; any other result than "ok"
\* closes the session.
admit(authority, path, params) ==
    LET matched == match(matcher, authority, path)
        result == authenticateSetup(server.services[The(matched)].auth, params, now)
    IN CASE matched = {} -> [code |-> "INVALID_AUTHORITY", session |-> Closed]
         [] matched # {} /\ result.ok ->
              [code |-> "ok", session |-> [open |-> TRUE, service |-> The(matched), grants |-> result.grants,
                                           authority |-> authority, path |-> path, tokens |-> params]]
         [] OTHER -> [code |-> closeCode(result.error), session |-> Closed]

Setup(s, authority, path, params) ==
    /\ server.ok /\ config \in Served /\ ~ session[s].open /\ answer = NoAnswer
    /\ LET result == admit(authority, path, params)
       IN /\ session' = [session EXCEPT ![s] = result.session]
          /\ answer' = [to |-> "setup", code |-> result.code, authority |-> authority, path |-> path,
                        params |-> params, at |-> now]
    /\ UNCHANGED <<config, server, matcher, now>>

\* The action that a filter asks for, and whether it is about a track.
actionOf(op) == CASE op = "subscribe" -> "Subscribe"
                  [] op = "fetch" -> "Fetch"
                  [] op \in {"subscribeNamespace", "subscribeTracks"} -> "SubscribeNamespace"
                  [] op = "trackStatus" -> "TrackStatus"
                  [] op = "publish" -> "Publish"
                  [] op = "publishNamespace" -> "PublishNamespace"
OfTrack(op) == op \in {"subscribe", "fetch", "trackStatus", "publish"}

\* A peer relay's subscription to a namespace is validated further down.
passes(r) == r.op \in {"subscribeNamespace", "subscribeTracks"} /\ server.peering /\ r.peer

\* With no grants (auth is off) the relay is installed without a filter.
filtered(S, r) ==
    IF S.grants = {} \/ passes(r) THEN Granted({})
    ELSE authorize(server.services[S.service].auth, actionOf(r.op), r.params, r.ns,
                   IF OfTrack(r.op) THEN r.track ELSE <<>>, The(S.grants), now)

Request(s, r) ==
    /\ session[s].open /\ answer = NoAnswer
    /\ LET result == filtered(session[s], r)
       IN answer' = [to |-> "request", ok |-> result.ok, session |-> session[s], request |-> r, at |-> now]
    /\ UNCHANGED <<config, server, matcher, now, session>>

\* onSessionEnd also finds the relay of the session, which does nothing.
SessionEnd(s) ==
    /\ session[s].open /\ answer = NoAnswer
    /\ session' = [session EXCEPT ![s] = Closed]
    /\ UNCHANGED <<config, server, matcher, now, answer>>

\* The client hears its answer.
Answered ==
    /\ answer # NoAnswer
    /\ answer' = NoAnswer
    /\ UNCHANGED <<config, server, matcher, now, session>>

Tick ==
    /\ server.ok /\ config \in Served /\ answer = NoAnswer
    /\ now' \in Instants /\ now' > now
    /\ UNCHANGED <<config, server, matcher, session, answer>>

Next ==
    \/ Load
    \/ \E s \in Sessions, c \in Clients, params \in SetupParams : Setup(s, c[1], c[2], params)
    \/ \E s \in Sessions, r \in Requests : Request(s, r)
    \/ \E s \in Sessions : SessionEnd(s)
    \/ Answered
    \/ Tick

Spec == Init /\ [][Next]_vars
-----------------------------------------------------------------------------
(***************************************************************************)
(* Properties.                                                             *)
(***************************************************************************)
\* Every client of an accepted configuration is routed by the documented
\* priority (exact authority, wildcard, any; exact path, longest prefix), to
\* one service whatever the order in which the services were read.
RoutedAsDocumented ==
    server.ok => \A a \in Authorities, p \in Paths :
                     match(matcher, a, p) = Preferred(server.services, a, p)

\* A configuration is accepted only if what runs on it can: no optional is
\* dereferenced empty; a relay without a thread of its own has one worker and
\* no local forwarders; the transport that results from the defaults and the
\* overrides together is coherent; a sample rate is one, unless it is not a
\* number at all; a cache that is on can hold a group; a verifier that is on has
\* distinct keys and takes a token, and what needs no token never includes setup.
AcceptedCanRun ==
    server.ok =>
      /\ server.threads >= 1
      /\ ~ server.useRelayThread => server.threads = 1 /\ ~ server.useLocalForwarders
      /\ server.sampling \subseteq (0 .. 100) \cup {NaN}
      /\ \A i \in DOMAIN server.listeners : LET l == server.listeners[i] IN
            /\ l.quic.maxData >= l.quic.maxStreamData /\ l.quic.maxAckDelayUs >= l.quic.minAckDelayUs
            /\ l.stack = "mvfst" /\ l.quic.ccAlgo \in {"bbr", "bbr2", "bbr2modular"} => l.mvfst.pacingEnabled
            /\ l.stack = "picoquic" => l.tls = "files"
            /\ \A j \in DOMAIN server.listeners : server.listeners[j].sock = l.sock => i = j
      /\ \A n \in DOMAIN server.services : LET svc == server.services[n] IN
            /\ Null \notin {svc.maxSubscriptionBufferKb, svc.cache.maxCachedTracks,
                            svc.cache.maxCachedGroupsPerTrack}
            /\ svc.cache.maxCachedTracks > 0 =>
                   svc.cache.maxCachedGroupsPerTrack > 0 /\ svc.cache.maxCachedMb > 0
                   /\ svc.cache.maxCacheDuration > 0
            /\ svc.auth.enabled => /\ svc.auth.hmacKeys # <<>> /\ svc.auth.maxTokensPerMessage > 0
                                   /\ IsInjective([i \in DOMAIN svc.auth.hmacKeys |-> svc.auth.hmacKeys[i].id])
            /\ \A i \in DOMAIN svc.auth.anonymousClaim :
                   svc.auth.anonymousClaim[i].actions \cap {Null, "ClientSetup", "ServerSetup"} = {}

\* What rules mean of a sequence, of bytes or of the fields of a namespace.
Fits(actual, rules) == \A r \in rules :
    \/ r.type = "exact" /\ actual = r.value
    \/ r.type = "prefix" /\ \E j \in 0 .. Len(actual) : SubSeq(actual, 1, j) = r.value
    \/ r.type = "suffix" /\ \E i \in 0 .. Len(actual) : SubSeq(actual, i + 1, Len(actual)) = r.value
    \/ r.type = "contains" /\ \E i, j \in 0 .. Len(actual) : SubSeq(actual, i + 1, j) = r.value
\* ns: the namespace as the rules of these scopes take it.
Covers(scopes, action, ns, track) == \E i \in DOMAIN scopes :
    action \in scopes[i].actions /\ Fits(ns, scopes[i].namespaceMatches) /\ Fits(track, scopes[i].trackMatches)

\* A token that the service issued, as it is configured, and that still holds:
\* its expiry is ahead, at a time that the clock can reach.
Holds(auth, t, at) ==
    /\ t.type = auth.tokenType /\ ~ t.empty /\ t.header /\ t.payload /\ ~ (auth.strictClaims /\ t.extra)
    /\ \E i \in DOMAIN auth.hmacKeys : auth.hmacKeys[i].secret = t.secret /\ t.kid \subseteq {auth.hmacKeys[i].id}
    /\ \A e \in t.exp : at < e * Second /\ e * Second <= Never
Backed(auth, tokens, action, ns, track, at) ==
    \E i \in DOMAIN tokens :
        Holds(auth, tokens[i], at) /\ Covers(tokens[i].scopes, action, canonicalNamespace(ns), track)
FewEnough(auth, params) ==
    Len(SelectSeq(params, LAMBDA t : t.type = auth.tokenType)) <= auth.maxTokensPerMessage

\* A client is admitted exactly when its service asks for no setup token or one
\* of its tokens, valid at that time, grants setup; the anonymous claim never
\* does.  A request is let through exactly when a token of the setup or, where
\* that is allowed, of the request, valid when the request is made, covers the
\* encoded namespace, or the anonymous claim covers its fields, or it is a peer
\* relay's subscription to a namespace, which is validated elsewhere: a grant
\* ends with its token, not with the session, and a bad token among good ones
\* takes nothing away.
AnswersFollowGrants ==
    /\ answer.to = "setup" =>
         LET service == Preferred(server.services, answer.authority, answer.path)
             auth == server.services[The(service)].auth
         IN answer.code = "ok" <=>
                /\ service # {}
                /\ \/ ~ auth.enabled
                   \/ /\ FewEnough(auth, answer.params)
                      /\ auth.requireSetupToken =>
                             Backed(auth, answer.params, "ClientSetup", <<>>, <<>>, answer.at)
    /\ answer.to = "request" =>
         LET auth == server.services[answer.session.service].auth
             r == answer.request
             track == IF OfTrack(r.op) THEN r.track ELSE <<>>
             tokens == answer.session.tokens \o IF auth.allowRequestTokenOverride THEN r.params ELSE <<>>
         IN answer.ok <=>
                \/ ~ auth.enabled \/ passes(r)
                \/ /\ FewEnough(auth, r.params)
                   /\ \/ Backed(auth, tokens, actionOf(r.op), r.ns, track, answer.at)
                      \/ Covers(auth.anonymousClaim, actionOf(r.op), r.ns, track)
=============================================================================
