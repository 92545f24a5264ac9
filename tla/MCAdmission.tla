---------------------------- MODULE MCAdmission -----------------------------
(* Instances of Admission for TLC. *)
EXTENDS Admission

Xcom == <<"x", "com">>
Axcom == <<"a", "x", "com">>
Root == <<"/">>
SlashA == <<"/", "a">>

MCAuthorities == {Xcom, Axcom, <<"b", "a", "x", "com">>, <<"b", "org">>, <<"com">>}
MCPaths == {<<>>, Root, SlashA, <<"/", "a", "b">>, <<"/", "b">>}
MCClients == {<<Xcom, SlashA>>, <<<<"b", "org">>, Root>>}
-----------------------------------------------------------------------------
\* Namespace fields and track names.
A == <<97>>
B == <<98>>
AB == <<97, 98>>

Rule(type, value) == {[type |-> type, value |-> value]}
Scope(actions, ns, track) == [actions |-> actions, namespaceMatches |-> ns, trackMatches |-> track]
Connect == Scope({"ClientSetup", "negative"}, {}, {})

Token == [type |-> 0, empty |-> FALSE, header |-> TRUE, kid |-> {}, secret |-> "s1", payload |-> TRUE,
          exp |-> {}, scopes |-> <<Connect>>, extra |-> FALSE]
Good == [Token EXCEPT !.kid = {"k1"}, !.exp = {1}, !.scopes =
            <<Connect, Scope({"Subscribe", "Fetch", "SubscribeNamespace"}, Rule("prefix", canonicalNamespace(<<A>>)), {})>>]
Pub == [Token EXCEPT !.secret = "s2", !.exp = {2}, !.scopes =
            <<Scope({"Publish", "PublishNamespace", "TrackStatus"}, Rule("suffix", canonicalNamespace(<<B>>)), {}),
              Scope({"Subscribe"}, Rule("contains", B), Rule("exact", A))>>]
Faraway == [Good EXCEPT !.exp = {4}]       \* past time_point::max()
Forged == [Good EXCEPT !.secret = "s2"]
Alien == [Good EXCEPT !.type = 1]
Extra == [Token EXCEPT !.extra = TRUE]
Broken == [Token EXCEPT !.payload = FALSE]

MCSetupParams == {<<>>, <<Good>>, <<Pub>>, <<Alien, Good>>, <<Extra>>, <<Good, Pub>>, <<Forged, Good>>, <<Faraway>>,
                  <<Broken>>, <<[Token EXCEPT !.header = FALSE]>>, <<[Good EXCEPT !.kid = {"k9"}]>>}

Names == {<<<<A>>, A>>, <<<<A, B>>, A>>, <<<<AB>>, B>>, <<<<B>>, AB>>}
MCRequests ==
    {[op |-> op, ns |-> n[1], track |-> n[2], params |-> ps, peer |-> FALSE] :
        op \in {"subscribe", "fetch", "subscribeNamespace", "subscribeTracks", "trackStatus", "publish",
                "publishNamespace"},
        n \in Names, ps \in {<<>>, <<Pub>>, <<Forged, Good>>}}
    \cup {[op |-> op, ns |-> <<B>>, track |-> A, params |-> <<>>, peer |-> TRUE] :
            op \in {"subscribeNamespace", "subscribeTracks", "publish"}}
-----------------------------------------------------------------------------
\* A configuration that is accepted, and what is varied in it.
Tls == [insecure |-> FALSE, cert |-> TRUE, key |-> TRUE, pkcs12 |-> FALSE, passwords |-> 0, loads |-> TRUE]
Sock == [address |-> "any", port |-> 443, bindable |-> TRUE]
Listener == [sock |-> Sock, tls |-> Tls, quic_stack |-> {}, moqt_versions |-> {}, quic |-> {}, mvfst |-> {}]
Cache == [NoCache EXCEPT !.enabled = {TRUE}, !.max_tracks = {1}, !.max_groups_per_track = {1}]
Entry(authority, path) == [authority |-> authority, path |-> path]
Match(kind, value) == [kind |-> kind, value |-> value]
Exactly == Entry(Match("exact", Xcom), Match("prefix", Root))
Service == [match |-> <<Exactly>>, cache |-> {}, buffer |-> {}, upstream |-> {}, upstreams |-> {}, auth |-> {}]
Base == [listeners |-> <<Listener>>, admin |-> {}, services |-> ("live" :> Service), relay_id |-> {},
         defaults |-> [quic |-> {}, mvfst |-> {}, cache |-> {Cache}, buffer |-> {64}, max_tokens |-> {}],
         threads |-> {}, use_relay_thread |-> {}, use_local_forwarders |-> {},
         logging |-> [mlog |-> {}, qlog |-> {}], cluster |-> {}]

Optional(S) == {{}} \cup {{x} : x \in S}
Quic(overlay) == [f \in DOMAIN QuicConfig |-> IF f \in DOMAIN overlay THEN {overlay[f]} ELSE {}]
Mvfst(overlay) == [f \in DOMAIN MvfstConfig |-> IF f \in DOMAIN overlay THEN {overlay[f]} ELSE {}]

Routes == {Entry(Match(m[1], m[2]), Match(k, p)) :
              m \in {<<"exact", Xcom>>, <<"exact", Axcom>>, <<"wildcard", <<"*", "x", "com">>>>, <<"any", <<>>>>},
              k \in {"exact", "prefix"}, p \in {Root, SlashA}}
BadRoutes == {Entry(Match("exact", <<>>), Match("prefix", Root)), Entry(Match("any", <<"false">>), Match("exact", Root)),
              Entry(Match("wildcard", <<"x", "com">>), Match("prefix", Root)),
              Entry(Match("wildcard", <<"*", "*">>), Match("prefix", Root)),
              Entry(Match("any", <<>>), Match("prefix", <<>>)), Entry(Match("any", <<>>), Match("exact", <<"a">>))}
Routing ==
    {[Base EXCEPT !.services = ("live" :> [Service EXCEPT !.match = <<r, q>>]) @@ ("vod" :> [Service EXCEPT !.match = <<t>>])]
        : r \in Routes, q \in Routes, t \in Routes}
    \cup {[Base EXCEPT !.services = ("live" :> [Service EXCEPT !.match = <<r>>])] : r \in BadRoutes}
    \cup {[Base EXCEPT !.services = <<>>]}

Transport ==
    {[Base EXCEPT !.defaults.quic = dq, !.defaults.mvfst = dm,
                  !.listeners = <<[Listener EXCEPT !.quic = q, !.mvfst = m, !.quic_stack = st]>>] :
        dq \in Optional({Quic([ccAlgo |-> "bbr2"]), Quic([ccAlgo |-> "cubic"]), Quic([maxData |-> 1, minAckDelayUs |-> 2])}),
        dm \in Optional({Mvfst([pacingEnabled |-> FALSE])}),
        q \in Optional({Quic([ccAlgo |-> "cubic"]), Quic([ccAlgo |-> "reno"]), Quic([maxStreamData |-> 1, maxAckDelayUs |-> 1])}),
        m \in Optional({Mvfst([pacingEnabled |-> TRUE]), Mvfst([numGROBuffers |-> 0]), Mvfst([deltaParamPct |-> 100]), Mvfst([ceTargetPct |-> NaN])}),
        st \in Optional({"picoquic", "proxygen_qmux"})}

Listening ==
    {[Base EXCEPT !.listeners = <<[Listener EXCEPT !.tls = t, !.quic_stack = st]>> \o more] :
        t \in [insecure : BOOLEAN, cert : BOOLEAN, key : BOOLEAN, pkcs12 : BOOLEAN, passwords : {2, 0}, loads : BOOLEAN],
        st \in Optional({"picoquic"}), more \in {<<>>, <<Listener>>}}
    \cup {[Base EXCEPT !.listeners = <<>>]}
    \cup {[Base EXCEPT !.listeners[1].sock = s, !.listeners[1].moqt_versions = v] :
            s \in [address : {"any"}, port : {0, 443}, bindable : BOOLEAN], v \in Optional({{16}, {16, 17}})}
    \cup {[Base EXCEPT !.admin = {[sock |-> Sock, plaintext |-> p, tls |-> t,
                                   limits |-> [default |-> d, max |-> m]]}] :
            p \in BOOLEAN, t \in Optional({Tls, [Tls EXCEPT !.key = FALSE]}), d \in Optional({20}),
            m \in Optional({0, 10, 30})}

Running ==
    {[Base EXCEPT !.threads = n, !.use_relay_thread = r, !.use_local_forwarders = l] :
        n \in Optional(0 .. 2), r \in Optional(BOOLEAN), l \in Optional(BOOLEAN)}
    \cup {[Base EXCEPT !.logging.mlog = m, !.logging.qlog = q] :
            m \in Optional([sample_rate : Optional({0, 101, NaN}), dir : {"none", "denied", "file", "ok"}]),
            q \in Optional([sample_rate : Optional({100, 101, NaN})])}
    \cup {[Base EXCEPT !.cluster = c] : c \in Optional([enabled : Optional({FALSE}), hop_id : Optional({"hop"})])}

CacheOf(e, t, g) == [NoCache EXCEPT !.enabled = e, !.max_tracks = t, !.max_groups_per_track = g]
Caching ==
    {[Base EXCEPT !.defaults.cache = d, !.services["live"].cache = {CacheOf(e, t, g)}] :
        d \in {{}} \cup {{CacheOf(de, {1}, dg)} : de \in Optional(BOOLEAN), dg \in Optional({0, 1})},
        e \in Optional(BOOLEAN), t \in Optional({0, 1}), g \in Optional({0, 1})}
    \cup {[Base EXCEPT !.defaults.buffer = b, !.services["live"].buffer = c] : b \in Optional({0}), c \in Optional({1})}
    \cup {[Base EXCEPT !.services["live"].cache = {[NoCache EXCEPT !.max_cached_mb = m, !.max_cache_duration_s = d]}] :
            m \in Optional(0 .. 1), d \in Optional(0 .. 1)}
    \cup {[Base EXCEPT !.services["live"].upstream = u, !.services["live"].upstreams = us] :
            u \in Optional({[url |-> "", insecure |-> FALSE, ca_cert |-> {}]}),
            us \in Optional({<<>>, <<[url |-> "u", insecure |-> TRUE, ca_cert |-> {"ca"}]>>})}
-----------------------------------------------------------------------------
Keys == <<[id |-> "k1", secret |-> "s1"], [id |-> "k2", secret |-> "s2"]>>
Claim == <<[actions |-> {"subscribe", "announce"}, namespace_match |-> Rule("exact", <<A, B>>), track_match |-> {}],
           [actions |-> {"fetch", "3"}, namespace_match |-> {}, track_match |-> Rule("prefix", B)]>>
AuthBlock == [enabled |-> TRUE, hmac_keys |-> {Keys}, token_type |-> {}, require_setup_token |-> {},
              allow_request_token_override |-> {}, strict_claims |-> {}, max_tokens_per_message |-> {},
              anonymous_claim |-> {}]
Guarded(auth, max) == [Base EXCEPT !.services["live"].auth = {auth}, !.defaults.max_tokens = max]

MCServed ==
    {Guarded([AuthBlock EXCEPT !.require_setup_token = q, !.allow_request_token_override = o, !.anonymous_claim = an],
             {m}) :
        q \in Optional({FALSE}), o \in Optional({FALSE}), an \in Optional({Claim}), m \in 1 .. 2}
    \cup {Guarded([AuthBlock EXCEPT !.strict_claims = {TRUE}], {1})}
    \cup {[Guarded(AuthBlock, {2}) EXCEPT !.relay_id = {""}], Guarded([AuthBlock EXCEPT !.enabled = FALSE], {}), Base}

Guarding ==
    {Guarded([AuthBlock EXCEPT !.enabled = e, !.hmac_keys = ks, !.max_tokens_per_message = own, !.token_type = t,
                               !.anonymous_claim = an], m) :
        e \in BOOLEAN, own \in Optional(0 .. 1), m \in Optional(0 .. 1), t \in Optional({3, 4}),
        ks \in Optional({<<>>, Keys, <<Keys[1], Keys[1]>>, <<[Keys[1] EXCEPT !.secret = ""]>>}),
        an \in Optional({<<[Claim[1] EXCEPT !.actions = {}]>>, <<[Claim[1] EXCEPT !.actions = {"fetch", "setup"}]>>,
                         <<[Claim[1] EXCEPT !.actions = {"drop"}]>>})}

MCConfigs == MCServed \cup Routing \cup Transport \cup Listening \cup Running \cup Caching \cup Guarding
=============================================================================
