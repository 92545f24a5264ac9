--------------------------- MODULE ConfigResolver ---------------------------
(***************************************************************************)
(* config/ConfigResolver.cpp: a parsed configuration is validated, merged  *)
(* with the defaults and resolved into the one the server runs on, or is   *)
(* rejected with all its errors.                                           *)
(*                                                                         *)
(* A parsed configuration is a record of the fields that a decision looks  *)
(* at; an optional field is a set of at most one element.  A validation    *)
(* is the set of its errors.  Warnings and the knobs that are only copied  *)
(* are left out.                                                           *)
(***************************************************************************)
EXTENDS Integers, Auth, ServiceMatcher

CONSTANTS
    Null,           \* what a dereferenced empty optional yields
    NaN,            \* the floating-point number that is none
    VarintLimit     \* kQuicVarintExclusiveUpperBound

Error(cond, error) == IF cond THEN {error} ELSE {}
Deref(o) == ValueOr(o, Null)

\* Field by field, what the overlay sets wins.
Merge(base, overlay) == [f \in DOMAIN base |-> IF overlay[f] # {} THEN overlay[f] ELSE base[f]]
Apply(base, overlay) == [f \in DOMAIN base |-> ValueOr(overlay[f], base[f])]
ApplyIf(base, overlay) == IF overlay = {} THEN base ELSE Apply(base, The(overlay))
-----------------------------------------------------------------------------
(***************************************************************************)
(* What the loader yields (config/loader/ParsedConfig.h); percentages for  *)
(* fractions.  The file system adds bindable, loads and dir.               *)
(***************************************************************************)
\* A floating-point number.
Float == Int \cup {NaN}

Opt(S) == {o \in SUBSET S : \A x, y \in o : x = y}

ParsedSocketConfig == [address : STRING, port : 0 .. 65535, bindable : BOOLEAN]
ParsedListenerTlsConfig ==
    [insecure : BOOLEAN, cert : BOOLEAN, key : BOOLEAN, pkcs12 : BOOLEAN, passwords : Nat, loads : BOOLEAN]
ParsedQuicConfig ==
    [maxData : Opt(Nat), maxStreamData : Opt(Nat), maxAckDelayUs : Opt(Nat), minAckDelayUs : Opt(Nat),
     ccAlgo : Opt(STRING)]
ParsedMvfstConfig ==
    [pacingEnabled : Opt(BOOLEAN), maxCwndInMss : Opt(Nat), maxConnPacketsSentPerLoop : Opt(Nat),
     numGROBuffers : Opt(Nat), h3TxnTimeoutDays : Opt(Nat), deltaParamPct : Opt(Float), ceTargetPct : Opt(Float)]
ParsedListenerConfig ==
    [sock : ParsedSocketConfig, tls : ParsedListenerTlsConfig, moqt_versions : Opt(SUBSET Nat),
     quic_stack : Opt({"mvfst", "picoquic", "proxygen_qmux"}),
     quic : Opt(ParsedQuicConfig), mvfst : Opt(ParsedMvfstConfig)]
ParsedCacheConfig ==
    [enabled : Opt(BOOLEAN), max_tracks : Opt(Nat), max_groups_per_track : Opt(Nat), max_cached_mb : Opt(Nat),
     min_eviction_kb : Opt(Nat), max_cache_duration_s : Opt(Nat), default_max_cache_duration_s : Opt(Nat)]
ParsedUpstreamConfig == [url : STRING, insecure : BOOLEAN, ca_cert : Opt(STRING)]
MatchRule ==
    [authority : [kind : {"exact", "wildcard", "any"}, value : Seq(STRING)],
     path : [kind : {"exact", "prefix"}, value : Seq(STRING)]]
AnonymousScope ==
    LET Rules(Value) == Opt([type : {"exact", "prefix", "suffix", "contains"}, value : Value])
    IN [actions : SUBSET STRING, namespace_match : Rules(Seq(Seq(Nat))), track_match : Rules(Seq(Nat))]
ParsedAuthConfig ==
    [enabled : BOOLEAN, token_type : Opt(Nat), hmac_keys : Opt(Seq([id : STRING, secret : STRING])),
     require_setup_token : Opt(BOOLEAN), allow_request_token_override : Opt(BOOLEAN), strict_claims : Opt(BOOLEAN),
     anonymous_claim : Opt(Seq(AnonymousScope)), max_tokens_per_message : Opt(Nat)]
ParsedServiceConfig ==
    [match : Seq(MatchRule), cache : Opt(ParsedCacheConfig), upstream : Opt(ParsedUpstreamConfig),
     upstreams : Opt(Seq(ParsedUpstreamConfig)), auth : Opt(ParsedAuthConfig), buffer : Opt(Nat)]
ParsedMLogConfig == [sample_rate : Opt(Float), dir : {"none", "denied", "file", "ok"}]
ParsedQLogConfig == [sample_rate : Opt(Float)]

ParsedConfig(c) ==
    /\ c.listeners \in Seq(ParsedListenerConfig)
    /\ \A n \in DOMAIN c.services : c.services[n] \in ParsedServiceConfig
    /\ c.defaults \in [quic : Opt(ParsedQuicConfig), mvfst : Opt(ParsedMvfstConfig), cache : Opt(ParsedCacheConfig),
                       buffer : Opt(Nat), max_tokens : Opt(Nat)]
    /\ c.threads \in Opt(Nat) /\ c.use_relay_thread \in Opt(BOOLEAN) /\ c.use_local_forwarders \in Opt(BOOLEAN)
    /\ c.logging \in [mlog : Opt(ParsedMLogConfig), qlog : Opt(ParsedQLogConfig)]
-----------------------------------------------------------------------------
(***************************************************************************)
(* Listeners and admin.  tls: insecure, cert, key, pkcs12 (the file is     *)
(* set), passwords (how many sources), loads (the bundle can be read).     *)
(***************************************************************************)
validateTlsFiles(tls) ==
    IF tls.pkcs12
    THEN Error(tls.cert \/ tls.key, "pkcs12 with cert or key") \cup Error(tls.passwords > 1, "passwords")
    ELSE Error(~ tls.cert \/ ~ tls.key, "no credentials")

resolvePkcs12Material(tls) ==
    Error(tls.pkcs12 /\ ~ tls.cert /\ ~ tls.key /\ ~ tls.loads, "pkcs12 bundle")

validateBindAddress(sock) == Error(~ sock.bindable, "address")

validateListener(l) ==
    LET pico == ValueOr(l.quic_stack, "mvfst") = "picoquic"
    IN Error(l.sock.port = 0, "port") \cup validateBindAddress(l.sock)
       \cup (IF l.tls.insecure THEN {} ELSE validateTlsFiles(l.tls))
       \cup Error(pico /\ l.tls.insecure, "picoquic needs credentials")
       \cup Error(pico /\ l.tls.pkcs12, "picoquic takes no pkcs12")
       \cup Error(\E v \in UNION l.moqt_versions : v \notin {16, 18}, "version")

\* The defaults of the structs QuicConfig and MvfstConfig.
QuicConfig == [maxData |-> 67108864, maxStreamData |-> 16777216,
               maxAckDelayUs |-> 25000, minAckDelayUs |-> 1000, ccAlgo |-> "bbr"]
MvfstConfig == [pacingEnabled |-> TRUE, maxCwndInMss |-> 860000, maxConnPacketsSentPerLoop |-> 48,
                numGROBuffers |-> 1, h3TxnTimeoutDays |-> 0, deltaParamPct |-> 5, ceTargetPct |-> 0]

mergeQuicConfig(defaults, own) == ApplyIf(ApplyIf(QuicConfig, defaults), own)
mergeMvfstConfig(defaults, own) == ApplyIf(ApplyIf(MvfstConfig, defaults), own)

CcAlgos(stack) == IF stack = "picoquic"
                  THEN {"bbr", "bbr1", "c4", "cubic", "dcubic", "fast", "newreno", "prague", "reno"}
                  ELSE {"bbr", "bbr2", "bbr2modular", "copa", "cubic", "newreno", "none"}

validateQuicConfig(quic, stack) ==
    Error(quic.maxData < quic.maxStreamData, "max_data")
    \cup Error(quic.maxAckDelayUs < quic.minAckDelayUs, "max_ack_delay_us")
    \cup Error(stack # "proxygen_qmux" /\ quic.ccAlgo \notin CcAlgos(stack), "cc_algo")

validateMvfstConfig(mvfst) ==
    Error(mvfst.maxCwndInMss = 0, "max_cwnd_in_mss")
    \cup Error(mvfst.maxConnPacketsSentPerLoop = 0, "max_conn_packets_sent_per_loop")
    \cup Error(mvfst.numGROBuffers = 0, "num_gro_buffers")
    \cup Error(mvfst.h3TxnTimeoutDays > 365, "h3_txn_timeout_ms")
    \cup Error(mvfst.deltaParamPct # NaN /\ (mvfst.deltaParamPct <= 0 \/ mvfst.deltaParamPct >= 100), "copa.delta_param")
    \cup Error(mvfst.ceTargetPct # NaN /\ (mvfst.ceTargetPct < 0 \/ mvfst.ceTargetPct >= 100), "l4s.ce_target")

\* What resolveConfig asks of one listener.
listenerErrors(l, config) ==
    LET quic == mergeQuicConfig(config.defaults.quic, l.quic)
        mvfst == mergeMvfstConfig(config.defaults.mvfst, l.mvfst)
        stack == ValueOr(l.quic_stack, "mvfst")
    IN validateListener(l)
       \cup (IF l.tls.insecure THEN {} ELSE resolvePkcs12Material(l.tls))
       \cup validateQuicConfig(quic, stack)
       \cup (IF stack # "mvfst" THEN {} ELSE
             validateMvfstConfig(mvfst)
             \cup Error(~ mvfst.pacingEnabled /\ quic.ccAlgo \in {"bbr", "bbr2", "bbr2modular"}, "pacing"))

validateListeners(config) ==
    (UNION {listenerErrors(config.listeners[i], config) : i \in DOMAIN config.listeners})
    \cup Error(\E i, j \in DOMAIN config.listeners :
                   /\ i # j /\ config.listeners[i].sock.address = config.listeners[j].sock.address
                   /\ config.listeners[i].sock.port = config.listeners[j].sock.port, "duplicate address")

resolveListener(l, config) ==
    [sock |-> l.sock, stack |-> ValueOr(l.quic_stack, "mvfst"),
     tls |-> IF l.tls.insecure THEN "insecure" ELSE IF l.tls.pkcs12 THEN "material" ELSE "files",
     quic |-> mergeQuicConfig(config.defaults.quic, l.quic),
     mvfst |-> mergeMvfstConfig(config.defaults.mvfst, l.mvfst)]

validateAdmin(admin) ==
    IF admin = {} THEN {} ELSE
    LET a == The(admin) IN
    Error(a.sock.port = 0, "admin port") \cup validateBindAddress(a.sock)
    \cup Error(a.plaintext <=> a.tls # {}, "admin: plaintext or tls")
    \cup UNION {validateTlsFiles(t) \cup resolvePkcs12Material(t) : t \in a.tls}

\* The limits are looked at only once the rest has been accepted.
resolveAdmin(admin) ==
    IF admin = {} THEN {} ELSE
    LET a == The(admin)
        limits == Apply([default |-> 10, max |-> 1000], a.limits)
    IN Error(a.limits.max # {} /\ The(a.limits.max) <= 0, "max limit")
       \cup Error(limits.default > limits.max, "default limit")
-----------------------------------------------------------------------------
(***************************************************************************)
(* Services: match entries, cache, auth, upstreams.                        *)
(***************************************************************************)
validateAuthority(a) ==
    CASE a.kind = "exact" -> Error(a.value = <<>>, "authority")
      [] a.kind = "wildcard" -> Error(\/ Len(a.value) < 2 \/ Head(a.value) # "*"
                                      \/ "*" \in Range(Tail(a.value)), "authority")
      [] a.kind = "any" -> Error(a.value # <<>>, "authority")    \* any: false

validatePath(p) == Error(p.value = <<>> \/ Head(p.value) # "/", "path")

validateEntry(e) == IF validateAuthority(e.authority) # {} THEN {"authority"} ELSE validatePath(e.path)

makeCompositeKey(e) == <<e.authority.kind, e.authority.value, e.path.kind, e.path.value>>

\* The entries of all services, each by its service and its place.
Entries(services) == UNION {{<<n, j>> : j \in DOMAIN services[n].match} : n \in DOMAIN services}
EntryAt(services, at) == services[at[1]].match[at[2]]

\* compositeKeys: only entries that are valid themselves are compared.
DuplicateEntries(services) ==
    LET valid == {at \in Entries(services) : validateEntry(EntryAt(services, at)) = {}}
    IN Error(\E at, to \in valid : at # to /\ makeCompositeKey(EntryAt(services, at))
                                             = makeCompositeKey(EntryAt(services, to)), "duplicate entry")

NoCache == [enabled |-> {}, max_tracks |-> {}, max_groups_per_track |-> {}, max_cached_mb |-> {},
            min_eviction_kb |-> {}, max_cache_duration_s |-> {}, default_max_cache_duration_s |-> {}]

mergedCache(svc, config) ==
    CASE svc.cache # {} /\ config.defaults.cache # {} -> Merge(The(config.defaults.cache), The(svc.cache))
      [] svc.cache # {} /\ config.defaults.cache = {} -> The(svc.cache)
      [] OTHER -> ValueOr(config.defaults.cache, NoCache)

validateCache(cache) ==
    Error(cache.enabled = {}, "cache.enabled") \cup Error(cache.max_tracks = {}, "cache.max_tracks")
    \cup Error(cache.max_groups_per_track = {}, "cache.max_groups_per_track")
    \cup Error(cache.enabled = {TRUE} /\ cache.max_groups_per_track = {0}, "cache.max_groups_per_track")
    \cup Error(cache.max_cache_duration_s = {0}, "cache.max_cache_duration_s")
    \cup Error(cache.max_cached_mb = {0}, "cache.max_cached_mb")

\* In seconds, as configured.
resolveCacheConfig(cache) ==
    LET longest == ValueOr(cache.max_cache_duration_s, 86400)
    IN [maxCachedTracks |-> IF Deref(cache.enabled) = TRUE THEN Deref(cache.max_tracks) ELSE 0,
        maxCachedGroupsPerTrack |-> Deref(cache.max_groups_per_track),
        maxCachedMb |-> ValueOr(cache.max_cached_mb, 16),
        minEvictionKb |-> ValueOr(cache.min_eviction_kb, 64),
        maxCacheDuration |-> longest,
        defaultMaxCacheDuration |-> ValueOr(cache.default_max_cache_duration_s, longest)]

mergedSubscriptionBufferKb(svc, config) ==
    IF svc.buffer # {} THEN svc.buffer ELSE config.defaults.buffer

validateUpstream(u) == Error(u.url = "", "upstream.url") \cup Error(u.insecure /\ u.ca_cert # {}, "upstream.tls")

validateUpstreams(svc) ==
    (UNION {validateUpstream(u) : u \in svc.upstream \cup UNION {Range(us) : us \in svc.upstreams}})
    \cup Error(svc.upstreams # {} /\ svc.upstream # {}, "upstream and upstreams")
-----------------------------------------------------------------------------
Action == {"ClientSetup", "ServerSetup", "PublishNamespace", "SubscribeNamespace", "Subscribe", "RequestUpdate",
           "Publish", "Fetch", "TrackStatus"}

\* Names are compared after trimming, in lower case and with underscores.
canonicalAction(name) ==
    CASE name \in {"client_setup", "setup", "0"} -> {"ClientSetup"}
      [] name \in {"server_setup", "1"} -> {"ServerSetup"}
      [] name \in {"publish_namespace", "announce", "2"} -> {"PublishNamespace"}
      [] name \in {"subscribe_namespace", "3"} -> {"SubscribeNamespace"}
      [] name \in {"subscribe", "4"} -> {"Subscribe"}
      [] name \in {"request_update", "subscribe_update", "5"} -> {"RequestUpdate"}
      [] name \in {"publish", "6"} -> {"Publish"}
      [] name \in {"fetch", "7"} -> {"Fetch"}
      [] name \in {"track_status", "8"} -> {"TrackStatus"}
      [] OTHER -> {}

validateScope(scope) ==
    Error(scope.actions = {}, "no actions")
    \cup UNION {LET a == canonicalAction(n)
                IN Error(a = {}, "unknown action")
                   \cup Error(a \cap {"ClientSetup", "ServerSetup"} # {}, "setup is not anonymous")
                : n \in scope.actions}

validateKeys(keys) ==
    Error(keys = {} \/ keys = {<<>>}, "hmac_keys")
    \cup UNION {Error(\E i \in DOMAIN ks : ks[i].id = "" \/ ks[i].secret = "", "empty key")
                \cup Error(\E i, j \in DOMAIN ks : i # j /\ ks[i].id = ks[j].id, "key id") : ks \in keys}

\* The anonymous claim is validated though auth may be off.
validateAuth(auth) ==
    (IF ~ auth.enabled THEN {} ELSE
     validateKeys(auth.hmac_keys)
     \cup Error(ValueOr(auth.token_type, 0) >= VarintLimit, "token_type")
     \cup Error(auth.max_tokens_per_message \in {{}, {0}}, "max_tokens_per_message"))
    \cup UNION {UNION {validateScope(claim[i]) : i \in DOMAIN claim} : claim \in auth.anonymous_claim}

\* Of the defaults, only the bound on tokens reaches a service's auth block.
mergedAuth(auth, config) ==
    [auth EXCEPT !.max_tokens_per_message = IF @ = {} THEN config.defaults.max_tokens ELSE @]

resolveAnonymousScope(scope) ==
    [actions |-> {Deref(canonicalAction(n)) : n \in scope.actions},
     namespaceMatches |-> scope.namespace_match, trackMatches |-> scope.track_match]

resolveAuth(svc, config) ==
    IF svc.auth = {} THEN [enabled |-> FALSE, tokenType |-> 0, requireSetupToken |-> TRUE,
                           allowRequestTokenOverride |-> TRUE, strictClaims |-> FALSE,
                           maxTokensPerMessage |-> 0, hmacKeys |-> <<>>, anonymousClaim |-> <<>>]
    ELSE LET auth == mergedAuth(The(svc.auth), config)
             claim == ValueOr(auth.anonymous_claim, <<>>)
         IN [enabled |-> auth.enabled, tokenType |-> ValueOr(auth.token_type, 0),
             requireSetupToken |-> ValueOr(auth.require_setup_token, TRUE),
             allowRequestTokenOverride |-> ValueOr(auth.allow_request_token_override, TRUE),
             strictClaims |-> ValueOr(auth.strict_claims, FALSE),
             maxTokensPerMessage |-> ValueOr(auth.max_tokens_per_message, 0),
             hmacKeys |-> ValueOr(auth.hmac_keys, <<>>),
             anonymousClaim |-> [i \in DOMAIN claim |-> resolveAnonymousScope(claim[i])]]
-----------------------------------------------------------------------------
validateService(svc, config) ==
    (UNION {validateEntry(svc.match[j]) : j \in DOMAIN svc.match})
    \cup validateCache(mergedCache(svc, config))
    \cup Error(mergedSubscriptionBufferKb(svc, config) = {}, "max_subscription_buffer_kb")
    \cup validateUpstreams(svc)
    \cup UNION {validateAuth(mergedAuth(auth, config)) : auth \in svc.auth}

resolveService(svc, config) ==
    [match |-> svc.match, cache |-> resolveCacheConfig(mergedCache(svc, config)),
     upstreams |-> IF svc.upstream # {} THEN <<The(svc.upstream)>> ELSE ValueOr(svc.upstreams, <<>>),
     auth |-> resolveAuth(svc, config),
     maxSubscriptionBufferKb |-> Deref(mergedSubscriptionBufferKb(svc, config))]

\* Faulty form: worker threads are not held against the relay thread.
validateThreads_apart(threads, relayThread, localForwarders) ==
    Error(threads = 0, "threads") \cup Error(localForwarders /\ ~ relayThread, "use_local_forwarders")

validateThreads(threads, relayThread, localForwarders) ==
    Error(threads = 0, "threads")
    \cup Error(threads > 1 /\ ~ relayThread, "use_relay_thread")
    \cup Error(localForwarders /\ ~ relayThread, "use_local_forwarders")

\* The comparisons of the validations are false of what is not a number.
NoRate(rate) == rate # NaN /\ (rate < 0 \/ rate > 100)

\* Sample rates in percent.  dir: what the file system says of mlog's directory,
\* which may be missing; it and qlog are looked at once the rest is accepted.
validateLogging(logging) ==
    UNION {UNION {Error(NoRate(rate), "mlog.sample_rate") : rate \in mlog.sample_rate} : mlog \in logging.mlog}

resolveLogging(logging) ==
    (UNION {Error(mlog.dir \in {"denied", "file"}, "mlog.dir") : mlog \in logging.mlog})
    \cup UNION {Error(NoRate(ValueOr(qlog.sample_rate, 0)), "qlog.sample_rate") : qlog \in logging.qlog}

\* The hop ID, if clustering is on; one is made up when none is configured.
resolveCluster(cluster) ==
    IF cluster = {} THEN {"generated"}
    ELSE IF ValueOr(The(cluster).enabled, TRUE) THEN {ValueOr(The(cluster).hop_id, "generated")} ELSE {}

resolveConfig(config) ==
    LET threads == ValueOr(config.threads, 1)
        relayThread == ValueOr(config.use_relay_thread, TRUE)
        localForwarders == ValueOr(config.use_local_forwarders, FALSE)
        errors == validateListeners(config) \cup validateAdmin(config.admin)
                  \cup Error(DOMAIN config.services = {}, "no service")
                  \cup (UNION {validateService(config.services[n], config) : n \in DOMAIN config.services})
                  \cup DuplicateEntries(config.services)
                  \cup validateThreads(threads, relayThread, localForwarders)
                  \cup validateLogging(config.logging)
        rejected == CASE config.listeners = <<>> -> {"no listener"}
                      [] config.listeners # <<>> /\ errors # {} -> errors
                      [] OTHER -> resolveAdmin(config.admin) \cup resolveLogging(config.logging)
    IN IF rejected # {} THEN [ok |-> FALSE, errors |-> rejected]
       ELSE [ok |-> TRUE,
             listeners |-> [i \in DOMAIN config.listeners |-> resolveListener(config.listeners[i], config)],
             services |-> [n \in DOMAIN config.services |-> resolveService(config.services[n], config)],
             peering |-> config.relay_id # {""}, cluster |-> resolveCluster(config.cluster),
             sampling |-> {ValueOr(log.sample_rate, 0) : log \in config.logging.mlog \cup config.logging.qlog},
             threads |-> threads, useRelayThread |-> relayThread, useLocalForwarders |-> localForwarders]
=============================================================================
