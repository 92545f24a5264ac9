-------------------------- MODULE AdmissionProofs ---------------------------
(***************************************************************************)
(* What resolveConfig accepts, the server can run on: for any number of    *)
(* listeners, services, keys and scopes, any values of the numbers in them *)
(* and any choice of what a file leaves to the defaults.                   *)
(*                                                                         *)
(* A validation looks at what the file says, or at the merge of a service  *)
(* with the defaults; the resolution that follows it computes the merge    *)
(* again, fills in what is still open, and converts.  Part by part, the    *)
(* lemmas show that what was validated is what comes out.                  *)
(***************************************************************************)
EXTENDS Admission, TLAPS

\* The errors that keep a configuration from being resolved at all.
Errors(c) ==
    validateListeners(c) \cup validateAdmin(c.admin) \cup Error(DOMAIN c.services = {}, "no service")
    \cup (UNION {validateService(c.services[n], c) : n \in DOMAIN c.services})
    \cup DuplicateEntries(c.services)
    \cup validateThreads(ValueOr(c.threads, 1), ValueOr(c.use_relay_thread, TRUE),
                         ValueOr(c.use_local_forwarders, FALSE))
    \cup validateLogging(c.logging)

Resolved(c) ==
    [ok |-> TRUE,
     listeners |-> [i \in DOMAIN c.listeners |-> resolveListener(c.listeners[i], c)],
     services |-> [n \in DOMAIN c.services |-> resolveService(c.services[n], c)],
     peering |-> c.relay_id # {""}, cluster |-> resolveCluster(c.cluster),
     sampling |-> {ValueOr(log.sample_rate, 0) : log \in c.logging.mlog \cup c.logging.qlog},
     threads |-> ValueOr(c.threads, 1), useRelayThread |-> ValueOr(c.use_relay_thread, TRUE),
     useLocalForwarders |-> ValueOr(c.use_local_forwarders, FALSE)]

\* A configuration is accepted when no validation and neither of the late
\* resolutions finds an error.
LEMMA AcceptedMeans ==
    ASSUME NEW c, resolveConfig(c).ok
    PROVE  Errors(c) = {} /\ resolveLogging(c.logging) = {} /\ resolveConfig(c) = Resolved(c)
<1> DEFINE rejected == CASE c.listeners = <<>> -> {"no listener"}
                         [] c.listeners # <<>> /\ Errors(c) # {} -> Errors(c)
                         [] OTHER -> resolveAdmin(c.admin) \cup resolveLogging(c.logging)
<1>1. resolveConfig(c) = IF rejected # {} THEN [ok |-> FALSE, errors |-> rejected] ELSE Resolved(c)
  BY Zenon DEF resolveConfig, Errors, Resolved
<1>2. rejected = {}
  <2> HIDE DEF rejected
  <2>1. [ok |-> FALSE, errors |-> rejected].ok = FALSE
    OBVIOUS
  <2> QED BY <1>1, <2>1, Zenon
<1>3. resolveConfig(c) = Resolved(c)
  BY <1>1, <1>2, Zenon
<1>4. Errors(c) = {} /\ resolveLogging(c.logging) = {}
  BY <1>2, Zenon
<1> QED BY <1>3, <1>4, Zenon

\* An optional value, and what stands in for one that is missing.
LEMMA OptValue ==
    ASSUME NEW S, NEW o \in Opt(S)
    PROVE  o = {} \/ (o = {The(o)} /\ The(o) \in o /\ The(o) \in S)
  BY DEF Opt, The

LEMMA ValueTyped ==
    ASSUME NEW S, NEW o \in Opt(S), NEW d \in S
    PROVE  ValueOr(o, d) \in S
  BY OptValue, Zenon DEF ValueOr

\* Threads.
LEMMA ThreadsRun ==
    ASSUME NEW c, ParsedConfig(c), Errors(c) = {}
    PROVE  LET r == Resolved(c)
           IN /\ r.threads >= 1
              /\ ~ r.useRelayThread => r.threads = 1 /\ ~ r.useLocalForwarders
<1> DEFINE n == ValueOr(c.threads, 1)
           relay == ValueOr(c.use_relay_thread, TRUE)
           local == ValueOr(c.use_local_forwarders, FALSE)
<1>1. Resolved(c).threads = n /\ Resolved(c).useRelayThread = relay /\ Resolved(c).useLocalForwarders = local
  BY DEF Resolved
<1>2. n \in Nat
  <2>1. c.threads \in Opt(Nat) /\ 1 \in Nat
    BY DEF ParsedConfig
  <2> QED BY <2>1, ValueTyped, Zenon
<1> HIDE DEF n, relay, local
<1>3. validateThreads(n, relay, local) = {}
  BY Zenon DEF Errors, n, relay, local
<1>4. /\ Error(n = 0, "threads") = {}
      /\ Error(n > 1 /\ ~ relay, "use_relay_thread") = {}
      /\ Error(local /\ ~ relay, "use_local_forwarders") = {}
  BY <1>3, Zenon DEF validateThreads
<1>5. n # 0 /\ ~ (n > 1 /\ ~ relay) /\ ~ (local /\ ~ relay)
  BY <1>4, Zenon DEF Error
<1> QED BY <1>1, <1>2, <1>5

\* Sample rates.
LEMMA SamplingRuns ==
    ASSUME NEW c, ParsedConfig(c), Errors(c) = {}, resolveLogging(c.logging) = {}
    PROVE  Resolved(c).sampling \subseteq (0 .. 100) \cup {NaN}
<1> DEFINE L == c.logging
           rate(log) == ValueOr(log.sample_rate, 0)
<1>1. Resolved(c).sampling = {rate(log) : log \in L.mlog \cup L.qlog}
  BY DEF Resolved
<1>2. /\ \A log \in L.mlog \cup L.qlog : log.sample_rate \in Opt(Float)
  BY DEF ParsedConfig, Opt, ParsedMLogConfig, ParsedQLogConfig
<1>3. ASSUME NEW r \in Float, ~ NoRate(r)
      PROVE  r \in (0 .. 100) \cup {NaN}
  BY <1>3 DEF Float, NoRate
<1>4. 0 \in Float /\ ~ NoRate(0)
  BY DEF Float, NoRate
<1>5. ASSUME NEW log \in L.mlog
      PROVE  rate(log) \in (0 .. 100) \cup {NaN}
  <2>0. validateLogging(L) = {}
    BY Zenon DEF Errors
  <2>1. \A r \in log.sample_rate : Error(NoRate(r), "mlog.sample_rate") = {}
    <3> DEFINE E(mlog) == UNION {Error(NoRate(r), "mlog.sample_rate") : r \in mlog.sample_rate}
    <3>1. UNION {E(mlog) : mlog \in L.mlog} = {}
      BY <2>0, Zenon DEF validateLogging
    <3> HIDE DEF E
    <3>2. E(log) = {}
      BY <3>1, Zenon
    <3> QED BY <3>2, Zenon DEF E
  <2>2. \A r \in log.sample_rate : ~ NoRate(r)
    BY <2>1, Zenon DEF Error
  <2>3. log.sample_rate = {} \/ (The(log.sample_rate) \in log.sample_rate /\ The(log.sample_rate) \in Float)
    BY <1>2, OptValue, Zenon
  <2>4. rate(log) \in Float /\ ~ NoRate(rate(log))
    BY <1>4, <2>2, <2>3, Zenon DEF ValueOr
  <2> QED BY <1>3, <2>4, Zenon
<1>6. ASSUME NEW log \in L.qlog
      PROVE  rate(log) \in (0 .. 100) \cup {NaN}
  <2>1. Error(NoRate(rate(log)), "qlog.sample_rate") = {}
    BY Zenon DEF resolveLogging
  <2>2. ~ NoRate(rate(log))
    BY <2>1, Zenon DEF Error
  <2>3. rate(log) \in Float
    BY <1>2, <1>4, ValueTyped, Zenon
  <2> QED BY <1>3, <2>2, <2>3, Zenon
<1> QED BY <1>1, <1>5, <1>6, Zenon

\* The transport that the defaults and the overrides of a listener make.
Algo == STRING \cup {"bbr"}
ResolvedQuic == [maxData : Nat, maxStreamData : Nat, maxAckDelayUs : Nat, minAckDelayUs : Nat, ccAlgo : Algo]

LEMMA QuicApplied ==
    ASSUME NEW base \in ResolvedQuic, NEW o \in Opt(ParsedQuicConfig)
    PROVE  ApplyIf(base, o) \in ResolvedQuic
<1>1. CASE o = {}
  BY <1>1, Zenon DEF ApplyIf
<1>2. CASE o # {}
  <2> DEFINE v == The(o)
             q == Apply(base, v)
  <2>1. v \in ParsedQuicConfig /\ ApplyIf(base, o) = q
    BY <1>2, OptValue, Zenon DEF ApplyIf
  <2>2. /\ v.maxData \in Opt(Nat) /\ v.maxStreamData \in Opt(Nat) /\ v.maxAckDelayUs \in Opt(Nat)
        /\ v.minAckDelayUs \in Opt(Nat) /\ v.ccAlgo \in Opt(Algo)
    BY <2>1 DEF ParsedQuicConfig, Opt, Algo
  <2> HIDE DEF v
  <2>3. /\ base.maxData \in Nat /\ base.maxStreamData \in Nat /\ base.maxAckDelayUs \in Nat
        /\ base.minAckDelayUs \in Nat /\ base.ccAlgo \in Algo
    BY DEF ResolvedQuic
  <2>4. /\ ValueOr(v.maxData, base.maxData) \in Nat /\ ValueOr(v.maxStreamData, base.maxStreamData) \in Nat
        /\ ValueOr(v.maxAckDelayUs, base.maxAckDelayUs) \in Nat
        /\ ValueOr(v.minAckDelayUs, base.minAckDelayUs) \in Nat /\ ValueOr(v.ccAlgo, base.ccAlgo) \in Algo
    BY <2>2, <2>3, ValueTyped, Zenon
  <2>5. q = [maxData |-> ValueOr(v.maxData, base.maxData),
             maxStreamData |-> ValueOr(v.maxStreamData, base.maxStreamData),
             maxAckDelayUs |-> ValueOr(v.maxAckDelayUs, base.maxAckDelayUs),
             minAckDelayUs |-> ValueOr(v.minAckDelayUs, base.minAckDelayUs), ccAlgo |-> ValueOr(v.ccAlgo, base.ccAlgo)]
    BY DEF Apply, ResolvedQuic
  <2> HIDE DEF q
  <2> QED BY <2>1, <2>4, <2>5 DEF ResolvedQuic
<1> QED BY <1>1, <1>2, Zenon

LEMMA QuicMerged ==
    ASSUME NEW d \in Opt(ParsedQuicConfig), NEW o \in Opt(ParsedQuicConfig)
    PROVE  LET q == mergeQuicConfig(d, o)
           IN q.maxData \in Nat /\ q.maxStreamData \in Nat /\ q.maxAckDelayUs \in Nat /\ q.minAckDelayUs \in Nat
<1>1. QuicConfig \in ResolvedQuic
  BY DEF QuicConfig, ResolvedQuic, Algo
<1>2. ApplyIf(QuicConfig, d) \in ResolvedQuic
  BY <1>1, QuicApplied, Zenon
<1>3. mergeQuicConfig(d, o) \in ResolvedQuic
  BY <1>2, QuicApplied, Zenon DEF mergeQuicConfig
<1> QED BY <1>3 DEF ResolvedQuic

LEMMA ListenersRun ==
    ASSUME NEW c, ParsedConfig(c), Errors(c) = {}, NEW i \in DOMAIN c.listeners
    PROVE  LET l == Resolved(c).listeners[i]
           IN /\ l.quic.maxData >= l.quic.maxStreamData /\ l.quic.maxAckDelayUs >= l.quic.minAckDelayUs
              /\ l.stack = "mvfst" /\ l.quic.ccAlgo \in {"bbr", "bbr2", "bbr2modular"} => l.mvfst.pacingEnabled
              /\ l.stack = "picoquic" => l.tls = "files"
              /\ \A j \in DOMAIN c.listeners : Resolved(c).listeners[j].sock = l.sock => i = j
<1> DEFINE p == c.listeners[i]
           l == Resolved(c).listeners[i]
           stack == ValueOr(p.quic_stack, "mvfst")
           quic == mergeQuicConfig(c.defaults.quic, p.quic)
           mvfst == mergeMvfstConfig(c.defaults.mvfst, p.mvfst)
<1>1. \A j \in DOMAIN c.listeners : Resolved(c).listeners[j] = resolveListener(c.listeners[j], c)
  <2>1. Resolved(c).listeners = [j \in DOMAIN c.listeners |-> resolveListener(c.listeners[j], c)]
    BY Zenon DEF Resolved
  <2> QED BY <2>1, Zenon
<1>2. \A j \in DOMAIN c.listeners : Resolved(c).listeners[j].sock = c.listeners[j].sock
  <2> TAKE j \in DOMAIN c.listeners
  <2>1. Resolved(c).listeners[j] = resolveListener(c.listeners[j], c)
    BY <1>1, Zenon
  <2>2. resolveListener(c.listeners[j], c).sock = c.listeners[j].sock
    BY DEF resolveListener
  <2> QED BY <2>1, <2>2, Zenon
<1>3. /\ l.stack = stack /\ l.quic = quic /\ l.mvfst = mvfst
      /\ l.tls = IF p.tls.insecure THEN "insecure" ELSE IF p.tls.pkcs12 THEN "material" ELSE "files"
  <2>1. l = resolveListener(p, c)
    BY <1>1, Zenon
  <2> HIDE DEF l, p
  <2>2. /\ resolveListener(p, c).stack = stack /\ resolveListener(p, c).quic = quic
        /\ resolveListener(p, c).mvfst = mvfst
        /\ resolveListener(p, c).tls
              = IF p.tls.insecure THEN "insecure" ELSE IF p.tls.pkcs12 THEN "material" ELSE "files"
    BY DEF resolveListener
  <2> QED BY <2>1, <2>2, Zenon
<1>4. c.defaults.quic \in Opt(ParsedQuicConfig) /\ p.quic \in Opt(ParsedQuicConfig)
  <2>1. p \in ParsedListenerConfig
    BY DEF ParsedConfig
  <2> QED BY <2>1 DEF ParsedConfig, ParsedListenerConfig
<1>5. quic.maxData \in Nat /\ quic.maxStreamData \in Nat /\ quic.maxAckDelayUs \in Nat /\ quic.minAckDelayUs \in Nat
  BY <1>4, QuicMerged, Zenon
<1> HIDE DEF stack, quic, mvfst
<1>6. validateListeners(c) = {}
  BY Zenon DEF Errors
<1>7. listenerErrors(p, c) = {}
  BY <1>6, Zenon DEF validateListeners
<1>8. /\ validateListener(p) = {} /\ validateQuicConfig(quic, stack) = {}
      /\ (IF stack # "mvfst" THEN {} ELSE
          validateMvfstConfig(mvfst)
          \cup Error(~ mvfst.pacingEnabled /\ quic.ccAlgo \in {"bbr", "bbr2", "bbr2modular"}, "pacing")) = {}
  BY <1>7, Zenon DEF listenerErrors, stack, quic, mvfst
<1>9. /\ Error(quic.maxData < quic.maxStreamData, "max_data") = {}
      /\ Error(quic.maxAckDelayUs < quic.minAckDelayUs, "max_ack_delay_us") = {}
  BY <1>8, Zenon DEF validateQuicConfig
<1>10. ~ (quic.maxData < quic.maxStreamData) /\ ~ (quic.maxAckDelayUs < quic.minAckDelayUs)
  BY <1>9, Zenon DEF Error
<1>11. quic.maxData >= quic.maxStreamData /\ quic.maxAckDelayUs >= quic.minAckDelayUs
  BY <1>5, <1>10
<1>12. stack = "mvfst" /\ quic.ccAlgo \in {"bbr", "bbr2", "bbr2modular"} => mvfst.pacingEnabled
  <2>1. ASSUME stack = "mvfst"
        PROVE  Error(~ mvfst.pacingEnabled /\ quic.ccAlgo \in {"bbr", "bbr2", "bbr2modular"}, "pacing") = {}
    BY <1>8, <2>1, Zenon
  <2> QED BY <2>1, Zenon DEF Error
<1>13. stack = "picoquic" => ~ p.tls.insecure /\ ~ p.tls.pkcs12
  <2> DEFINE pico == stack = "picoquic"
  <2>1. /\ Error(pico /\ p.tls.insecure, "picoquic needs credentials") = {}
        /\ Error(pico /\ p.tls.pkcs12, "picoquic takes no pkcs12") = {}
    BY <1>8, Zenon DEF validateListener, stack
  <2> QED BY <2>1, Zenon DEF Error
<1>14. \A j \in DOMAIN c.listeners : c.listeners[j].sock = p.sock => i = j
  <2> DEFINE same == \E k, j \in DOMAIN c.listeners :
                         /\ k # j /\ c.listeners[k].sock.address = c.listeners[j].sock.address
                         /\ c.listeners[k].sock.port = c.listeners[j].sock.port
  <2>1. Error(same, "duplicate address") = {}
    BY <1>6, Zenon DEF validateListeners
  <2>2. ~ same
    BY <2>1, Zenon DEF Error
  <2> QED BY <2>2, Zenon
<1>15. stack = "picoquic" => l.tls = "files"
  BY <1>3, <1>13, Zenon
<1> HIDE DEF l
<1> QED BY <1>1, <1>2, <1>3, <1>11, <1>12, <1>14, <1>15, Zenon DEF l

\* The cache of a service.
LEMMA CacheTyped ==
    ASSUME NEW c, ParsedConfig(c), NEW s \in ParsedServiceConfig
    PROVE  mergedCache(s, c) \in ParsedCacheConfig
<1> DEFINE d == c.defaults.cache
           own == s.cache
<1>1. d \in Opt(ParsedCacheConfig) /\ own \in Opt(ParsedCacheConfig)
  BY DEF ParsedConfig, ParsedServiceConfig
<1>2. NoCache \in ParsedCacheConfig
  <2>1. {} \in Opt(BOOLEAN) /\ {} \in Opt(Nat)
    BY DEF Opt
  <2> QED BY <2>1 DEF NoCache, ParsedCacheConfig
<1>3. CASE own = {}
  <2>1. mergedCache(s, c) = ValueOr(d, NoCache)
    BY <1>3, Zenon DEF mergedCache
  <2> QED BY <1>1, <1>2, <2>1, ValueTyped, Zenon
<1>4. CASE own # {} /\ d = {}
  <2>1. mergedCache(s, c) = The(own)
    BY <1>4, Zenon DEF mergedCache
  <2>2. The(own) \in ParsedCacheConfig
    <3> HIDE DEF own
    <3> QED BY <1>1, <1>4, OptValue, Zenon
  <2> QED BY <2>1, <2>2, Zenon
<1>5. CASE own # {} /\ d # {}
  <2> DEFINE b == The(d)
             o == The(own)
             m == Merge(b, o)
  <2>1. mergedCache(s, c) = m
    BY <1>5, Zenon DEF mergedCache
  <2>2. b \in ParsedCacheConfig /\ o \in ParsedCacheConfig
    BY <1>1, <1>5, OptValue, Zenon
  <2> HIDE DEF b, o
  <2>3. m \in ParsedCacheConfig
    BY <2>2 DEF Merge, ParsedCacheConfig
  <2> QED BY <2>1, <2>3, Zenon
<1> QED BY <1>3, <1>4, <1>5, Zenon

LEMMA CacheRuns ==
    ASSUME NEW m \in ParsedCacheConfig, validateCache(m) = {}
    PROVE  LET r == resolveCacheConfig(m)
           IN /\ r.maxCachedTracks \in Nat /\ r.maxCachedGroupsPerTrack \in Nat
              /\ r.maxCachedTracks > 0 =>
                     r.maxCachedGroupsPerTrack > 0 /\ r.maxCachedMb > 0 /\ r.maxCacheDuration > 0
<1> DEFINE r == resolveCacheConfig(m)
           on == Deref(m.enabled)
           tracks == Deref(m.max_tracks)
           depth == Deref(m.max_groups_per_track)
           mb == ValueOr(m.max_cached_mb, 16)
           longest == ValueOr(m.max_cache_duration_s, 86400)
<1>1. /\ r.maxCachedTracks = (IF on = TRUE THEN tracks ELSE 0) /\ r.maxCachedGroupsPerTrack = depth
      /\ r.maxCachedMb = mb /\ r.maxCacheDuration = longest
  BY DEF resolveCacheConfig
<1>2. /\ m.enabled \in Opt(BOOLEAN) /\ m.max_tracks \in Opt(Nat) /\ m.max_groups_per_track \in Opt(Nat)
      /\ m.max_cached_mb \in Opt(Nat) /\ m.max_cache_duration_s \in Opt(Nat)
  BY DEF ParsedCacheConfig
<1>3. /\ m.enabled # {} /\ m.max_tracks # {} /\ m.max_groups_per_track # {}
      /\ ~ (m.enabled = {TRUE} /\ m.max_groups_per_track = {0})
      /\ m.max_cache_duration_s # {0} /\ m.max_cached_mb # {0}
  BY Zenon DEF validateCache, Error
<1>4. m.enabled = {on} /\ m.max_tracks = {tracks} /\ tracks \in Nat /\ m.max_groups_per_track = {depth} /\ depth \in Nat
  BY <1>2, <1>3, OptValue, Zenon DEF Deref, ValueOr
<1>5. mb \in Nat \ {0}
  <2>1. m.max_cached_mb = {} \/ (m.max_cached_mb = {The(m.max_cached_mb)} /\ The(m.max_cached_mb) \in Nat)
    BY <1>2, OptValue, Zenon
  <2> QED BY <1>3, <2>1 DEF ValueOr
<1>6. longest \in Nat \ {0}
  <2> DEFINE o == m.max_cache_duration_s
  <2>1. o = {} \/ (o = {The(o)} /\ The(o) \in Nat)
    BY <1>2, OptValue, Zenon
  <2> QED BY <1>3, <2>1 DEF ValueOr
<1> HIDE DEF r, on, tracks, depth, mb, longest
<1>7. on = TRUE => depth # 0
  BY <1>3, <1>4, Zenon
<1> QED BY <1>1, <1>4, <1>5, <1>6, <1>7 DEF r

\* What needs no token.
LEMMA CanonicalAction ==
    ASSUME NEW n
    PROVE  canonicalAction(n) = {} \/ \E x \in Action : canonicalAction(n) = {x}
  BY Zenon DEF canonicalAction, Action

LEMMA ScopeRuns ==
    ASSUME NEW scope, validateScope(scope) = {}
    PROVE  resolveAnonymousScope(scope).actions \cap {Null, "ClientSetup", "ServerSetup"} = {}
<1>1. resolveAnonymousScope(scope).actions = {Deref(canonicalAction(n)) : n \in scope.actions}
  BY DEF resolveAnonymousScope
<1>2. ASSUME NEW n \in scope.actions
      PROVE  Deref(canonicalAction(n)) \notin {Null, "ClientSetup", "ServerSetup"}
  <2> DEFINE a == canonicalAction(n)
  <2>1. Error(a = {}, "unknown action") = {} /\ Error(a \cap {"ClientSetup", "ServerSetup"} # {}, "setup is not anonymous") = {}
    <3> DEFINE E(k) == Error(canonicalAction(k) = {}, "unknown action")
                       \cup Error(canonicalAction(k) \cap {"ClientSetup", "ServerSetup"} # {}, "setup is not anonymous")
    <3>1. UNION {E(k) : k \in scope.actions} = {}
      BY Zenon DEF validateScope
    <3> HIDE DEF E
    <3>2. E(n) = {}
      BY <3>1, Zenon
    <3> QED BY <3>2, Zenon DEF E
  <2> HIDE DEF a
  <2>2. a # {} /\ a \cap {"ClientSetup", "ServerSetup"} = {}
    BY <2>1, Zenon DEF Error
  <2>3. PICK x \in Action : a = {x}
    BY <2>2, CanonicalAction, Zenon DEF a
  <2>4. Deref(a) = x
    BY <2>3, Zenon DEF Deref, ValueOr, The
  <2>5. Null \notin Action
    BY ConfigsAssumption, Zenon
  <2>6. x \notin {Null, "ClientSetup", "ServerSetup"}
    BY <2>2, <2>3, <2>5, Zenon
  <2> QED BY <2>4, <2>6, Zenon DEF a
<1> QED BY <1>1, <1>2, Zenon

\* The keys of a verifier.
LEMMA KeysRun ==
    ASSUME NEW S, NEW keys \in Opt(S), validateKeys(keys) = {}
    PROVE  LET ks == ValueOr(keys, <<>>)
           IN ks # <<>> /\ IsInjective([i \in DOMAIN ks |-> ks[i].id])
<1> DEFINE ks == The(keys)
           twice == \E i, j \in DOMAIN ks : i # j /\ ks[i].id = ks[j].id
           empty == \E i \in DOMAIN ks : ks[i].id = "" \/ ks[i].secret = ""
           f == [i \in DOMAIN ks |-> ks[i].id]
<1>1. Error(keys = {} \/ keys = {<<>>}, "hmac_keys") = {}
  BY Zenon DEF validateKeys
<1>2. keys # {} /\ keys # {<<>>}
  BY <1>1, Zenon DEF Error
<1>3. keys = {ks} /\ ValueOr(keys, <<>>) = ks
  BY <1>2, OptValue, Zenon DEF ValueOr
<1>4. Error(empty, "empty key") \cup Error(twice, "key id") = {}
  <2> DEFINE E(k) == Error(\E i \in DOMAIN k : k[i].id = "" \/ k[i].secret = "", "empty key")
                     \cup Error(\E i, j \in DOMAIN k : i # j /\ k[i].id = k[j].id, "key id")
  <2>1. UNION {E(k) : k \in keys} = {}
    BY Zenon DEF validateKeys
  <2> HIDE DEF E
  <2>2. E(ks) = {}
    BY <1>3, <2>1, Zenon
  <2> QED BY <2>2, Zenon DEF E
<1>5. ~ twice
  BY <1>4, Zenon DEF Error
<1> HIDE DEF ks
<1>6. IsInjective(f)
  BY <1>5, Zenon DEF IsInjective
<1> QED BY <1>2, <1>3, <1>6, Zenon

LEMMA AuthMerged ==
    ASSUME NEW c, ParsedConfig(c), NEW a \in ParsedAuthConfig
    PROVE  mergedAuth(a, c) \in ParsedAuthConfig
<1> DEFINE max == IF a.max_tokens_per_message = {} THEN c.defaults.max_tokens ELSE a.max_tokens_per_message
<1>1. max \in Opt(Nat)
  <2>1. a.max_tokens_per_message \in Opt(Nat) /\ c.defaults.max_tokens \in Opt(Nat)
    BY DEF ParsedAuthConfig, ParsedConfig
  <2> QED BY <2>1, Zenon
<1>2. mergedAuth(a, c) = [a EXCEPT !.max_tokens_per_message = max]
  BY Zenon DEF mergedAuth
<1> HIDE DEF max
<1> QED BY <1>1, <1>2 DEF ParsedAuthConfig

LEMMA AuthRuns ==
    ASSUME NEW c, ParsedConfig(c), NEW s \in ParsedServiceConfig,
           \A a \in s.auth : validateAuth(mergedAuth(a, c)) = {}
    PROVE  LET r == resolveAuth(s, c)
           IN /\ r.enabled => /\ r.hmacKeys # <<>> /\ r.maxTokensPerMessage > 0
                              /\ IsInjective([i \in DOMAIN r.hmacKeys |-> r.hmacKeys[i].id])
              /\ \A i \in DOMAIN r.anonymousClaim :
                     r.anonymousClaim[i].actions \cap {Null, "ClientSetup", "ServerSetup"} = {}
<1> DEFINE r == resolveAuth(s, c)
<1>1. CASE s.auth = {}
  <2>1. r.enabled = FALSE /\ r.anonymousClaim = <<>>
    BY <1>1 DEF resolveAuth
  <2>2. DOMAIN r.anonymousClaim = {}
    BY <2>1
  <2> HIDE DEF r
  <2> QED BY <2>1, <2>2, Zenon DEF r
<1>2. CASE s.auth # {}
  <2> DEFINE m == mergedAuth(The(s.auth), c)
             keys == m.hmac_keys
             max == m.max_tokens_per_message
             claim == ValueOr(m.anonymous_claim, <<>>)
  <2>1. The(s.auth) \in s.auth /\ The(s.auth) \in ParsedAuthConfig
    <3>1. s.auth \in Opt(ParsedAuthConfig)
      BY DEF ParsedServiceConfig
    <3> QED BY <1>2, <3>1, OptValue, Zenon
  <2>2. m \in ParsedAuthConfig /\ validateAuth(m) = {}
    BY <2>1, AuthMerged, Zenon
  <2>3. /\ r.enabled = m.enabled /\ r.hmacKeys = ValueOr(keys, <<>>) /\ r.maxTokensPerMessage = ValueOr(max, 0)
        /\ r.anonymousClaim = [i \in DOMAIN claim |-> resolveAnonymousScope(claim[i])]
    <3> DEFINE R == [enabled |-> m.enabled, tokenType |-> ValueOr(m.token_type, 0),
                     requireSetupToken |-> ValueOr(m.require_setup_token, TRUE),
                     allowRequestTokenOverride |-> ValueOr(m.allow_request_token_override, TRUE),
                     strictClaims |-> ValueOr(m.strict_claims, FALSE),
                     maxTokensPerMessage |-> ValueOr(max, 0), hmacKeys |-> ValueOr(keys, <<>>),
                     anonymousClaim |-> [i \in DOMAIN claim |-> resolveAnonymousScope(claim[i])]]
    <3>1. r = R
      BY <1>2, Zenon DEF resolveAuth
    <3> HIDE DEF r, m
    <3> QED BY <3>1
  <2> HIDE DEF r, m
  <2>4. /\ keys \in Opt(Seq([id : STRING, secret : STRING])) /\ max \in Opt(Nat)
        /\ m.anonymous_claim \in Opt(Seq(AnonymousScope))
    BY <2>2 DEF ParsedAuthConfig
  <2>5. ASSUME r.enabled
        PROVE  /\ r.hmacKeys # <<>> /\ r.maxTokensPerMessage > 0
               /\ IsInjective([i \in DOMAIN r.hmacKeys |-> r.hmacKeys[i].id])
    <3>1. validateKeys(keys) = {} /\ Error(max \in {{}, {0}}, "max_tokens_per_message") = {}
      BY <2>2, <2>3, <2>5, Zenon DEF validateAuth
    <3>2. max # {} /\ max # {0}
      BY <3>1, Zenon DEF Error
    <3>3. r.maxTokensPerMessage \in Nat \ {0}
      <4>1. max = {The(max)} /\ The(max) \in Nat
        BY <2>4, <3>2, OptValue, Zenon
      <4> QED BY <2>3, <3>2, <4>1 DEF ValueOr
    <3> HIDE DEF keys
    <3>4. r.hmacKeys # <<>> /\ IsInjective([i \in DOMAIN r.hmacKeys |-> r.hmacKeys[i].id])
      BY <2>3, <2>4, <3>1, KeysRun, Zenon
    <3> QED BY <3>3, <3>4
  <2>6. ASSUME NEW i \in DOMAIN r.anonymousClaim
        PROVE  r.anonymousClaim[i].actions \cap {Null, "ClientSetup", "ServerSetup"} = {}
    <3>1. i \in DOMAIN claim /\ r.anonymousClaim[i] = resolveAnonymousScope(claim[i])
      BY <2>3, Zenon
    <3>2. claim \in m.anonymous_claim
      <4>1. m.anonymous_claim # {}
        <5>1. ASSUME m.anonymous_claim = {}
              PROVE  claim = <<>>
          BY <5>1, Zenon DEF ValueOr
        <5>2. DOMAIN <<>> = {}
          OBVIOUS
        <5> QED BY <3>1, <5>1, <5>2, Zenon
      <4> QED BY <2>4, <4>1, OptValue, Zenon DEF ValueOr
    <3> HIDE DEF claim
    <3>3. validateScope(claim[i]) = {}
      <4> DEFINE E(k) == UNION {validateScope(k[j]) : j \in DOMAIN k}
      <4>1. UNION {E(k) : k \in m.anonymous_claim} = {}
        BY <2>2, Zenon DEF validateAuth
      <4> HIDE DEF E
      <4>2. E(claim) = {}
        BY <3>2, <4>1, Zenon
      <4> QED BY <3>1, <4>2, Zenon DEF E
    <3> QED BY <3>1, <3>3, ScopeRuns, Zenon
  <2> QED BY <2>5, <2>6, Zenon DEF r
<1> QED BY <1>1, <1>2, Zenon

\* A service.
LEMMA ServicesRun ==
    ASSUME NEW c, ParsedConfig(c), Errors(c) = {}, NEW n \in DOMAIN c.services
    PROVE  LET svc == Resolved(c).services[n]
           IN /\ Null \notin {svc.maxSubscriptionBufferKb, svc.cache.maxCachedTracks,
                              svc.cache.maxCachedGroupsPerTrack}
              /\ svc.cache.maxCachedTracks > 0 =>
                     svc.cache.maxCachedGroupsPerTrack > 0 /\ svc.cache.maxCachedMb > 0
                     /\ svc.cache.maxCacheDuration > 0
              /\ svc.auth.enabled => /\ svc.auth.hmacKeys # <<>> /\ svc.auth.maxTokensPerMessage > 0
                                     /\ IsInjective([i \in DOMAIN svc.auth.hmacKeys |-> svc.auth.hmacKeys[i].id])
              /\ \A i \in DOMAIN svc.auth.anonymousClaim :
                     svc.auth.anonymousClaim[i].actions \cap {Null, "ClientSetup", "ServerSetup"} = {}
<1> DEFINE s == c.services[n]
           svc == Resolved(c).services[n]
           cache == mergedCache(s, c)
           buffer == mergedSubscriptionBufferKb(s, c)
<1>1. svc = resolveService(s, c)
  BY DEF Resolved
<1>2. s \in ParsedServiceConfig
  BY Zenon DEF ParsedConfig
<1>3. validateService(s, c) = {}
  <2> DEFINE U == UNION {validateService(c.services[k], c) : k \in DOMAIN c.services}
  <2>1. U = {}
    BY Zenon DEF Errors
  <2> QED BY <2>1, Zenon
<1> HIDE DEF s, svc
<1>4. /\ validateCache(cache) = {} /\ Error(buffer = {}, "max_subscription_buffer_kb") = {}
      /\ UNION {validateAuth(mergedAuth(a, c)) : a \in s.auth} = {}
  BY <1>3, Zenon DEF validateService
<1>5. /\ svc.cache = resolveCacheConfig(cache) /\ svc.auth = resolveAuth(s, c)
      /\ svc.maxSubscriptionBufferKb = Deref(buffer)
  <2>1. /\ resolveService(s, c).cache = resolveCacheConfig(cache) /\ resolveService(s, c).auth = resolveAuth(s, c)
        /\ resolveService(s, c).maxSubscriptionBufferKb = Deref(buffer)
    BY DEF resolveService
  <2> QED BY <1>1, <2>1, Zenon
<1>6. Deref(buffer) \in Nat
  <2>1. buffer # {}
    BY <1>4, Zenon DEF Error
  <2>2. s.buffer \in Opt(Nat) /\ c.defaults.buffer \in Opt(Nat)
    BY <1>2 DEF ParsedConfig, ParsedServiceConfig
  <2>3. buffer \in Opt(Nat)
    BY <2>2, Zenon DEF mergedSubscriptionBufferKb
  <2> HIDE DEF buffer
  <2> QED BY <2>1, <2>3, OptValue, Zenon DEF Deref, ValueOr
<1>7. cache \in ParsedCacheConfig
  BY <1>2, CacheTyped, Zenon
<1> HIDE DEF cache, buffer
<1>8. /\ svc.cache.maxCachedTracks \in Nat /\ svc.cache.maxCachedGroupsPerTrack \in Nat
      /\ svc.cache.maxCachedTracks > 0 =>
             svc.cache.maxCachedGroupsPerTrack > 0 /\ svc.cache.maxCachedMb > 0 /\ svc.cache.maxCacheDuration > 0
  BY <1>4, <1>5, <1>7, CacheRuns, Zenon
<1>9. Null \notin {svc.maxSubscriptionBufferKb, svc.cache.maxCachedTracks, svc.cache.maxCachedGroupsPerTrack}
  <2>1. Null \notin Nat
    BY ConfigsAssumption, Zenon
  <2> QED BY <1>5, <1>6, <1>8, <2>1, Zenon
<1>10. \A a \in s.auth : validateAuth(mergedAuth(a, c)) = {}
  BY <1>4, Zenon
<1>11. /\ svc.auth.enabled => /\ svc.auth.hmacKeys # <<>> /\ svc.auth.maxTokensPerMessage > 0
                              /\ IsInjective([i \in DOMAIN svc.auth.hmacKeys |-> svc.auth.hmacKeys[i].id])
       /\ \A i \in DOMAIN svc.auth.anonymousClaim :
              svc.auth.anonymousClaim[i].actions \cap {Null, "ClientSetup", "ServerSetup"} = {}
  <2> DEFINE r == resolveAuth(s, c)
  <2>1. /\ r.enabled => /\ r.hmacKeys # <<>> /\ r.maxTokensPerMessage > 0
                        /\ IsInjective([i \in DOMAIN r.hmacKeys |-> r.hmacKeys[i].id])
        /\ \A i \in DOMAIN r.anonymousClaim :
               r.anonymousClaim[i].actions \cap {Null, "ClientSetup", "ServerSetup"} = {}
    BY <1>2, <1>10, AuthRuns, Zenon
  <2>2. svc.auth = r
    BY <1>5, Zenon
  <2> HIDE DEF r
  <2> QED BY <2>1, <2>2, Zenon
<1> QED BY <1>8, <1>9, <1>11, Zenon DEF svc

\* What runs on a configuration that resolveConfig accepts, can.
LEMMA LoadKeeps ==
    ASSUME config \in Configs, Load
    PROVE  AcceptedCanRun'
<1> DEFINE c == config
           R == Resolved(c)
<1>1. ParsedConfig(c)
  BY ConfigsAssumption, Zenon
<1>2. server' = resolveConfig(c)
  BY Zenon DEF Load
<1>3. SUFFICES ASSUME resolveConfig(c).ok PROVE AcceptedCanRun'
  BY <1>2, Zenon DEF AcceptedCanRun
<1>4. Errors(c) = {} /\ resolveLogging(c.logging) = {} /\ server' = R
  BY <1>2, <1>3, AcceptedMeans, Zenon
<1>5. DOMAIN R.listeners = DOMAIN c.listeners /\ DOMAIN R.services = DOMAIN c.services
  BY DEF Resolved
<1> DEFINE CanStart(r) ==
             /\ r.threads >= 1
             /\ ~ r.useRelayThread => r.threads = 1 /\ ~ r.useLocalForwarders
             /\ r.sampling \subseteq (0 .. 100) \cup {NaN}
           CanListen(L) == \A i \in DOMAIN L : LET l == L[i] IN
             /\ l.quic.maxData >= l.quic.maxStreamData /\ l.quic.maxAckDelayUs >= l.quic.minAckDelayUs
             /\ l.stack = "mvfst" /\ l.quic.ccAlgo \in {"bbr", "bbr2", "bbr2modular"} => l.mvfst.pacingEnabled
             /\ l.stack = "picoquic" => l.tls = "files"
             /\ \A j \in DOMAIN L : L[j].sock = l.sock => i = j
           Serves(svc) ==
             /\ Null \notin {svc.maxSubscriptionBufferKb, svc.cache.maxCachedTracks,
                             svc.cache.maxCachedGroupsPerTrack}
             /\ svc.cache.maxCachedTracks > 0 =>
                    svc.cache.maxCachedGroupsPerTrack > 0 /\ svc.cache.maxCachedMb > 0
                    /\ svc.cache.maxCacheDuration > 0
             /\ svc.auth.enabled => /\ svc.auth.hmacKeys # <<>> /\ svc.auth.maxTokensPerMessage > 0
                                    /\ IsInjective([i \in DOMAIN svc.auth.hmacKeys |-> svc.auth.hmacKeys[i].id])
             /\ \A i \in DOMAIN svc.auth.anonymousClaim :
                    svc.auth.anonymousClaim[i].actions \cap {Null, "ClientSetup", "ServerSetup"} = {}
           CanServe(S) == \A n \in DOMAIN S : Serves(S[n])
<1>6. CanStart(R)
  BY <1>1, <1>4, ThreadsRun, SamplingRuns, Zenon
<1>7. CanListen(R.listeners)
  <2> HIDE DEF R
  <2> SUFFICES ASSUME NEW i \in DOMAIN R.listeners
      PROVE  LET l == R.listeners[i] IN
               /\ l.quic.maxData >= l.quic.maxStreamData /\ l.quic.maxAckDelayUs >= l.quic.minAckDelayUs
               /\ l.stack = "mvfst" /\ l.quic.ccAlgo \in {"bbr", "bbr2", "bbr2modular"} => l.mvfst.pacingEnabled
               /\ l.stack = "picoquic" => l.tls = "files"
               /\ \A j \in DOMAIN R.listeners : R.listeners[j].sock = l.sock => i = j
    BY Zenon
  <2> QED BY <1>1, <1>4, <1>5, ListenersRun, Zenon DEF R
<1>8. CanServe(R.services)
  <2> HIDE DEF R, Serves
  <2> SUFFICES ASSUME NEW n \in DOMAIN R.services PROVE Serves(R.services[n])
    BY Zenon
  <2> QED BY <1>1, <1>4, <1>5, ServicesRun, Zenon DEF R, Serves
<1> HIDE DEF CanStart, CanListen, CanServe, Serves, R
<1>9. CanStart(server') /\ CanListen(server'.listeners) /\ CanServe(server'.services)
  BY <1>4, <1>6, <1>7, <1>8, Zenon
<1> QED BY <1>9, Zenon DEF AcceptedCanRun, CanStart, CanListen, CanServe, Serves

\* Of all parsed configurations, of any number of listeners, services, keys and
\* scopes, resolveConfig accepts only those that the server can run on.
THEOREM OnlyTheRunnableIsAccepted == Spec => []AcceptedCanRun
<1> DEFINE Inv == config \in Configs /\ AcceptedCanRun
<1>1. Init => Inv
  <2> SUFFICES ASSUME Init PROVE Inv
    OBVIOUS
  <2>1. server.ok = FALSE
    BY DEF Init, Starting
  <2> QED BY <2>1, Zenon DEF Init, AcceptedCanRun
<1>2. Inv /\ [Next]_vars => Inv'
  <2> SUFFICES ASSUME Inv, [Next]_vars PROVE Inv'
    OBVIOUS
  <2>1. CASE Load
    BY <2>1, LoadKeeps, Zenon DEF Load
  <2>2. CASE UNCHANGED <<config, server>>
    BY <2>2, Zenon DEF AcceptedCanRun
  <2>3. Load \/ UNCHANGED <<config, server>>
    BY Zenon DEF Next, Setup, Request, SessionEnd, Answered, Tick, vars
  <2> QED BY <2>1, <2>2, <2>3, Zenon
<1> QED BY <1>1, <1>2, PTL DEF Spec
=============================================================================
