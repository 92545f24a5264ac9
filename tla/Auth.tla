-------------------------------- MODULE Auth --------------------------------
(***************************************************************************)
(* auth/Auth.cpp: what the tokens of a message grant, and whether a grant  *)
(* covers an action.                                                       *)
(*                                                                         *)
(* An optional value is a set of at most one element.  Bytes are numbers;  *)
(* a namespace is a sequence of fields, a field and a track name sequences *)
(* of bytes.  A token stands for its decoded contents and for what decides *)
(* whether it decodes:                                                     *)
(*   type, empty, header (it decodes), kid, secret (it was signed with),   *)
(*   payload (it decodes), exp, scopes, extra (a claim nobody enforces).   *)
(* A scope is a set of actions, and rules for the namespace and for the    *)
(* track.  The rules of a token hold bytes, those of the anonymous claim   *)
(* the fields of a namespace.  Times are in ticks of the clock, the exp of *)
(* a token in seconds; one clock reading, now, serves a whole call.        *)
(***************************************************************************)
EXTENDS Integers, Sequences, SequencesExt

CONSTANTS
    Never,      \* time_point::max(), in ticks
    Second      \* the ticks of a second

The(o) == CHOOSE x \in o : TRUE
ValueOr(o, default) == IF o = {} THEN default ELSE The(o)

Granted(grants) == [ok |-> TRUE, grants |-> grants]
Refused(error) == [ok |-> FALSE, error |-> error]
-----------------------------------------------------------------------------
\* A length as four bytes, the highest first.
BigEndian(n) == [i \in 1 .. 4 |-> (n \div 256 ^ (4 - i)) % 256]

\* Length-prefixed fields, one after the other.
canonicalNamespace(ns) == FlattenSeq([i \in DOMAIN ns |-> BigEndian(Len(ns[i])) \o ns[i]])

\* Seconds to ticks: the product wraps around at the width of the clock.
TimePoint(seconds) == ((seconds * Second + Never + 1) % (2 * (Never + 1))) - (Never + 1)

\* A scope of the anonymous claim as the verifier holds it.
Encoded(scope) ==
    [scope EXCEPT !.namespaceMatches = {[type |-> r.type, value |-> canonicalNamespace(r.value)] : r \in @}]

grantsFromToken(token) ==
    [expiresAt |-> IF token.exp = {} THEN Never ELSE TimePoint(The(token.exp)),
     scopes |-> [i \in DOMAIN token.scopes |-> [token.scopes[i] EXCEPT !.actions = @ \ {"negative"}]]]

buildAnonymousGrants(claim) ==
    [expiresAt |-> Never, scopes |-> [i \in DOMAIN claim |-> Encoded(claim[i])]]

rulesMatch(actual, rules) ==
    \A r \in rules : CASE r.type = "exact" -> actual = r.value
                       [] r.type = "prefix" -> IsPrefix(r.value, actual)
                       [] r.type = "suffix" -> IsSuffix(r.value, actual)
                       [] r.type = "contains" -> \E i \in 0 .. Len(actual) :
                                                     IsPrefix(r.value, SubSeq(actual, i + 1, Len(actual)))

\* Faulty form: what was granted at setup holds for as long as the session.
allows_forever(grants, action, ns, track, now) ==
    \E i \in DOMAIN grants.scopes : LET s == grants.scopes[i] IN
        /\ action \in s.actions
        /\ rulesMatch(canonicalNamespace(ns), s.namespaceMatches)
        /\ rulesMatch(track, s.trackMatches)

\* track is empty in a check of a namespace.
allows(grants, action, ns, track, now) ==
    /\ grants.expiresAt > now
    /\ \E i \in DOMAIN grants.scopes : LET s == grants.scopes[i] IN
           /\ action \in s.actions
           /\ rulesMatch(canonicalNamespace(ns), s.namespaceMatches)
           /\ rulesMatch(track, s.trackMatches)

allowsAny(grantsList, action, ns, track, now) ==
    \E i \in DOMAIN grantsList : allows(grantsList[i], action, ns, track, now)
-----------------------------------------------------------------------------
\* Of the claims, those that grantsFromToken reads.
hasOnlyEnforcedClaims(token) == ~ token.extra

tryVerify(config, key, token, now) ==
    LET grants == grantsFromToken(token)
    IN CASE token.secret # key.secret -> Refused("BadSignature")
         [] token.secret = key.secret /\ ~ token.payload -> Refused("Malformed")
         [] token.secret = key.secret /\ token.payload /\ grants.expiresAt <= now -> Refused("Expired")
         [] OTHER -> IF config.strictClaims /\ ~ hasOnlyEnforcedClaims(token) THEN Refused("Malformed") ELSE Granted(grants)

\* With a key id, the key of that id; without, the first key that fits.
verify(config, token, now) ==
    LET keys == config.hmacKeys
        tried == [i \in DOMAIN keys |-> tryVerify(config, keys[i], token, now)]
        usable == IF token.kid # {} THEN {i \in DOMAIN keys : keys[i].id = The(token.kid)}
                  ELSE {i \in DOMAIN keys : tried[i] # Refused("BadSignature")}
    IN CASE ~ config.enabled -> Granted([expiresAt |-> Never, scopes |-> <<>>])
         [] config.enabled /\ token.type # config.tokenType -> Refused("WrongTokenType")
         [] config.enabled /\ token.type = config.tokenType /\ (token.empty \/ ~ token.header) -> Refused("Malformed")
         [] OTHER -> IF usable = {} THEN Refused("BadSignature") ELSE tried[Min(usable)]

verifyTokens(config, tokens, now) ==
    LET verified == [i \in DOMAIN tokens |-> verify(config, tokens[i], now)]
        good == SelectSeq(verified, LAMBDA v : v.ok)
        bad == SelectSeq(verified, LAMBDA v : ~ v.ok)
    IN [grants |-> [i \in DOMAIN good |-> good[i].grants],
        firstError |-> IF bad = <<>> THEN {} ELSE {bad[1].error}]

denialError(grants, firstError) ==
    IF grants = <<>> THEN ValueOr(firstError, "Forbidden") ELSE "Forbidden"

findAuthTokens(params, tokenType) == SelectSeq(params, LAMBDA t : t.type = tokenType)
-----------------------------------------------------------------------------
\* The grants of the session, none (not even an empty list) when auth is off.
authenticateSetup(config, params, now) ==
    LET tokens == findAuthTokens(params, config.tokenType)
        verified == verifyTokens(config, tokens, now)
    IN CASE ~ config.enabled -> Granted({})
         [] config.enabled /\ Len(tokens) > config.maxTokensPerMessage -> Refused("TooManyTokens")
         [] OTHER ->
              IF config.requireSetupToken /\ tokens = <<>> THEN Refused("Missing")
              ELSE IF config.requireSetupToken
                      /\ ~ allowsAny(verified.grants, "ClientSetup", <<>>, <<>>, now)
              THEN Refused(denialError(verified.grants, verified.firstError))
              ELSE Granted({verified.grants})

authorize(config, action, params, ns, track, sessionGrants, now) ==
    LET tokens == findAuthTokens(params, config.tokenType)
        request == IF config.allowRequestTokenOverride THEN verifyTokens(config, tokens, now)
                   ELSE [grants |-> <<>>, firstError |-> {}]
        permitted == \/ allowsAny(request.grants, action, ns, track, now)
                     \/ allowsAny(sessionGrants, action, ns, track, now)
                     \/ allows(buildAnonymousGrants(config.anonymousClaim), action, ns, track, now)
    IN CASE ~ config.enabled -> Granted({})
         [] config.enabled /\ Len(tokens) > config.maxTokensPerMessage -> Refused("TooManyTokens")
         [] OTHER -> IF permitted THEN Granted({})
                     ELSE Refused(denialError(request.grants, request.firstError))
=============================================================================
