--------------------------- MODULE ServiceMatcher ---------------------------
(***************************************************************************)
(* ServiceMatcher: which service a client's (authority, path) belongs to.  *)
(*                                                                         *)
(* An authority is the sequence of its labels ("a.x.com" is <<"a", "x",    *)
(* "com">>), a path the sequence of its characters.  A match entry is a    *)
(* record [authority : [kind, value], path : [kind, value]].  A service    *)
(* that does not match is the empty set, one that does a singleton.        *)
(***************************************************************************)
EXTENDS Naturals, Sequences, SequencesExt

NoRules == [exactPaths |-> <<>>, prefixPaths |-> <<>>]

addRule(rules, path, service) ==
    IF path.kind = "prefix"
    THEN [rules EXCEPT !.prefixPaths = Append(@, [prefix |-> path.value, service |-> service])]
    ELSE IF path.value \in DOMAIN rules.exactPaths THEN rules
    ELSE [rules EXCEPT !.exactPaths = (path.value :> service) @@ @]

\* Faulty form: the prefixes stay in the order of the configuration.
finalize_unsorted(rules) == rules

finalize(rules) ==
    [rules EXCEPT !.prefixPaths = SortSeq(@, LAMBDA r, q : Len(r.prefix) > Len(q.prefix))]

matchPath(rules, path) ==
    IF path \in DOMAIN rules.exactPaths THEN {rules.exactPaths[path]}
    ELSE LET hits == {i \in DOMAIN rules.prefixPaths : IsPrefix(rules.prefixPaths[i].prefix, path)}
         IN IF hits = {} THEN {} ELSE {rules.prefixPaths[Min(hits)].service}
-----------------------------------------------------------------------------
\* The rules of a key of one of the hash maps; operator[] makes them.
RulesAt(map, key) == IF key \in DOMAIN map THEN map[key] ELSE NoRules

addEntry(matcher, entry, service) ==
    LET add(map, key) == (key :> addRule(RulesAt(map, key), entry.path, service)) @@ map
    IN CASE entry.authority.kind = "exact" ->
              [matcher EXCEPT !.exact = add(@, entry.authority.value)]
         [] entry.authority.kind = "wildcard" ->
              [matcher EXCEPT !.wildcard = add(@, Tail(entry.authority.value))]
         [] entry.authority.kind = "any" ->
              [matcher EXCEPT !.any = addRule(@, entry.path, service)]

\* The constructor, over services (name -> configuration) in the order in
\* which the hash map yields their names.
NewServiceMatcher(services, order) ==
    LET ofService(matcher, name) ==
            FoldLeft(LAMBDA m, e : addEntry(m, e, name), matcher, services[name].match)
        built == FoldLeft(ofService, [exact |-> <<>>, wildcard |-> <<>>, any |-> NoRules], order)
        final(map) == [key \in DOMAIN map |-> finalize(map[key])]
    IN [exact |-> final(built.exact), wildcard |-> final(built.wildcard), any |-> finalize(built.any)]

match(matcher, authority, path) ==
    LET effective == IF path = <<>> THEN <<"/">> ELSE path
        exact == matchPath(RulesAt(matcher.exact, authority), effective)
        wildcard == IF Len(authority) > 1
                    THEN matchPath(RulesAt(matcher.wildcard, Tail(authority)), effective) ELSE {}
    IN CASE exact # {} -> exact
         [] exact = {} /\ wildcard # {} -> wildcard
         [] OTHER -> matchPath(matcher.any, effective)
-----------------------------------------------------------------------------
(***************************************************************************)
(* The documented priority (ServiceMatcher.h): exact authority, wildcard,  *)
(* any; within one of them exact path, then the longest prefix.            *)
(***************************************************************************)
Applies(entry, authority, path) ==
    /\ \/ entry.authority.kind = "exact" /\ entry.authority.value = authority
       \/ entry.authority.kind = "wildcard" /\ Len(authority) = Len(entry.authority.value)
                                            /\ Tail(authority) = Tail(entry.authority.value)
       \/ entry.authority.kind = "any"
    /\ \/ entry.path.kind = "exact" /\ entry.path.value = path
       \/ entry.path.kind = "prefix" /\ IsPrefix(entry.path.value, path)

Tier(entry) == CASE entry.authority.kind = "exact" -> 3
                 [] entry.authority.kind = "wildcard" -> 2
                 [] OTHER -> 1

Before(e, f) ==
    \/ Tier(e) > Tier(f)
    \/ /\ Tier(e) = Tier(f)
       /\ \/ e.path.kind = "exact" /\ f.path.kind = "prefix"
          \/ e.path.kind = "prefix" /\ f.path.kind = "prefix" /\ Len(e.path.value) > Len(f.path.value)

\* The services of the entries that apply and have none before them.
Preferred(services, authority, path) ==
    LET effective == IF path = <<>> THEN <<"/">> ELSE path
        all == UNION {{[service |-> n, entry |-> services[n].match[i]] : i \in DOMAIN services[n].match}
                      : n \in DOMAIN services}
        applying == {r \in all : Applies(r.entry, authority, effective)}
    IN {r.service : r \in {b \in applying : \A o \in applying : ~ Before(o.entry, b.entry)}}
=============================================================================
