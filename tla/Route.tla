------------------------------- MODULE Route -------------------------------
(***************************************************************************)
(* The outbound selectors: relay::route and rucimp::route.  A selector is  *)
(* a record with its `kind'; what it selects from is the InboundInfo of a  *)
(* connection.  An Option is a set of at most one element; a HashMap is a  *)
(* function on its keys.  An address is its network, its kind ("v4", "v6"  *)
(* or "name") and the country its ip is looked up to.                      *)
(***************************************************************************)
EXTENDS Integers, Sequences, FiniteSets

CONSTANT NoOut  \* None: the connection is dropped

None == {}
Some(x) == {x}
OrElse(o, default) == IF o = None THEN default ELSE CHOOSE x \in o : TRUE

\* outbounds_map.get(tag), or the default.
Outbound(s, tag, default) ==
  IF tag # None /\ OrElse(tag, "") \in DOMAIN s.outbounds_map
    THEN s.outbounds_map[OrElse(tag, "")] ELSE default

\* get_user_from_opt_data: the users of the data of all maps, in their order.
UsersOf(data) == IF data = <<>> THEN None ELSE Some(data)

FixedSelect(s, r) == IF r.is_fallback THEN NoOut ELSE s.default

TagSelect(s, r) ==
  LET routes == IF r.is_fallback THEN s.fallback_tag_route_map ELSE s.outbounds_tag_route_map
      default == IF r.is_fallback THEN s.fb_default ELSE s.ok_default
      tag == IF routes # None /\ r.in_tag \in DOMAIN OrElse(routes, <<>>)
               THEN Some(OrElse(routes, <<>>)[r.in_tag]) ELSE None
  IN  Outbound(s, tag, default)

\* The first of the elements of the vector that match gives the out_tag.
FirstTag(vec, matching) ==
  IF matching = {} THEN None ELSE Some(vec[CHOOSE k \in matching : \A j \in matching : k <= j].out_tag)

InfoSelect(s, r) ==
  LET pairs == s.outbounds_ruleset_vec
  IN  Outbound(s, FirstTag(pairs, {k \in DOMAIN pairs : r \in pairs[k].infos}),
               IF r.is_fallback THEN s.fb_default ELSE s.ok_default)

-----------------------------------------------------------------------------
(* rucimp::route::RuleSet *)

\* is_in_in_tags, is_in_userset, is_in_networks
IsIn(o, true_if_empty, x) == IF o = None THEN true_if_empty ELSE x \in OrElse(o, {})

IsInIps(rs, true_if_empty, addr) ==
  \/ addr.kind = "v4" /\ IsIn(rs.ta_ipv4, true_if_empty, addr.ip)
  \/ addr.kind = "v6" /\ IsIn(rs.ta_ipv6, true_if_empty, addr.ip)

\* Without the database of the countries, or for a name, there is nothing to match.
IsInCountries(rs, true_if_empty, addr) ==
  IF ~rs.mmdb \/ addr.kind = "name" THEN true_if_empty
  ELSE IsIn(rs.ta_ip_countries, true_if_empty, addr.country)

\* Mutant: no user is as good as any.
InUsersetOrNone(rs, r) == r.users = None \/ IsIn(rs.userset, TRUE, OrElse(r.users, <<>>))

InUserset(rs, r) == IF r.users = None THEN rs.userset = None
                    ELSE IsIn(rs.userset, TRUE, OrElse(r.users, <<>>))

MatchesWhitelist(rs, r) ==
  /\ r.is_fallback = OrElse(rs.is_fallback, FALSE)
  /\ IsIn(rs.in_tags, TRUE, r.in_tag)
  /\ InUserset(rs, r)
  /\ IsIn(rs.ta_networks, TRUE, r.addr.network)
  /\ IsInIps(rs, TRUE, r.addr)
  /\ IsInCountries(rs, TRUE, r.addr)

\* A set of networks or countries that is not given matches here as well.
MatchesBlacklist(rs, r) ==
  \/ r.is_fallback = OrElse(rs.is_fallback, FALSE)
  \/ IsIn(rs.in_tags, FALSE, r.in_tag)
  \/ IF r.users = None THEN rs.userset # None ELSE IsIn(rs.userset, FALSE, OrElse(r.users, <<>>))
  \/ IsIn(rs.ta_networks, TRUE, r.addr.network)
  \/ IsInIps(rs, FALSE, r.addr)
  \/ IsInCountries(rs, TRUE, r.addr)

RuleMatches(rs, r) == IF rs.mode = "WhiteList" THEN MatchesWhitelist(rs, r) ELSE MatchesBlacklist(rs, r)

RuleSelect(s, r) ==
  LET rules == s.outbounds_rules_vec
  IN  Outbound(s, FirstTag(rules, {k \in DOMAIN rules : RuleMatches(rules[k], r)}), s.default)

Select(s, r) == CASE s.kind = "fixed" -> FixedSelect(s, r)
                  [] s.kind = "tag"   -> TagSelect(s, r)
                  [] s.kind = "info"  -> InfoSelect(s, r)
                  [] s.kind = "rules" -> RuleSelect(s, r)
=============================================================================
