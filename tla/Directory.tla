------------------------------ MODULE Directory ------------------------------
(***************************************************************************)
(* Active Directory as the LDAP searches of crates/ad_resolver see it, and *)
(* the group memberships resolver.rs assembles from their answers.         *)
(*                                                                         *)
(* A directory is a record over nodes 0..N: node 0 is the account, 1..N    *)
(* are groups in the order of their distinguished names.                   *)
(*   memberOf   the groups a node is a direct member of                    *)
(*   primary    the account's primary group, 0 for none                    *)
(*   dom        the domain of a node                                       *)
(*   security   the security groups        local  the domain-local groups  *)
(*   outside    nodes outside the configured base of their domain          *)
(*   untyped, sidless, mute   groupType, objectSid, memberOf not readable  *)
(*   token      the DC returns the account's tokenGroups                   *)
(*   gone       deleted accounts                                           *)
(* A connection is [dom, gc, whole]: the domain it is bound to, whether it *)
(* is a Global Catalog, whether its base is the root of the domain.        *)
(***************************************************************************)
EXTENDS Naturals, Sequences, FiniteSets, FiniteSetsExt, Functions

CONSTANTS N,              \* groups there are
          MaxTokenSids    \* MAX_TOKEN_GROUP_SIDS
Group == 1 .. N
Node  == 0 .. N

\* The configured domain, another domain of its forest, the root and another domain of a
\* trusted forest (or a trusted domain), a domain nobody trusts, the target server's own.
Domains == {"home", "sibling", "partner", "child", "alien", "server"}
Forest(d) == IF d \in {"home", "sibling"} THEN "own"
             ELSE IF d \in {"partner", "child"} THEN "trusted" ELSE d

\* What is reached from the set `from` along `edges` in k steps, and in as many as there can be.
Layers(from, edges) ==
    LET Layer[k \in 0 .. N] ==
          IF k = 0 THEN from
          ELSE LET last == Layer[k - 1] IN last \cup UNION {edges[g] : g \in last}
    IN  Layer
Reached(from, edges) == Layers(from, edges)[N]

----------------------------------------------------------------------------
(* What Windows puts into a token (external).                              *)

PrimaryOf(dir) == {dir.primary} \ {0}

\* The primary group is a global security group of the account's domain: AD enforces it.
IsDirectory(dir) ==
    /\ dir \in [memberOf : [Node -> SUBSET Group], primary : Node, dom : [Node -> Domains],
                security : SUBSET Group, local : SUBSET Group, untyped : SUBSET Group,
                outside : SUBSET Node, sidless : SUBSET Node, mute : SUBSET Node, gone : SUBSET Node,
                token : BOOLEAN]
    /\ PrimaryOf(dir) \subseteq dir.security \ dir.local
    /\ \A p \in PrimaryOf(dir) : dir.dom[p] = dir.dom[0]

\* Security groups reached from `nodes` through security groups, all of them in `scope`.
TokenFrom(dir, nodes, scope) ==
    LET sec == [n \in Node |-> (dir.memberOf[n] \cap dir.security) \cap scope]
    IN  Reached(UNION {sec[n] : n \in nodes}, sec)

\* tokenGroups as a DC of the connection's domain computes it: global and universal groups
\* of its forest, and its own domain-local groups.
TokenOf(conn, dir, n) ==
    LET scope   == {g \in Group : /\ Forest(dir.dom[g]) = Forest(conn.dom)
                                  /\ g \in dir.local => dir.dom[g] = conn.dom}
        primary == IF n = 0 /\ dir.dom[0] = conn.dom THEN PrimaryOf(dir) ELSE {}
    IN  primary \cup TokenFrom(dir, {n} \cup primary, scope)

\* tokenGroupsGlobalAndUniversal: what the account's domain hands to other domains.
GlobalAndUniversal(conn, dir) == TokenOf(conn, dir, 0) \ dir.local

----------------------------------------------------------------------------
(* LDAP searches (ldap_client.rs).                                         *)

Visible(conn, dir, n) ==
    dir.dom[n] = conn.dom \/ (conn.gc /\ Forest(dir.dom[n]) = Forest(conn.dom))
InBase(conn, dir, n)  == Visible(conn, dir, n) /\ n \notin dir.outside

\* A membership as an entry or a search shows it: a Global Catalog does not hold the members of
\* domain-local groups.
Listed(conn, dir, g) == Visible(conn, dir, g) /\ (conn.gc => g \notin dir.local)

\* A node of another forest is seen as its Foreign Security Principal, which exists once it is
\* in a group here and stays when the account is deleted.  It lies in a container of its own.
IsForeign(conn, dir, n) == Forest(dir.dom[n]) # Forest(conn.dom)
HasFsp(conn, dir, n)    == conn.whole /\ \E g \in dir.memberOf[n] \cap Group : Visible(conn, dir, g)

\* search_by_sid finds an object.
search_by_sid(conn, dir, n) ==
    IF IsForeign(conn, dir, n) THEN HasFsp(conn, dir, n)
    ELSE InBase(conn, dir, n) /\ n \notin dir.gone

\* The memberOf values of an entry, completed over all ranges (complete_ranged_attribute).
sorted_member_of(conn, dir, n) ==
    IF n \in dir.mute THEN {} ELSE {g \in dir.memberOf[n] : Listed(conn, dir, g)}

\* LDAP_MATCHING_RULE_IN_CHAIN: transitive over the partition, security groups or not.
search_transitive_groups(conn, dir, n) ==
    LET here == [m \in Node |-> {g \in dir.memberOf[m] : Listed(conn, dir, g)}]
    IN  {g \in Reached(here[n], here) : InBase(conn, dir, g)}

\* resolve_primary_group; a group, or the foreign principal of an account, has none.
resolve_primary_group(conn, dir, n) ==
    IF n # 0 \/ dir.primary = 0 \/ IsForeign(conn, dir, n) THEN "NotApplicable"
    ELSE IF search_by_sid(conn, dir, dir.primary) THEN "Found" ELSE "Missing"

----------------------------------------------------------------------------
(* RouteTable of resolver.rs.                                              *)

\* Hops from the principal: seeds are one hop away.
dist(closure, parents, seeds) ==
    LET layer == Layers(seeds \cap closure, [g \in closure |-> closure \cap parents[g]])
    IN  [g \in layer[N] |-> 1 + Min({k \in 0 .. N : g \in layer[k]})]

children(closure, parents, g) == {c \in closure : g \in parents[c]}

\* Mutant: any member group, also one that is further away.
pred_any(closure, parents, d, g) ==
    IF d[g] = 1 THEN 0 ELSE Min(children(closure, parents, g) \cap DOMAIN d)

\* The first member group one hop closer; 0 is the principal.
pred(closure, parents, d, g) ==
    IF d[g] = 1 THEN 0
    ELSE Min({c \in children(closure, parents, g) \cap DOMAIN d : d[c] + 1 = d[g]})

\* From hop 1 to the target, followed back for as many hops as the distance says.
chain_to(closure, parents, d, target) ==
    LET Back[k \in 0 .. d[target]] ==
          IF k = 0 THEN <<target>>
          ELSE LET rest == Back[k - 1]
                   p    == pred(closure, parents, d, Head(rest))
               IN  IF p = 0 THEN rest ELSE <<p>> \o rest
    IN  Back[d[target]]

----------------------------------------------------------------------------
(* assemble_memberships.                                                   *)

Excluded(closure, parents, seeds, dir) ==
    LET plain == closure \cap (dir.untyped \ PrimaryOf(dir))    \* type unknown: counted
        cand  == {g \in closure : g \in dir.security \/ g \in plain}
        full  == DOMAIN dist(closure, parents, seeds)
        safe  == DOMAIN dist(cand, parents, seeds)
    IN  {g \in closure : g \notin cand \/ (g \in full /\ g \notin safe)}

Membership(n, g, direct, path, source, complete, also) ==
    [member |-> n, group |-> g, direct |-> direct, path |-> path, source |-> source,
     complete |-> complete, also |-> also]

\* What is read of the account's own entry, before the group searches.
Entry(conn, dir, n) ==
    [direct |-> sorted_member_of(conn, dir, n), primary |-> resolve_primary_group(conn, dir, n)]

assemble_memberships(conn, entry, dir, n) ==
    LET pg       == IF entry.primary = "Found" THEN {dir.primary} ELSE {}
        found    == search_transitive_groups(conn, dir, n) \cup pg
                    \cup UNION {search_transitive_groups(conn, dir, p) : p \in pg}
        parents  == [g \in Group |-> sorted_member_of(conn, dir, g)]
        direct   == entry.direct
        seeds    == direct \cup pg
        all      == found \ ({n} \cup dir.sidless)
        excluded == Excluded(all, parents, seeds, dir)
        closure  == all \ excluded
        outside  == (direct \cup UNION {parents[g] : g \in closure})
                    \ (closure \cup excluded \cup {n} \cup (found \cap dir.sidless))
        d        == dist(closure, parents, seeds)
        kids(g)  == children(closure, parents, g)
        Of(g)    == IF g \in DOMAIN d
                    THEN LET c == chain_to(closure, parents, d, g)
                             hop == IF Len(c) > 1 THEN {c[Len(c) - 1]} ELSE {}
                         IN  Membership(n, g, g \in direct, <<n>> \o c, "DomainGroup", TRUE, kids(g) \ hop)
                    ELSE Membership(n, g, g \in direct, <<n, g>>, "LdapMatchingRule", FALSE, kids(g))
    IN  [memberships |-> {Membership(n, g, TRUE, <<n, g>>, "PrimaryGroup", TRUE, kids(g)) : g \in pg}
                         \cup {Of(g) : g \in closure \ pg},
         gaps |-> (IF closure \cap (dir.untyped \ pg) # {} THEN {"groupType unreadable"} ELSE {})
                  \cup (IF found \cap dir.sidless # {} THEN {"objectSid unreadable"} ELSE {})
                  \cup (IF outside # {} THEN {"groups outside the resolved set"} ELSE {}),
         excluded |-> excluded]

GroupsOf(memberships) == {m.group : m \in memberships}

\* Mutant: a group the DC does not have in its list goes unnoticed.
token_groups_gaps_missing_only(memberships, token) ==
    IF token \ GroupsOf(memberships) # {} THEN {"missing of tokenGroups"} ELSE {}

\* The DC's own list against the assembled one, in both directions.
token_groups_gaps(memberships, token) ==
    (IF GroupsOf(memberships) \ token # {} THEN {"not in tokenGroups"} ELSE {})
    \cup (IF token \ GroupsOf(memberships) # {} THEN {"missing of tokenGroups"} ELSE {})

token_size_gap(memberships) ==
    IF Cardinality(GroupsOf(memberships)) > MaxTokenSids THEN {"too many SIDs"} ELSE {}
=============================================================================
