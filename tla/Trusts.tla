------------------------------- MODULE Trusts -------------------------------
(***************************************************************************)
(* Domains beyond the configured one: where a SID that was not found       *)
(* belongs (resolver.rs, principal.rs), what crosses a trust (trusted.rs,  *)
(* trusts.rs, forest_trust_info.rs) and whether the account may log on to  *)
(* the target at all (selective_auth.rs).                                  *)
(*                                                                         *)
(* A trust is a record: sid, the partner's domain; holder, the domain that *)
(* has the trust object; the attributes forest, within, quarantine and     *)
(* selective; listed and enabled, the domains of its forest trust          *)
(* information, and info, whether that could be read.                      *)
(***************************************************************************)
EXTENDS Directory

Relation(rel, d, trust) == [rel |-> rel, domain |-> d, trust |-> trust]
NoTrust == [sid |-> "none"]

----------------------------------------------------------------------------
\* view: "Forest" for a Global Catalog; for a domain bind whether it is the forest root.
classify_against_trusts(d, trusts, view) ==
    LET own      == {t \in trusts : t.sid = d}
        forests  == {t \in trusts : t.forest}
        listing  == {t \in forests : d \in t.listed}
    IN  IF own # {}
        THEN LET t == CHOOSE t \in own : TRUE
             IN  Relation(IF view = "Forest" /\ ~ t.forest THEN "TrustedByForestDomain"
                          ELSE "TrustedDomain", d, t)
        ELSE IF listing # {}
        THEN LET t == CHOOSE t \in listing : TRUE
             IN  Relation(IF d \in t.enabled THEN "TrustedDomain" ELSE "ForestDomainSidDisabled", d, t)
        ELSE Relation(IF (\E t \in forests : t.info # "known") \/ view \in {"NotRoot", "RootUnknown"}
                      THEN "Unknown" ELSE "OtherDomain", d, NoTrust)

\* held_trusts, is_forest_root and the two binds of classify_with.
classify_with(conn, env, d) ==
    LET held   == {t \in env.trusts : t.holder = conn.dom}
        view   == IF \E t \in held : t.within THEN env.root ELSE "Root"
    IN  IF conn.gc
        THEN IF conn.whole /\ Forest(d) = "own" THEN Relation("WholeBase", d, NoTrust)
             ELSE classify_against_trusts(d, env.trusts, "Forest")
        ELSE IF ~ env.sidReadable THEN Relation("Unknown", d, NoTrust)
        ELSE IF d = conn.dom
        THEN Relation(IF conn.whole THEN "WholeBase" ELSE "PartialBase", d, NoTrust)
        ELSE classify_against_trusts(d, held, view)

\* Every read problem is Unknown.
classify_unresolved_sid(conn, env, d, ok) ==
    IF ok /\ d # "server" THEN classify_with(conn, env, d) ELSE Relation("Unknown", d, NoTrust)

\* Only the completely searched domain proves an account gone.
unresolvable_reason(relation) == relation.rel # "WholeBase"

----------------------------------------------------------------------------
\* select_cross_domain_memberships: the groups the DC hands to other domains, those it
\* lists for which no chain was found without one.
select_cross_domain_memberships(memberships, crossing) ==
    [kept          |-> {m \in memberships : m.group \in crossing},
     home_only     |-> GroupsOf(memberships) \ crossing,
     without_chain |-> crossing \ GroupsOf(memberships)]

\* The domains whose SIDs a trust lets through, and whether it removes the others.
Passes(trust, accountDomain) ==
    {accountDomain} \cup (IF trust.forest /\ trust.info = "known" THEN trust.enabled ELSE {})
Removes(trust) == trust.quarantine /\ ~ trust.forest

\* Mutant: a SID of a third domain that no rule covers is dropped without a word.
apply_sid_filtering_silently(sids, domOf, trust, accountDomain) ==
    [kept         |-> {s \in sids : domOf[s] \in Passes(trust, accountDomain)},
     filtered     |-> {s \in sids : domOf[s] \notin Passes(trust, accountDomain)},
     not_modelled |-> {}]

\* apply_sid_filtering, over group SIDs and historical SIDs alike.
apply_sid_filtering(sids, domOf, trust, accountDomain) ==
    LET out == {s \in sids : domOf[s] \notin Passes(trust, accountDomain)}
    IN  [kept         |-> sids \ out,
         filtered     |-> IF Removes(trust) THEN out ELSE {},
         not_modelled |-> IF Removes(trust) THEN {} ELSE out]

\* Mutant: the chain keeps the group it came through as its member.
chain_through_member(home, resource) ==
    [resource EXCEPT !.direct = FALSE,
                     !.path = IF home.path # <<>> /\ resource.path # <<>>
                              THEN home.path \o Tail(resource.path) ELSE <<>>,
                     !.complete = home.complete /\ resource.complete]

\* chain_through: the route in the account's domain, then the route of its last group here.
chain_through(home, resource) ==
    [resource EXCEPT !.member = 0,
                     !.direct = FALSE,
                     !.path = IF home.path # <<>> /\ resource.path # <<>>
                              THEN home.path \o Tail(resource.path) ELSE <<>>,
                     !.complete = home.complete /\ resource.complete]

----------------------------------------------------------------------------
(* Selective Authentication.  Trustees are nodes or the numbers after them.*)
EveryoneNode == N + 1
BuiltinNode  == N + 2     \* a builtin group: measured not to count in this check
LogonNode    == N + 3     \* a SID that depends on the logon
OrgNode      == N + 4     \* This Organization
OtherOrgNode == N + 5     \* Other Organization
LocalNode    == N + 6     \* Local account

\* parse_dacl: a descriptor is [dacl, aces]; the ACEs that cover the right, in order.
first_decision(aces, token) ==
    LET hits == {i \in DOMAIN aces : aces[i].who \in token}
    IN  IF hits = {} THEN "Denied"
        ELSE IF aces[Min(hits)].allow THEN "Allowed" ELSE "Denied"

is_uncertain(who, certain) == who \notin certain /\ who = LogonNode

\* Mutant: a SID that may be in the token is taken to be absent.
allowed_to_authenticate_without(sd, certain) ==
    IF sd.dacl = "unreadable" THEN "Unknown"
    ELSE IF sd.dacl = "null" THEN "Allowed" ELSE first_decision(sd.aces, certain)

\* Decided when the answer is the same with and without the uncertain SIDs.
allowed_to_authenticate(sd, certain) ==
    LET uncertain == {w \in {sd.aces[i].who : i \in DOMAIN sd.aces} : is_uncertain(w, certain)}
        without   == first_decision(sd.aces, certain)
        with      == first_decision(sd.aces, certain \cup uncertain)
    IN  IF sd.dacl = "unreadable" THEN "Unknown"
        ELSE IF sd.dacl = "null" THEN "Allowed"
        ELSE IF without = with THEN without ELSE "Unknown"
=============================================================================
