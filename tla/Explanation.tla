----------------------------- MODULE Explanation -----------------------------
(***************************************************************************)
(* How a finished result is explained: the steps and the trace evaluate()  *)
(* builds (permission_engine/src/engine.rs, share_scanner/src/scanner.rs)  *)
(* and the permission graph drawn from the trace (viz/src/lib.rs).  All of *)
(* it is a function of the finished evaluation; texts are left out, what a *)
(* text states is kept.                                                    *)
(***************************************************************************)
EXTENDS AccessCheck

----------------------------------------------------------------------------
(* Memberships.                                                            *)

\* Domain and local groups of the token, one entry per group.
merged == in.memberships \cup {[sid |-> s, history |-> {}] : s \in lg.sids}

ace_matches(ace) == ace.sid \in match_sids \/ (ace.kind = "Deny" /\ ace.sid \in deny_only_sids)

\* Groups whose ACEs decided bits.
decisive == {in.dacl[i].sid : i \in {j \in DOMAIN in.dacl :
                ace_matches(in.dacl[j]) /\ ~ in.dacl[j].inheritOnly /\ decided[j] # {}}}

----------------------------------------------------------------------------
(* ACEs.                                                                   *)

\* uncertain_ace_reason, or "None".
uncertain_ace_reason(ace) ==
    IF ace.inheritOnly \/ ace.sid \in match_sids THEN "None"
    ELSE IF ace.kind = "Allow" /\ ace.sid \in deny_only_sids THEN "UserAccountControl"
    ELSE IF ace.sid = CryptographicOperators /\ ace.sid \in logon_dependent_groups THEN "CryptographicOperators"
    ELSE IF ace.sid \in identity_uncertain_well_knowns(in.user) \cap logon_dependent_groups THEN "AnonymousEveryone"
    ELSE IF ace.sid \in logon_dependent_groups THEN "LogonDependentGroup"
    ELSE IF is_logon_dependent_for(ace.sid, in.context, match_sids) THEN "Logon"
    ELSE IF uncertain_owner /\ ace.sid = OwnerRights THEN "OwnerGroup"
    ELSE "None"

\* AceEffect of an NTFS ACE; an ACE without an effect has no step.
AceEffect(i) ==
    LET ace == in.dacl[i] IN
    IF ace_matches(ace)
    THEN IF ~ ace_applies_to_current_object(ace) THEN "InheritOnly"
         ELSE IF decided[i] = {} THEN "NoEffect" ELSE "Decided"
    ELSE IF /\ uac_filter_certain /\ ace.kind = "Allow" /\ ace_applies_to_current_object(ace)
            /\ ace.sid \in deny_only_sids
    THEN "NotApplied"
    ELSE IF uncertain_ace_reason(ace) # "None" THEN "Uncertain"
    ELSE "NoStep"

\* share_ace_decisions: the first decision per bit, in stored order.
share_bits[i \in 0 .. Len(in.share.aces)] ==
    IF i = 0 THEN {}
    ELSE LET before == share_bits[i - 1] IN
         before \cup (IF Applies("shareShown", in.share.aces[i])
                      THEN expand_generic_rights(in.share.aces[i].mask) ELSE {})
ShareDecided(i) == share_bits[i] \ share_bits[i - 1]
ShareEffect(i) ==
    LET ace == in.share.aces[i] IN
    IF Applies("shareShown", ace) THEN IF ShareDecided(i) = {} THEN "NoEffect" ELSE "Decided"
    ELSE IF UncertainShareAce(ace) THEN "Uncertain" ELSE "NoStep"

\* PermissionTrace::aces.
NtfsOutcomes ==
    {[layer |-> "Ntfs", index |-> i, ace |-> in.dacl[i], effect |-> AceEffect(i), bits |-> decided[i]] :
        i \in {j \in DOMAIN in.dacl : AceEffect(j) # "NoStep"}}
share_ace_outcomes ==
    {[layer |-> "Share", index |-> i, ace |-> in.share.aces[i], effect |-> ShareEffect(i), bits |-> ShareDecided(i)] :
        i \in {j \in DOMAIN in.share.aces : ShareEffect(j) # "NoStep"}}
outcomes == NtfsOutcomes \cup share_ace_outcomes

----------------------------------------------------------------------------
(* Which memberships a scan row lists (ADR 0087).                          *)

\* Mutant: the owner is not a name.
named_without_owner == {in.dacl[i].sid : i \in DOMAIN in.dacl} \cup {o.ace.sid : o \in share_ace_outcomes}
named == {in.dacl[i].sid : i \in DOMAIN in.dacl} \cup {o.ace.sid : o \in share_ace_outcomes} \cup {in.owner}
is_named(g) == g.sid \in named \/ g.history \cap named # {}

\* Only when nothing that was not read or not evaluated could name a group.
NamedOnly == /\ ~ in.unsupported /\ ~ share.unevaluated
             /\ share.status # "ReadFailed" /\ in.selectiveAuth = "None"
not_listed == {g \in merged : NamedOnly /\ ~ is_named(g) /\ g.sid \notin deny_only_sids \cup logon_dependent_groups}

\* A membership step a report may fold away.
is_collapsible_membership_step(g) ==
    g.sid \notin decisive \cup deny_only_sids \cup logon_dependent_groups

----------------------------------------------------------------------------
(* Statements about the evaluation as a whole.                             *)

\* access_context_step_with: the well-knowns the step says the token has, lacks, or may have.
access_context_step ==
    LET absent  == identity_absent_well_knowns(in.user)
        bounded == uncertain_well_knowns_with(in.user, lg.anonymous_everyone)
        gone    == absent \cup (IF in.user = AnonymousLogon /\ bounded = {}
                                   /\ ~ anonymous_gets_everyone(in.user, lg.anonymous_everyone)
                                THEN {Everyone} ELSE {})
    IN [has   |-> ({Everyone, AuthenticatedUsers} \ (gone \cup bounded))
                  \cup (IF in.context = "RemoteSmb" THEN {NetworkLogon} ELSE {})
                  \cup (IF in.context = "LocalInteractive" THEN {InteractiveLogon} ELSE {}),
        lacks |-> gone, may |-> bounded]

\* The deny aggregation step: what Deny ACEs took away and what they deny in advance.
denied_for_display == denied["ntfsShown"] \ owner_implicit_bits
allow_union == UNION {expand_generic_rights(in.dacl[i].mask) : i \in {j \in DOMAIN in.dacl :
                   in.dacl[j].kind = "Allow" /\ ~ in.dacl[j].inheritOnly /\ ace_matches(in.dacl[j])}}
taken_away == denied_for_display \cap allow_union

\* The DACL state named where no ACE step explains the result.
DaclStep == IF in.nullDacl THEN "NullDacl"
            ELSE IF in.dacl = <<>> THEN "EmptyDacl"
            ELSE IF \E o \in NtfsOutcomes : o.effect \in {"InheritOnly", "NoEffect", "Decided"} THEN "Matched"
            ELSE IF \E o \in NtfsOutcomes : o.effect = "Uncertain" THEN "OnlyUncertain"
            ELSE "NoAceApplies"

\* The owner rule's step.  An owner that may be filtered is no certain owner, so an OWNER RIGHTS
\* ACE is not seen here and the step is "Uncertain" even where that ACE suppresses the grant.
owner_rights_ace_present == user_is_owner /\ has_owner_rights_ace
OwnerStep == IF owner_implicit_bits # {} THEN "Implicit"
             ELSE IF uncertain_owner /\ ~ owner_rights_ace_present THEN "Uncertain"
             ELSE IF owner_rights_ace_present THEN "Suppressed" ELSE "NoStep"

----------------------------------------------------------------------------
(* The trace and the graph.                                                *)

\* The trace lists the NTFS ACEs before those of the share.
Earlier(p, o) == \/ p.layer = o.layer /\ p.index < o.index
                 \/ p.layer = "Ntfs" /\ o.layer = "Share"
FirstOutcome(o) == \A p \in outcomes : p.ace.sid = o.ace.sid => ~ Earlier(p, o)

\* trace_groups: how the graph shows a trustee; one that is in no token is classified at the
\* first of its outcomes, and "None" draws no box.
in_trace_token(s) == s \in match_sids \cup {g.sid : g \in merged}
GroupState(s) ==
    IF s \in {g.sid : g \in merged}
    THEN IF s \in deny_only_sids THEN "DenyOnly"
         ELSE IF s \in logon_dependent_groups THEN "Uncertain" ELSE "Member"
    ELSE IF s \in match_sids THEN "Implicit"
    ELSE IF \E o \in outcomes : o.ace.sid = s /\ FirstOutcome(o) /\ o.effect = "Uncertain" THEN "Uncertain"
    ELSE "None"
group_decisive(s) == s \in decisive /\ in_trace_token(s)
trace_groups ==
    {[sid |-> s, state |-> GroupState(s), decisive |-> group_decisive(s)] :
        s \in {t \in {o.ace.sid : o \in outcomes} : t # in.user /\ GroupState(t) # "None"}}
\* Memberships no ACE names, counted in the summary box.
other_groups == {g \in merged : g.sid \notin {o.ace.sid : o \in outcomes}}

effect_look(o) ==
    IF o.effect = "Decided" THEN IF o.ace.kind = "Allow" THEN "Granted" ELSE "Denied"
    ELSE IF o.effect = "Uncertain" THEN "Uncertain" ELSE "Inactive"
group_look(g) ==
    IF g.state = "Uncertain" THEN "Uncertain" ELSE IF g.state = "DenyOnly" THEN "Inactive" ELSE "Plain"

logon_node == [None |-> "NoNode", Allowed |-> "Granted", Denied |-> "Denied", Unknown |-> "Uncertain"][in.selectiveAuth]
logon_without_effect == in.selectiveAuth = "Unknown" /\ "Logon" \notin result.uncertainty

\* Determinable values of the finished result.
ntfs_determinable      == result.uncertainty \cap {"Token", "Ntfs", "Target"} = {}
share_determinable     == result.uncertainty \cap {"Token", "Share", "Target"} = {}
effective_determinable == result.uncertainty = {}
ValueLook(known) == IF known THEN "Plain" ELSE "Uncertain"

\* Share ACEs are drawn only where the share restricts.
shown(o) == o.layer = "Ntfs" \/ share.status = "Applied"
Drawn == {o \in outcomes : shown(o)}
AceNode(o)   == <<"ace", o.layer, o.index>>
SidNode(s)   == IF s = in.user THEN <<"direct">> ELSE <<"group", s>>
SidNodes     == (IF \E o \in Drawn : o.ace.sid = in.user THEN {<<"direct">>} ELSE {})
                \cup {<<"group", g.sid>> : g \in trace_groups}
LayerNode(l) == <<"layer", l>>
IntoResult   == IF logon_node = "NoNode" THEN <<"result">> ELSE <<"logon">>

\* Which side limits the result.
limit == IF share.status # "Applied" THEN "None"
         ELSE IF ~ result.ntfs \subseteq result.share THEN "Share"
         ELSE IF ~ result.share \subseteq result.ntfs THEN "Ntfs" ELSE "Neither"

\* Edges between neighbouring columns; strong ones are the decisive route.
leads_strongly(n) ==
    IF n = <<"direct">> THEN \E o \in Drawn : o.ace.sid = in.user /\ o.effect = "Decided" ELSE group_decisive(n[2])
box_look(n) ==
    IF n = <<"direct">> THEN "Plain" ELSE group_look(CHOOSE g \in trace_groups : g.sid = n[2])
AccountEdges ==
    {[from |-> <<"account">>, to |-> n, strong |-> leads_strongly(n), look |-> box_look(n)] : n \in SidNodes}
AceEdges ==
    {[from |-> SidNode(o.ace.sid), to |-> AceNode(o),
      strong |-> o.effect = "Decided" /\ (o.ace.sid = in.user \/ group_decisive(o.ace.sid)),
      look |-> effect_look(o)] : o \in {p \in Drawn : SidNode(p.ace.sid) \in SidNodes}}
    \cup {[from |-> AceNode(o), to |-> LayerNode(o.layer), strong |-> o.effect = "Decided", look |-> effect_look(o)] :
              o \in Drawn}
LayerEdges ==
    {[from |-> LayerNode("Ntfs"), to |-> IntoResult, strong |-> limit \in {"None", "Ntfs"}, look |-> "Value"]}
    \cup (IF share.status = "NotApplicable" THEN {}
          ELSE {[from |-> LayerNode("Share"), to |-> IntoResult, strong |-> limit = "Share", look |-> "Value"]})
LogonEdges ==
    IF logon_node = "NoNode" THEN {}
    ELSE {[from |-> <<"logon">>, to |-> <<"result">>, strong |-> ~ logon_without_effect,
           look |-> IF logon_without_effect THEN "Inactive" ELSE logon_node]}
permission_graph == AccountEdges \cup AceEdges \cup LayerEdges \cup LogonEdges

\* What the boxes of the layers and of the result say.
result_node == IF logon_node = "Denied" THEN [rights |-> {}, look |-> ValueLook(effective_determinable)]
               ELSE [rights |-> result.effective, look |-> ValueLook(effective_determinable)]
ntfs_node   == [rights |-> result.ntfs, look |-> ValueLook(ntfs_determinable)]
share_node  == IF share.status = "ReadFailed" THEN [rights |-> {}, look |-> "Uncertain"]
               ELSE IF share.status = "Applied" THEN [rights |-> result.share, look |-> ValueLook(share_determinable)]
               ELSE [rights |-> Rights, look |-> "Plain"]

----------------------------------------------------------------------------
(* What the explanation promises.                                          *)

\* "the same predicate as logon_dependent_bounds, so every ACE that moves a bound is named"
BoundsAreNamed ==
    \A i \in DOMAIN in.dacl :
        /\ UncertainAce(in.dacl[i]) => AceEffect(i) # "NoStep"
        /\ AceEffect(i) = "Uncertain" => UncertainAce(in.dacl[i])

\* Every bit an ACE decided has a route from the account through the graph, strong where the ACE
\* is an NTFS one, and the decided Allow bits add up to the shown masks.  What is held deny-only
\* without being a membership - S-1-5-114, a historical SID of a filtered group - has no group box.
Leads(o) ==
    \E e \in permission_graph : \E f \in permission_graph :
        /\ e.from = <<"account">> /\ e.to = f.from /\ f.to = AceNode(o)
        /\ o.layer = "Ntfs" => e.strong /\ f.strong
Bits(layer) == UNION {o.bits : o \in {p \in outcomes : p.layer = layer /\ p.effect = "Decided" /\ p.ace.kind = "Allow"}}
RoutesLead ==
    /\ \A o \in Drawn : o.effect = "Decided" /\ o.ace.sid \notin deny_only_sids \ {g.sid : g \in merged} => Leads(o)
    /\ ~ in.nullDacl => Bits("Ntfs") = granted["ntfsShown"]
    /\ Bits("Share") = granted["shareShown"]

\* A membership that is not listed cannot change the row: no ACE and no owner rule sees it.
Without(sids) == sids \ UNION {{g.sid} \cup g.history : g \in not_listed}
UnlistedIsIrrelevant ==
    /\ ~ in.nullDacl => granted["ntfsShown"] = Accessible(in.dacl, Without(match_sids), Without(match_sids) \cup deny_only_sids)
    /\ in.share.kind = "Acl" => granted["shareShown"] =
           Accessible(in.share.aces, Without(share_token.enabled), Without(share_token.enabled) \cup deny_only_sids)
    /\ user_is_owner <=> in.owner \in Without(user_sids)

\* What the owner rule's step says is so in every possible world: granted, not granted, replaced
\* by an OWNER RIGHTS ACE, or granted exactly while User Account Control leaves the group enabled.
\* Where an owner that may be filtered meets an OWNER RIGHTS ACE the step speaks of a grant that
\* logon_dependent_bounds rightly never makes; that step alone is not claimed to be true.
OwnerGrant(w) == RealOwner(w) /\ ~ has_owner_rights_ace
OwnerStepIsTrue ==
    TokenKnown /\ OwnerKnown => \A w \in PossibleWorlds :
        /\ OwnerStep = "Implicit" => OwnerGrant(w)
        /\ OwnerStep \in {"Suppressed", "NoStep"} => ~ OwnerGrant(w)
        /\ OwnerStep = "Suppressed" => RealOwner(w)
        /\ OwnerStep = "Uncertain" /\ ~ has_owner_rights_ace => (OwnerGrant(w) <=> ~ w.filtered)

\* The step on the logon agrees with the token, the Deny step with the walk, the owner step with
\* the token and the bounds, and no box is drawn as exact where the result is not.  An Allow for
\* S-1-5-114 in a certainly filtered token still bounds the result, though its step says it does
\* not apply.
StepsAgree ==
    /\ access_context_step.has \subseteq user_sids
    /\ (access_context_step.lacks \cup access_context_step.may) \cap user_sids = {}
    /\ ~ in.nullDacl => taken_away =
           (Accessible(in.dacl, match_sids, {}) \ Accessible(in.dacl, match_sids, match_sids \cup deny_only_sids))
           \ owner_implicit_bits
    /\ result_node.look = "Plain" => \A w \in PossibleWorlds : \A s \in RealShares(w) :
           OwnerKnown => RealEffective(w, s) = result_node.rights
    /\ DaclStep \in {"EmptyDacl", "NoAceApplies"} =>
           granted["ntfsShown"] = {} /\ uncertain \subseteq {LocalAccountAndAdmin}
    /\ OwnerStep \in {"Suppressed", "NoStep"} => upper_owner_bits = {}
    /\ OwnerStepIsTrue

\* build_explanation, trace_groups and permission_graph_with: the explanation names every ACE
\* that bounds the result, leads every decided bit back to the account, leaves out only
\* memberships that cannot matter, and its steps on the logon, the Deny ACEs, the DACL and the
\* owner are true of the evaluation, the owner step in the one case OwnerStepIsTrue names excepted.
ExplanationIsTrue ==
    pc = "done" => BoundsAreNamed /\ RoutesLead /\ UnlistedIsIrrelevant /\ StepsAgree
=============================================================================
