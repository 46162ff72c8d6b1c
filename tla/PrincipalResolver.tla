-------------------------- MODULE PrincipalResolver --------------------------
(***************************************************************************)
(* From what the user typed to an account and its groups:                  *)
(*   gui/src/worker.rs, cli/src/main.rs     the front ends' choice of way  *)
(*   ad_resolver/src/principal.rs           the pipeline with a directory  *)
(*   ad_resolver/src/resolver.rs            its reads                      *)
(*   ad_resolver/src/trusted.rs             accounts of a trusted domain   *)
(*   ad_resolver/src/local_account.rs, sam.rs   without a directory        *)
(*                                                                         *)
(* env is what the configuration and the other machines answer, dir the    *)
(* directories of all domains.  The directory may change between two       *)
(* reads, and any read may fail or time out.  The account is node 0.       *)
(***************************************************************************)
EXTENDS Trusts

CONSTANTS Cases     \* the pairs [env, dir] a behaviour starts from

\* A logon in the configured domain goes through a trust of that domain or of its forest.  A forest
\* trust leads to another forest, and one trust at most leads to a domain.
LeadsTo(t, d) == (t.holder = "home" \/ t.forest) /\ (t.sid = d \/ (t.forest /\ d \in t.listed))
AreTrusts(trusts) ==
    /\ \A t \in trusts : t.forest => \A d \in {t.sid} \cup t.listed : Forest(d) # "own"
    /\ \A t, u \in trusts : \A d \in Domains : LeadsTo(t, d) /\ LeadsTo(u, d) => t = u

\* The directories a behaviour starts from are well formed, a computer has security groups only,
\* and a base that is the root of what the connection serves leaves nothing outside.
ASSUME CasesAssumption ==
    /\ N \in Nat /\ MaxTokenSids \in Nat
    /\ \A c \in Cases :
         /\ IsDirectory(c.dir) /\ AreTrusts(c.env.trusts)
         /\ c.dir.dom[0] = "server" => c.dir.memberOf[0] \subseteq c.dir.security
         /\ c.env.whole => \A n \in Node :
              n \in c.dir.outside => ~ Visible([dom |-> "home", gc |-> c.env.gc, whole |-> TRUE], c.dir, n)

VARIABLES env,      \* configuration and environment
          dir,      \* the directories
          old,      \* the directories before the change, if there was one
          pc,       \* what the pipeline does next
          cached,   \* identity_cache of the configured connection holds the account
          work,     \* the resolution under construction
          result,   \* what resolve() returned
          check     \* the Selective Authentication check of the target

vars == <<env, dir, old, pc, cached, work, result, check>>

Configured == [dom |-> "home", gc |-> env.gc, whole |-> env.whole]
Trusted    == [dom |-> env.serves, gc |-> FALSE, whole |-> TRUE]

\* PrincipalResolution; history is the account's sIDHistory, node numbers of former accounts.
Nothing == [scope |-> "Pending", groups |-> "NotAttempted", memberships |-> {}, gaps |-> {},
            disabled |-> "Unknown", fsp |-> FALSE, gc |-> FALSE, trusted |-> FALSE,
            history |-> {}, filtered |-> {}]
NoWork == [fsp |-> FALSE, conn |-> Configured, entry |-> [direct |-> {}, primary |-> "NotApplicable"],
           relation |-> Relation("Unknown", "home", NoTrust), memberships |-> {}, gaps |-> {},
           token_set |-> {}, todo |-> {}, out |-> {}, filtered |-> {}, history |-> {}]

Scopes == {"Pending", "Error", "InsideConfiguredLdapBase", "OutsideConfiguredLdapBase",
           "OrphanedSid", "Unresolvable", "LookupFailed", "ResolvedInTrustedDomain"}
Stages == {"front", "lookup", "lsa", "fsp serving", "lsa serving", "classify", "entry", "closure",
           "token", "trusted account", "crossing", "resource", "sam", "target", "done"}

TypeOK ==
    /\ pc \in Stages
    /\ result.scope \in Scopes
    /\ result.groups \in {"LdapRecursive", "SamFlat", "LocalAccount", "NotAttempted", "Failed"}
    /\ \A m \in result.memberships : /\ m.member = 0 /\ m.group \in Group \cup {OrgNode, OtherOrgNode, LocalNode}
                                     /\ m.path # <<>> => Head(m.path) = 0 /\ m.path[Len(m.path)] = m.group
    /\ result.trusted <=> result.scope = "ResolvedInTrustedDomain"
    /\ check \in {"None", "Allowed", "Denied", "Unknown"}
    /\ (pc = "done") <=> result.scope # "Pending" /\ (pc # "target")

----------------------------------------------------------------------------
(* Ends of a resolution.                                                   *)

Return(r, stage) == result' = r /\ pc' = stage /\ UNCHANGED <<env, dir, old, cached, work, check>>
Error            == Return([Nothing EXCEPT !.scope = "Error"], "done")

\* orphaned_resolution, unresolvable_resolution, failed_lookup_resolution.
Bare(scope) == Return([Nothing EXCEPT !.scope = scope], "done")

Goto(stage, w) == pc' = stage /\ work' = w /\ UNCHANGED <<env, dir, old, cached, result, check>>

----------------------------------------------------------------------------
(* The front end: resolve_identity_sids of the GUI, resolve_identity of    *)
(* the CLI, then PrincipalInput::classify.                                 *)

\* A UPN or an account name is searched in the directory; a foreign principal has neither.
FoundByName == search_by_sid(Configured, dir, 0) /\ ~ IsForeign(Configured, dir, 0)

\* A name of another domain is only known to the LSA.
LsaNames == env.lsa = "names" /\ 0 \notin dir.gone

\* resolve_by_lsa_name: the SID comes from the LSA, the rest from the directory.
resolve_by_lsa_name == IF LsaNames THEN Goto("lookup", work) ELSE Error
\* resolve_by_upn, resolve_by_sam: more than one account of the name is an error.
resolve_by_name == IF FoundByName /\ (env.input = "Sam" => ~ env.ambiguous)
                   THEN Goto("entry", work) \/ Error
                   ELSE Error

FrontLdap ==
    /\ pc = "front" /\ env.ldap
    /\ \/ env.input = "Sid" /\ Goto("lookup", work)
       \/ env.input = "LsaName" /\ resolve_by_lsa_name
       \/ env.input \in {"Upn", "Sam"} /\ resolve_by_name

\* local_account_principal: the groups of an account of the server itself, and what could not be read.
local_account_principal(info, listed, primaryRead) ==
    LET primary == IF info THEN PrimaryOf(dir) ELSE {}
        groups  == listed \cup (IF primaryRead THEN primary ELSE {})
    IN  [Nothing EXCEPT
           !.scope = "InsideConfiguredLdapBase", !.groups = "LocalAccount",
           !.disabled = IF info THEN "Known" ELSE "Unknown",
           !.memberships = {Membership(0, g, TRUE, <<0, g>>, IF g \in primary THEN "PrimaryGroup" ELSE "DomainGroup", TRUE, {})
                            : g \in groups}
                           \cup {Membership(0, LocalNode, TRUE, <<0, LocalNode>>, "AccountType", TRUE, {})},
           !.gaps = (IF info THEN {} ELSE {"account not readable"})
                    \cup (IF listed # dir.memberOf[0] THEN {"a group of the account"} ELSE {})
                    \cup (IF primary \ groups # {} THEN {"primary group"} ELSE {})]

\* resolve_account_on_server: every lookup asks the target server, never this machine.
resolve_account_on_server ==
    \E info \in BOOLEAN, listed \in SUBSET dir.memberOf[0], primaryRead \in BOOLEAN :
       Return(local_account_principal(info, listed, primaryRead), "done")
FrontServer ==
    /\ pc = "front" /\ ~ env.ldap
    /\ \/ Error
       \/ dir.dom[0] # "server" /\ Goto("sam", work)
       \/ dir.dom[0] = "server" /\ resolve_account_on_server

\* sam_resolve_fallback: the GUI goes on with a bare SID.
sam_resolve_fallback ==
    env.front = "Gui" /\ Return([Nothing EXCEPT !.scope = "InsideConfiguredLdapBase", !.groups = "SamFlat",
                                                !.gaps = {"SAM resolution failed"}], "done")

\* resolve_identity_via_sam: a flat list of direct groups.  When it fails the CLI gives up.
resolve_identity_via_sam ==
    LET direct == {g \in dir.memberOf[0] \cap dir.security : dir.dom[g] = "home" /\ g \notin dir.local}
    IN  \E listed \in SUBSET direct, known \in {"Known", "Unknown"} :
           Return([Nothing EXCEPT
             !.scope = "InsideConfiguredLdapBase", !.groups = "SamFlat", !.disabled = known,
             !.memberships = {Membership(0, g, TRUE, <<0, g>>, "DomainGroup", TRUE, {}) : g \in listed},
             !.gaps = IF listed # direct THEN {"a group of the account"} ELSE {}], "done")
ResolveViaSam ==
    /\ pc = "sam"
    /\ \/ env.front = "Cli" /\ Error
       \/ sam_resolve_fallback
       \/ LsaNames /\ resolve_identity_via_sam

----------------------------------------------------------------------------
(* resolve_by_sid.                                                         *)

HitWork == [work EXCEPT !.fsp = IsForeign(Configured, dir, 0)]
HitStage == IF IsForeign(Configured, dir, 0) THEN "fsp serving" ELSE "entry"

\* Mutant: a lookup that failed counts as a miss.
LookupBySid_failed_is_miss ==
    /\ pc = "lookup"
    /\ \/ cached /\ Goto(HitStage, HitWork)
       \/ ~ cached /\ Goto("lsa", work)
       \/ /\ ~ cached /\ search_by_sid(Configured, dir, 0)
          /\ pc' = HitStage /\ work' = HitWork /\ cached' = TRUE
          /\ UNCHANGED <<env, dir, old, result, check>>

\* lookup_identity_by_sid through identity_cache; an orphaned identity is never cached.
LookupBySid ==
    /\ pc = "lookup"
    /\ \/ cached /\ Goto(HitStage, HitWork)
       \/ ~ cached /\ Bare("LookupFailed")
       \/ ~ cached /\ ~ search_by_sid(Configured, dir, 0) /\ Goto("lsa", work)
       \/ /\ ~ cached /\ search_by_sid(Configured, dir, 0)
          /\ pc' = HitStage /\ work' = HitWork /\ cached' = TRUE
          /\ UNCHANGED <<env, dir, old, result, check>>

\* fall_back_to_lsa.
FallBackToLsa ==
    /\ pc = "lsa"
    /\ Goto(IF LsaNames THEN "lsa serving" ELSE "classify", work)

\* resolve_with_serving_connection, or the way taken without one.
ServingConnection ==
    /\ pc \in {"fsp serving", "lsa serving"}
    /\ \E ok \in BOOLEAN :
         LET relation == classify_unresolved_sid(Configured, env, dir.dom[0], ok)
         IN  IF relation.rel = "TrustedDomain" /\ env.serves = relation.domain
             THEN Goto("trusted account", [work EXCEPT !.relation = relation, !.conn = Trusted])
             ELSE IF pc = "fsp serving" THEN Goto("entry", work)
             ELSE Bare("OutsideConfiguredLdapBase")

\* classify_unresolved and resolve_in_trusted_domain: a connection that serves another domain,
\* or whose domain SID cannot be read, resolves nothing.
ClassifyUnresolved ==
    /\ pc = "classify"
    /\ \E ok \in BOOLEAN :
         LET relation == classify_unresolved_sid(Configured, env, dir.dom[0], ok)
         IN  IF relation.rel = "TrustedDomain" /\ env.serves = relation.domain
             THEN Goto("trusted account", [work EXCEPT !.relation = relation, !.conn = Trusted])
             ELSE Bare(IF unresolvable_reason(relation) THEN "Unresolvable" ELSE "OrphanedSid")

----------------------------------------------------------------------------
(* resolve_groups: resolve_memberships_inner on the connection in work.    *)

InTrusted == work.relation.rel = "TrustedDomain"

\* A failed read: GroupResolutionStatus::Failed here, an error of resolve_account there.
GroupsFailed ==
    IF InTrusted THEN Bare("Unresolvable")
    ELSE Return([Nothing EXCEPT !.scope = "InsideConfiguredLdapBase", !.groups = "Failed",
                                !.disabled = IF work.fsp THEN "Unknown" ELSE "Known",
                                !.fsp = work.fsp, !.gc = env.gc], "done")

GroupsRead(memberships, gaps, token_set) ==
    IF InTrusted
    THEN Goto("crossing", [work EXCEPT !.memberships = memberships, !.gaps = gaps, !.token_set = token_set])
    ELSE Return([Nothing EXCEPT !.scope = "InsideConfiguredLdapBase", !.groups = "LdapRecursive",
                                !.memberships = memberships, !.gaps = gaps \cup token_set,
                                !.disabled = IF work.fsp THEN "Unknown" ELSE "Known",
                                !.fsp = work.fsp, !.gc = env.gc, !.history = env.history], "done")

\* The account's own entry and its primary group.
ReadEntry ==
    /\ pc = "entry"
    /\ \/ GroupsFailed
       \/ /\ ~ search_by_sid(work.conn, dir, 0)
          /\ GroupsRead({}, {"account not found by the group search"}, {})
       \/ /\ search_by_sid(work.conn, dir, 0)
          /\ Goto("closure", [work EXCEPT !.entry = Entry(work.conn, dir, 0)])

\* The transitive searches and all ranges of memberOf; the chains come from these answers.
ReadClosure ==
    /\ pc = "closure"
    /\ \/ GroupsFailed
       \/ LET a == assemble_memberships(work.conn, work.entry, dir, 0)
          IN  Goto("token", [work EXCEPT
                !.memberships = a.memberships,
                !.gaps = (a.gaps \ {"groups outside the resolved set"})
                         \cup (IF work.entry.primary = "Missing" THEN {"primary group"} ELSE {})
                         \cup token_size_gap(a.memberships),
                !.token_set = a.gaps \cap {"groups outside the resolved set"}])

\* The DC's own list: not compared through a Global Catalog, withheld, unreadable, or compared.
CrossCheck ==
    /\ pc = "token"
    /\ \/ (work.conn.gc \/ ~ dir.token) /\ GroupsRead(work.memberships, work.gaps, work.token_set)
       \/ ~ work.conn.gc /\ GroupsRead(work.memberships, work.gaps \cup {"tokenGroups not readable"},
                                       work.token_set)
       \/ /\ ~ work.conn.gc /\ dir.token /\ 0 \notin dir.gone
          /\ GroupsRead(work.memberships, work.gaps,
                        work.token_set \cup token_groups_gaps(work.memberships, TokenOf(work.conn, dir, 0)))

----------------------------------------------------------------------------
(* LdapTrustedDomainBackend::resolve_account.                              *)

TrustedAccount ==
    /\ pc = "trusted account"
    /\ \/ Bare("Unresolvable")
       \/ search_by_sid(Trusted, dir, 0) /\ Goto("entry", work)

\* Steps 1 and 2: the DC's list of what crosses, required, and the SID filtering of the trust.
Crossing ==
    /\ pc = "crossing"
    /\ \/ Bare("Unresolvable")
       \/ LET t       == work.relation.trust
              sel     == select_cross_domain_memberships(work.memberships, GlobalAndUniversal(Trusted, dir))
              all     == sel.kept \cup {Membership(0, g, FALSE, <<>>, "DomainGroup", FALSE, {})
                                        : g \in sel.without_chain}
              groups  == apply_sid_filtering(GroupsOf(all), dir.dom, t, dir.dom[0])
              former  == apply_sid_filtering(env.history, env.historyDom, t, dir.dom[0])
              kept    == {m \in all : m.group \in groups.kept}
          IN  /\ dir.token /\ 0 \notin dir.gone
              /\ Goto("resource", [work EXCEPT
                   !.memberships = kept,
                   !.history  = former.kept,
                   !.gaps     = @ \cup (IF groups.not_modelled \cup former.not_modelled # {}
                                        THEN {"SID filtering not modelled"} ELSE {}),
                   !.filtered = groups.filtered,
                   !.todo     = {0} \cup groups.kept])

\* Step 3 for one crossing SID: its FSP's groups in the configured domain.
ResourceGroups ==
    /\ pc = "resource" /\ work.todo # {}
    /\ LET via  == Min(work.todo)
           a    == assemble_memberships(Configured, Entry(Configured, dir, via), dir, via)
           home == {m \in work.memberships : m.group = via}
           gaps == a.gaps \cup token_size_gap(a.memberships)
                   \cup (IF dir.token /\ ~ env.gc
                         THEN token_groups_gaps(a.memberships, TokenOf(Configured, dir, via)) ELSE {})
           more == IF via = 0 THEN a.memberships
                   ELSE {chain_through(CHOOSE m \in home : TRUE, r) : r \in a.memberships}
       IN  \/ Bare("Unresolvable")
           \/ /\ ~ search_by_sid(Configured, dir, via)
              /\ Goto("resource", [work EXCEPT !.todo = @ \ {via}])
           \/ /\ search_by_sid(Configured, dir, via)
              /\ Goto("resource", [work EXCEPT !.todo = @ \ {via}, !.gaps = @ \cup gaps, !.out = @ \cup more])

TrustedResult ==
    /\ pc = "resource" /\ work.todo = {}
    /\ LET t   == work.relation.trust
           org == IF t.selective THEN OtherOrgNode ELSE OrgNode
       IN  Return([Nothing EXCEPT
             !.scope = "ResolvedInTrustedDomain", !.groups = "LdapRecursive", !.disabled = "Known",
             !.memberships = work.memberships \cup work.out
                             \cup {Membership(0, org, TRUE, <<0, org>>, "TrustedDomainLogon", TRUE, {})},
             !.gaps = work.gaps, !.trusted = TRUE, !.history = work.history, !.filtered = work.filtered],
             IF t.selective THEN "target" ELSE "done")

\* check_for_target: reads the target's computer object.
CheckTarget ==
    /\ pc = "target"
    /\ \E ok \in BOOLEAN :
         check' = IF ok THEN allowed_to_authenticate(env.sd, {0, EveryoneNode} \cup result.history
                                                                \cup GroupsOf(result.memberships))
                  ELSE "Unknown"
    /\ pc' = "done"
    /\ UNCHANGED <<env, dir, old, cached, work, result>>

----------------------------------------------------------------------------
\* An administrator changes one membership, or deletes the account.
DirectoryChanges ==
    /\ pc \notin {"front", "target", "done"} /\ env.changes /\ dir = old
    /\ \/ \E g \in Group : dir' = [dir EXCEPT !.memberOf[0] =
                                     IF g \in @ THEN @ \ {g} ELSE @ \cup {g}]
       \/ dir' = [dir EXCEPT !.gone = {0}]
    /\ UNCHANGED <<env, old, pc, cached, work, result, check>>

Init ==
    /\ \E c \in Cases : env = c.env /\ dir = c.dir
    /\ old = dir
    /\ pc = "front"
    /\ cached = env.cached
    /\ work = NoWork
    /\ result = Nothing
    /\ check = "None"

Next ==
    \/ FrontLdap \/ FrontServer \/ ResolveViaSam
    \/ LookupBySid \/ FallBackToLsa \/ ServingConnection \/ ClassifyUnresolved
    \/ ReadEntry \/ ReadClosure \/ CrossCheck
    \/ TrustedAccount \/ Crossing \/ ResourceGroups \/ TrustedResult \/ CheckTarget
    \/ DirectoryChanges

Spec == Init /\ [][Next]_vars

----------------------------------------------------------------------------
(* What the resolution says about itself, and what Windows does.           *)

\* engine_flags and membership_diagnostics: the markers of a resolution.
engine_flags(r) ==
    {f \in {"IdentityLookupFailed", "GroupResolutionFailed", "IdentityNotResolvable",
            "GroupResolutionIncomplete", "IdentityNotInConfiguredLdapBase", "IdentityOrphaned",
            "DomainGroupRecursionIncomplete", "ResolvedViaFsp", "ViaGlobalCatalog",
            "DisabledStatusUnknown"} :
       \/ f = "IdentityLookupFailed" /\ r.scope = "LookupFailed"
       \/ f = "GroupResolutionFailed" /\ (r.groups = "Failed" \/ r.scope = "OutsideConfiguredLdapBase")
       \/ f = "IdentityNotResolvable" /\ r.scope = "Unresolvable"
       \/ f = "GroupResolutionIncomplete" /\ r.gaps # {}
       \/ f = "IdentityNotInConfiguredLdapBase" /\ r.scope = "OutsideConfiguredLdapBase"
       \/ f = "IdentityOrphaned" /\ r.scope = "OrphanedSid"
       \/ f = "DomainGroupRecursionIncomplete" /\ r.groups = "SamFlat"
       \/ f = "ResolvedViaFsp" /\ r.fsp
       \/ f = "ViaGlobalCatalog" /\ r.gc
       \/ f = "DisabledStatusUnknown" /\ r.disabled = "Unknown" /\ r.scope # "OrphanedSid"}

\* An answer that claims the whole token.
Whole == /\ pc = "done" /\ result.scope # "Error"
         /\ engine_flags(result) \subseteq {"DisabledStatusUnknown"}

\* Domains whose SIDs get through to the configured domain; `more` are domains for which
\* nobody measured what the trust does (external).
TrustToward(d) == {t \in env.trusts : LeadsTo(t, d)}
Unmeasured(d)  == IF \E t \in TrustToward(d) : Removes(t) THEN {} ELSE {"partner", "child", "home"}
PassesInto(d, more) == IF Forest(d) = "own" THEN Domains
                       ELSE more \cup UNION {Passes(t, d) : t \in TrustToward(d)}

\* The groups in the token of a logon in the configured domain (external).
RealGroups(more) ==
    LET account  == [dom |-> dir.dom[0], gc |-> FALSE, whole |-> TRUE]
        crossing == {g \in GlobalAndUniversal(account, dir) : dir.dom[g] \in PassesInto(dir.dom[0], more)}
        homes    == {g \in Group : dir.dom[g] = "home"}
    IN  crossing \cup TokenFrom(dir, {0} \cup crossing, homes)

\* The part of it the configured domain knows.
KnownAtHome ==
    LET homes == {g \in Group : dir.dom[g] = "home"}
    IN  PrimaryOf(dir) \cup TokenFrom(dir, {0} \cup PrimaryOf(dir), homes)

ClaimedGroups == GroupsOf(result.memberships) \cap Group

\* An account resolved on the domain controller of its own, trusted domain, as the
\* documentation promises: global and universal groups there, SID filtering, and the
\* domain-local groups of the configured domain (resolve_account).
TrustedTokenIsWhole ==
    Whole /\ result.trusted /\ dir = old =>
        \A more \in SUBSET Unmeasured(dir.dom[0]) :
            /\ ClaimedGroups = RealGroups(more)
            /\ result.history = {h \in env.history : env.historyDom[h] \in PassesInto(dir.dom[0], more)}

\* It is so where the configured connection serves a whole domain and the account is seen through
\* its Foreign Security Principal.
SeenFromDomain == env.whole /\ ~ env.gc /\ Forest(dir.dom[0]) # "own"

\* An account of the configured domain or of the server.  Without the DC's tokenGroups this is
\* claimed for the configured domain's groups, where memberOf can be read, the directory stood
\* still and every group is shown with its route.  A set that fits into no logon token is marked
\* (token_size_gap).
OwnTokenIsWhole ==
    Whole => /\ dir.dom[0] = "home" => Cardinality(ClaimedGroups) <= MaxTokenSids
             /\ dir.dom[0] = "server" => ClaimedGroups = dir.memberOf[0] \cup PrimaryOf(dir)
             /\ dir.dom[0] = "home" /\ dir.token => ClaimedGroups = RealGroups({})
             /\ dir.dom[0] = "home" /\ ~ dir.token /\ dir.mute = {} /\ dir = old
                /\ (\A m \in result.memberships : m.complete) => ClaimedGroups = KnownAtHome

\* A resolution without a marker has every group Windows puts into the token and no other,
\* whatever was unreadable, outside the base, in another domain or changed between two reads
\* (resolve_memberships_inner, assemble_memberships, resolve_account, engine_flags).
TokenIsWholeOrMarked == OwnTokenIsWhole /\ (SeenFromDomain => TrustedTokenIsWhole)

IsEdge(d, a, b) == b \in d.memberOf[a] \/ (a = 0 /\ b = d.primary)

\* Every route shown exists, link by link, through groups that count; the direct flag is that of
\* the directory; and in a directory that stood still a whole answer shows a shortest route and
\* every other way in (RouteTable, assemble_memberships, chain_through).
RoutesAreReal ==
    \A m \in result.memberships : m.group \in Group /\ m.complete /\ m.path # <<>> =>
        /\ \A i \in 1 .. Len(m.path) - 1 : \/ IsEdge(dir, m.path[i], m.path[i + 1])
                                           \/ IsEdge(old, m.path[i], m.path[i + 1])
        /\ \A i \in 2 .. Len(m.path) : m.path[i] \in dir.security \cup dir.untyped \cup PrimaryOf(dir)
        /\ m.direct => Len(m.path) = 2
        /\ Whole /\ dir = old /\ dir.dom[0] = "home" /\ dir.mute = {} =>
             LET real == [n \in Node |-> {g \in ClaimedGroups : IsEdge(dir, n, g)}]
                 near == dist(ClaimedGroups, real, real[0])
             IN  /\ m.direct = (m.group \in real[0])
                 /\ Len(m.path) = near[m.group] + 1
                 /\ {c \in ClaimedGroups : m.group \in real[c]} = m.also
                        \cup {c \in ClaimedGroups : Len(m.path) > 2 /\ c = m.path[Len(m.path) - 1]}

\* Orphaned is said only of an account that is gone, never of one that could not be seen
\* (classify_unresolved, classify_with, unresolvable_reason).
OrphanedIsProven == result.scope = "OrphanedSid" => 0 \in dir.gone

\* A decided Selective Authentication check is the domain controller's decision for the real
\* token, whatever the logon adds to it (allowed_to_authenticate, check_for_target), for an account
\* seen as above.
LogonDecisionIsCertain ==
    pc = "done" /\ check \in {"Allowed", "Denied"} /\ Whole /\ SeenFromDomain /\ dir = old =>
        \A logon \in SUBSET {LogonNode} :
            \/ env.sd.dacl = "null" /\ check = "Allowed"
            \/ check = first_decision(env.sd.aces, {0, EveryoneNode, OtherOrgNode} \cup RealGroups({})
                                                   \cup result.history \cup logon)

----------------------------------------------------------------------------
\* The inductive invariants behind these properties.  The directory changes at most once, and
\* only in the memberships of the account and in its being there.
SameBut(d, o) ==
    /\ d = [o EXCEPT !.memberOf = d.memberOf, !.gone = d.gone]
    /\ \A n \in Group : d.memberOf[n] = o.memberOf[n]
DirInv ==
    /\ IsDirectory(dir) /\ IsDirectory(old) /\ SameBut(dir, old) /\ AreTrusts(env.trusts)
    /\ env.whole => \A n \in Node : n \in dir.outside => ~ Visible(Configured, dir, n)
    /\ dir.dom[0] = "server" => old.memberOf[0] \subseteq old.security
    /\ pc = "front" => dir = old

\* A search of a whole base misses only what is gone.
MissInv == pc \in {"lsa", "lsa serving", "classify"} /\ env.whole /\ Visible(Configured, dir, 0) => 0 \in dir.gone

\* A resolution says nothing before it returns.
Under == Stages \ {"target", "done"}
UnderInv == pc \in Stages /\ (pc \in Under => result = Nothing /\ check = "None")

ResolveInv == DirInv /\ MissInv /\ UnderInv

\* A membership whose route starts at n, ends at its group, and exists link by link.
IsRoute(m, n, d, o) ==
    /\ m = Membership(n, m.group, m.direct, m.path, m.source, m.complete, m.also)
    /\ m.group \in Group /\ m.path \in Seq(Node)
    /\ m.path # <<>> => m.path[1] = n /\ m.path[Len(m.path)] = m.group
    /\ m.complete /\ m.path # <<>> =>
         /\ \A i \in 1 .. Len(m.path) - 1 : IsEdge(d, m.path[i], m.path[i + 1]) \/ IsEdge(o, m.path[i], m.path[i + 1])
         /\ \A i \in 2 .. Len(m.path) : m.path[i] \in d.security \cup d.untyped \cup PrimaryOf(d)
         /\ m.direct => Len(m.path) = 2

\* The resolution under construction: which connection it reads, what it read of the account's
\* entry, the memberships it has, and the SIDs it still asks about in the configured domain.
EntryInv ==
    /\ \A g \in work.entry.direct : g \in Group /\ (IsEdge(dir, 0, g) \/ IsEdge(old, 0, g))
    /\ work.entry.primary = "Found" => dir.primary # 0
IsWork(w) ==
    w = [fsp |-> w.fsp, conn |-> w.conn, entry |-> w.entry, relation |-> w.relation, memberships |-> w.memberships,
         gaps |-> w.gaps, token_set |-> w.token_set, todo |-> w.todo, out |-> w.out, filtered |-> w.filtered,
         history |-> w.history]
WorkInv ==
    /\ IsWork(work)
    /\ InTrusted => dir.dom[0] \notin {"home", "server"}
    /\ EntryInv
    /\ \A m \in work.memberships \cup work.out : IsRoute(m, 0, dir, old)
    /\ pc = "resource" => work.todo \subseteq {0} \cup GroupsOf(work.memberships)
    /\ pc \in {"trusted account", "crossing", "resource"} => InTrusted
    /\ pc \in {"front", "lookup", "fsp serving"} => work.conn = Configured
    /\ pc = "front" => work.fsp = FALSE
    /\ pc = "fsp serving" => work.fsp = IsForeign(Configured, dir, 0)
    /\ pc \in {"entry", "closure", "token"} /\ ~ InTrusted => work.conn = Configured /\ work.fsp = IsForeign(Configured, dir, 0)

\* What is read in the configured domain is what a directory that stood still says.
ReadInv ==
    LET e == Entry(Configured, dir, 0)
        a == assemble_memberships(Configured, e, dir, 0)
    IN  ~ InTrusted =>
          /\ pc = "closure" /\ dir = old => work.entry = e
          /\ pc = "token" => token_size_gap(work.memberships) \subseteq work.gaps
          /\ pc = "token" /\ dir = old =>
               /\ work.memberships = a.memberships /\ a.gaps \subseteq work.gaps \cup work.token_set
               /\ e.primary = "Missing" => work.gaps # {}

\* What an answer says of an account of the configured domain.
AnswerInv ==
    LET e == Entry(Configured, dir, 0)
        a == assemble_memberships(Configured, e, dir, 0)
    IN  /\ pc = "target" => dir.dom[0] \notin {"home", "server"}
        /\ Whole /\ dir.dom[0] = "home" =>
             /\ \A m \in result.memberships : IsRoute(m, 0, dir, old)
             /\ ~ env.gc /\ token_size_gap(result.memberships) = {}
             /\ dir.token => GroupsOf(result.memberships) = TokenOf(Configured, dir, 0)
             /\ dir = old => result.memberships = a.memberships /\ a.gaps = {} /\ e.primary # "Missing"
        /\ Whole /\ dir.dom[0] = "server" => ClaimedGroups = dir.memberOf[0] \cup PrimaryOf(dir)

\* What every answer shows.
ShownInv ==
    /\ result.groups \in {"LdapRecursive", "SamFlat", "LocalAccount", "NotAttempted", "Failed"}
    /\ result.scope \in Scopes /\ (pc \in {"target", "done"} => result.scope # "Pending")
    /\ check \in {"None", "Allowed", "Denied", "Unknown"}
    /\ result.trusted <=> result.scope = "ResolvedInTrustedDomain"
    /\ \A m \in result.memberships :
         \/ IsRoute(m, 0, dir, old)
         \/ m.member = 0 /\ m.group \in {OrgNode, OtherOrgNode, LocalNode} /\ m.path = <<0, m.group>>

MemberInv == WorkInv /\ ReadInv /\ AnswerInv /\ ShownInv

\* What gets through the trust t, and that nothing is held back which it may let through.
Crossed(t)  == {g \in GlobalAndUniversal(Trusted, dir) : dir.dom[g] \in Passes(t, dir.dom[0])}
Former(t)   == {h \in env.history : env.historyDom[h] \in Passes(t, dir.dom[0])}
Measured(t) == Removes(t) \/ (Crossed(t) = GlobalAndUniversal(Trusted, dir) /\ Former(t) = env.history)
AtHome(nodes) == TokenFrom(dir, nodes, {g \in Group : dir.dom[g] = "home"})
SeenStill == SeenFromDomain /\ dir = old

\* The resolution through a trust: the trust leads to the account's domain, its memberships are
\* what crosses, and what was added is in the token of the SIDs asked about so far.
CrossInv ==
    LET t == work.relation.trust
    IN  /\ InTrusted /\ ~ env.gc => t \in TrustToward(dir.dom[0]) /\ env.serves = dir.dom[0]
        /\ pc # "resource" /\ pc \in Under => work.out = {}
        /\ pc = "resource" /\ SeenStill =>
             /\ dir.token /\ GroupsOf(work.memberships) = Crossed(t) /\ work.history = Former(t)
             /\ work.gaps = {} => Measured(t) /\ GroupsOf(work.out) = AtHome(({0} \cup Crossed(t)) \ work.todo)

\* Its answer, and the decision about the target.
TrustedInv ==
    /\ pc \in {"target", "done"} /\ result.trusted /\ result.gaps = {} /\ SeenStill =>
         \E t \in TrustToward(dir.dom[0]) :
            /\ env.serves = dir.dom[0] /\ Measured(t) /\ result.history = Former(t)
            /\ ClaimedGroups = Crossed(t) \cup AtHome({0} \cup Crossed(t))
    /\ pc = "target" \/ check \in {"Allowed", "Denied"} =>
         result.trusted /\ GroupsOf(result.memberships) = ClaimedGroups \cup {OtherOrgNode}
    /\ check \in {"Allowed", "Denied"} =>
         check = allowed_to_authenticate(env.sd, {0, EveryoneNode} \cup result.history \cup GroupsOf(result.memberships))
LogonInv == CrossInv /\ TrustedInv
=============================================================================
