--------------------------- MODULE PermissionEngine ---------------------------
(***************************************************************************)
(* The analysis of one path for one account, from the local groups of the  *)
(* target to the finished EffectivePermission:                             *)
(*   analysis::local_groups   -> CollectLocalGroups                        *)
(*   share_scanner::scanner   -> ResolveShare, the share walks             *)
(*   permission_engine::engine-> the NTFS walks, the bounds, Combine       *)
(*   core::model              -> uncertainty, effective_upper_bound        *)
(*                                                                         *)
(* An access mask is the set of its right bits; GENERIC_* bits are members *)
(* of Generics and are expanded where the code expands them.  Each walk    *)
(* over a DACL is a loop of the code, one ACE per step.                    *)
(***************************************************************************)
EXTENDS AccessToken, Sequences

CONSTANTS Rights,        \* specific right bits
          Generics,      \* GENERIC_READ, GENERIC_WRITE, ...
          GenericMap,    \* the specific bits each generic bit stands for
          FullControl,   \* MASK_FULL_CONTROL
          ReadControl, WriteDac, Synchronize,
          Inputs         \* the requests considered

Kinds == {"Allow", "Deny"}
Ace   == [sid : Sid, kind : Kinds, inheritOnly : BOOLEAN, mask : SUBSET (Rights \cup Generics)]

\* One request: identity and memberships as resolved, what the target answers
\* (policies, group table, share DACL), the object, and the markers of other layers.
IsInput(i) ==
    /\ i.user \in Sid
    /\ i.history \subseteq Sid
    /\ \A m \in i.memberships : m.sid \in Sid /\ m.history \subseteq Sid
    /\ i.localAccount \in BOOLEAN /\ i.builtinAdmin \in BOOLEAN
    /\ i.context \in Contexts
    /\ {i.anonymousPolicy, i.lua, i.latfp, i.fat} \subseteq Policy
    /\ i.table.readable \in BOOLEAN /\ i.table.gaps \in BOOLEAN
    /\ \A g \in i.table.groups : g.sid \in Sid /\ g.members \subseteq Sid
    /\ \A g \in i.table.groups : g.sid \notin {i.user} \cup i.history \cup WellKnowns
    /\ \A g, h \in i.table.groups : g.sid = h.sid => g = h
    /\ i.localAccount => \A g \in i.table.groups : g.sid \notin MembershipSids(i.memberships)
    /\ LocalAccountAndAdmin \notin {i.user} \cup i.history \cup MembershipSids(i.memberships)
    /\ AuthenticatedUsers \notin i.history \cup MembershipSids(i.memberships)
    /\ i.user = AnonymousLogon => Everyone \notin i.history \cup MembershipSids(i.memberships)
    /\ i.share.kind \in {"NoContext", "ReadFailed", "NoSecurityDescriptor", "NullDacl", "Acl"}
    /\ i.share.kind # "Acl" => i.share.aces = <<>>
    /\ i.share.aces \in Seq(Ace) /\ i.share.unsupported \in BOOLEAN
    /\ \A k \in DOMAIN i.share.aces : ~ i.share.aces[k].inheritOnly
    /\ i.dacl \in Seq(Ace) /\ i.nullDacl \in BOOLEAN /\ i.unsupported \in BOOLEAN
    /\ i.owner \in Sid \cup {"NoOwner"}
    /\ i.tokenGap \in BOOLEAN /\ i.dfsOpen \in BOOLEAN
    /\ i.selectiveAuth \in {"None", "Allowed", "Denied", "Unknown"}

ASSUME RightsAssumption ==
    /\ FullControl \subseteq Rights
    /\ {ReadControl, WriteDac, Synchronize} \subseteq FullControl
    /\ Rights \cap Generics = {}
    /\ GenericMap \in [Generics -> SUBSET Rights]
ASSUME InputsAssumption == \A i \in Inputs : IsInput(i)

ShareWalks == {"shareShown", "shareMax", "shareMin"}
NtfsWalks  == {"ntfsShown", "ntfsMax", "ntfsMin"}
Walks      == ShareWalks \cup NtfsWalks
Stages     == {"local", "share", "ntfs", "combine", "done"} \cup Walks

VARIABLES
    in,             \* the request
    pc,             \* the stage of the analysis, or the walk in progress
    lg,             \* LocalGroupResolution
    pos,            \* next ACE of each walk
    granted,        \* bits granted / denied so far by each walk
    denied,
    contributions,  \* Allow bits per trustee of the shown NTFS walk
    decided,        \* decided_per_ace of the shown NTFS walk
    share,          \* ShareMaskStatus and whether ACEs stayed unevaluated
    bounds,         \* LogonDependentBounds, known = FALSE for None
    result          \* the EffectivePermission
vars == <<in, pc, lg, pos, granted, denied, contributions, decided, share, bounds, result>>

----------------------------------------------------------------------------
\* Mutant: GENERIC_* bits kept beside the specific bits they stand for.
expand_keeping_generics(mask) == mask \cup UNION {GenericMap[g] : g \in mask \cap Generics}

expand_generic_rights(mask) ==
    (mask \ Generics) \cup UNION {GenericMap[g] : g \in mask \cap Generics}

ace_applies_to_current_object(ace) == ~ ace.inheritOnly

\* The token of the NTFS evaluation, as evaluate() derives it.
TokenGroups ==
    (build_token_sids_with_context(in.user, in.history, in.memberships, lg.sids, in.context)
       \ lg.uac_filtered)
    \cup (IF anonymous_gets_everyone(in.user, lg.anonymous_everyone) THEN {Everyone} ELSE {})
crypto_operators_uncertain == CryptographicOperators \in TokenGroups
\* Mutant: Cryptographic Operators trusted like any other group.
user_sids_with_crypto == TokenGroups
user_sids == TokenGroups \ {CryptographicOperators}

user_is_owner == in.owner \in user_sids
has_owner_rights_ace ==
    \E i \in DOMAIN in.dacl :
        in.dacl[i].sid = OwnerRights /\ ace_applies_to_current_object(in.dacl[i])
match_sids == IF user_is_owner THEN user_sids \cup {OwnerRights} ELSE user_sids
deny_only_sids     == lg.uac_filtered
uac_filter_certain == lg.remote_uac = "Filtered"
uncertain_owner    == in.owner \in deny_only_sids /\ ~ uac_filter_certain
logon_dependent_groups ==
    lg.logon_dependent
    \cup (IF crypto_operators_uncertain THEN {CryptographicOperators} ELSE {})
    \cup uncertain_well_knowns_with(in.user, lg.anonymous_everyone)

owner_implicit_bits ==
    IF user_is_owner /\ ~ has_owner_rights_ace THEN {ReadControl, WriteDac} ELSE {}
upper_owner_bits ==
    IF uncertain_owner /\ ~ has_owner_rights_ace
    THEN owner_implicit_bits \cup {ReadControl, WriteDac}
    ELSE owner_implicit_bits

\* logon_dependent_bounds: the trustees that may or may not be in the real token.
UncertainAce(ace) ==
    /\ ace_applies_to_current_object(ace)
    /\ ace.sid \notin match_sids
    /\ \/ is_logon_dependent_for(ace.sid, in.context, match_sids)
       \/ ace.sid \in logon_dependent_groups
       \/ ace.kind = "Allow" /\ ace.sid \in deny_only_sids /\ ~ uac_filter_certain
       \/ uncertain_owner /\ ace.sid = OwnerRights
uncertain == {in.dacl[i].sid : i \in {j \in DOMAIN in.dacl : UncertainAce(in.dacl[j])}}

----------------------------------------------------------------------------
\* The token of the share evaluation, built apart from the NTFS one.
ShareUncertainGroups ==
    (lg.logon_dependent \ lg.uac_filtered) \cup identity_uncertain_well_knowns(in.user)
ShareEnabledGroups ==
    build_token_sids_with_context(in.user, in.history, in.memberships, lg.sids, in.context)
      \ (lg.uac_filtered \cup ShareUncertainGroups)
PolicyDecidesEveryone == in.user = AnonymousLogon /\ lg.anonymous_everyone # "None"
share_token ==
    [enabled   |-> (ShareEnabledGroups \ {CryptographicOperators})
                   \cup (IF PolicyDecidesEveryone /\ lg.anonymous_everyone = "True"
                         THEN {Everyone} ELSE {}),
     uncertain |-> (ShareUncertainGroups
                      \cup (ShareEnabledGroups \cap {CryptographicOperators}))
                   \ (IF PolicyDecidesEveryone THEN {Everyone} ELSE {})]

UncertainShareAce(ace) ==
    /\ ace.sid \notin share_token.enabled
    /\ \/ ace.sid \in share_token.uncertain
       \/ is_logon_dependent_for(ace.sid, in.context, share_token.enabled)
       \/ ace.kind = "Allow" /\ ace.sid \in deny_only_sids /\ ~ uac_filter_certain
share_uncertain ==
    {in.share.aces[i].sid : i \in {j \in DOMAIN in.share.aces : UncertainShareAce(in.share.aces[j])}}

----------------------------------------------------------------------------
\* The two match predicates of each walk: whose Allow and whose Deny ACEs count.
Certain(w)   == IF w \in ShareWalks THEN share_token.enabled ELSE match_sids
Undecided(w) == IF w \in ShareWalks THEN share_uncertain ELSE uncertain

allow_matches(w) ==
    IF w \in {"shareMax", "ntfsMax"} THEN Certain(w) \cup Undecided(w) ELSE Certain(w)
\* Mutant: the lower bound does not count uncertain Deny ACEs.
deny_matches_certain_only(w) == Certain(w) \cup deny_only_sids
deny_matches(w) ==
    IF w \in {"shareMin", "ntfsMin"} THEN Certain(w) \cup deny_only_sids \cup Undecided(w)
                                     ELSE Certain(w) \cup deny_only_sids

Dacl(w) == IF w \in ShareWalks THEN in.share.aces ELSE in.dacl

\* Share ACEs carry no inheritance flags.
Applies(w, ace) ==
    /\ w \in ShareWalks \/ ace_applies_to_current_object(ace)
    /\ ace.sid \in (IF ace.kind = "Allow" THEN allow_matches(w) ELSE deny_matches(w))

----------------------------------------------------------------------------
NoBounds == [known |-> FALSE, min |-> {}, max |-> {}]
NoResult == [ntfs |-> {}, share |-> {}, effective |-> {}, uncertainty |-> {},
             upper |-> {}, synchronizeGap |-> "None"]
NoGroups == [sids |-> {}, logon_dependent |-> {}, uac_filtered |-> {}, remote_uac |-> "Unknown",
             anonymous_everyone |-> "None", available |-> FALSE]

Init ==
    /\ in \in Inputs
    /\ pc = "local"
    /\ lg = NoGroups
    /\ pos = [w \in Walks |-> 1]
    /\ granted = [w \in Walks |-> {}]
    /\ denied = [w \in Walks |-> {}]
    /\ contributions = [s \in Sid |-> {}]
    /\ decided = [i \in DOMAIN in.dacl |-> {}]
    /\ share = [status |-> "NotApplicable", unevaluated |-> FALSE]
    /\ bounds = NoBounds
    /\ result = NoResult

walkVars == <<pos, granted, denied, contributions, decided>>

CollectLocalGroups ==
    /\ pc = "local"
    /\ lg' = collect_local_groups_on(in)
    /\ pc' = "share"
    /\ UNCHANGED <<in, walkVars, share, bounds, result>>

StatusWithoutAcl ==
    [NoContext |-> "NotApplicable", NullDacl |-> "Unrestricted",
     ReadFailed |-> "ReadFailed", NoSecurityDescriptor |-> "ReadFailed"]

\* resolve_share_mask_status_explained up to the evaluation of a readable ACL.
ResolveShare ==
    /\ pc = "share"
    /\ \/ /\ in.share.kind = "Acl"
          /\ pc' = "shareShown"
          /\ UNCHANGED share
       \/ /\ in.share.kind # "Acl"
          /\ share' = [status      |-> StatusWithoutAcl[in.share.kind],
                       unevaluated |-> in.share.kind = "NullDacl" /\ in.share.unsupported]
          /\ pc' = "ntfs"
    /\ UNCHANGED <<in, lg, walkVars, bounds, result>>

\* Mutant: bits an earlier Allow granted are granted again.
NewBits_regranted(w, ace) ==
    IF Applies(w, ace) THEN expand_generic_rights(ace.mask) \ denied[w] ELSE {}

\* Mutant: an Allow ACE overrules an earlier Deny.
NewBits_deny_overruled(w, ace) ==
    IF Applies(w, ace) THEN expand_generic_rights(ace.mask) \ granted[w] ELSE {}

\* What an ACE newly decides: the first decision per bit wins.
NewBits(w, ace) ==
    IF Applies(w, ace) THEN expand_generic_rights(ace.mask) \ (granted[w] \cup denied[w]) ELSE {}

\* One iteration of walk_dacl_stored_order, walk_granted_with or share_walk.
WalkAce(w) ==
    /\ pc = w
    /\ pos[w] <= Len(Dacl(w))
    /\ LET ace  == Dacl(w)[pos[w]]
           bits == NewBits(w, ace)
       IN  /\ granted' = [granted EXCEPT ![w] = IF ace.kind = "Allow" THEN @ \cup bits ELSE @]
           /\ denied'  = [denied  EXCEPT ![w] = IF ace.kind = "Deny"  THEN @ \cup bits ELSE @]
           /\ IF w = "ntfsShown"
              THEN /\ decided' = [decided EXCEPT ![pos[w]] = bits]
                   /\ contributions' = IF ace.kind = "Allow"
                                       THEN [contributions EXCEPT ![ace.sid] = @ \cup bits]
                                       ELSE contributions
              ELSE UNCHANGED <<decided, contributions>>
    /\ pos' = [pos EXCEPT ![w] = @ + 1]
    /\ UNCHANGED <<in, pc, lg, share, bounds, result>>

WalkFinished(w) == pc = w /\ pos[w] > Len(Dacl(w))

\* evaluate_share_dacl: no uncertain trustee, no second opinion needed.
ShareShownDone ==
    /\ WalkFinished("shareShown")
    /\ IF share_uncertain = {}
       THEN /\ share' = [status |-> "Applied", unevaluated |-> in.share.unsupported]
            /\ pc' = "ntfs"
       ELSE /\ pc' = "shareMax"
            /\ UNCHANGED share
    /\ UNCHANGED <<in, lg, walkVars, bounds, result>>

ShareMaxDone ==
    /\ WalkFinished("shareMax")
    /\ pc' = "shareMin"
    /\ UNCHANGED <<in, lg, walkVars, share, bounds, result>>

ShareMinDone ==
    /\ WalkFinished("shareMin")
    /\ share' = [status      |-> "Applied",
                 unevaluated |-> in.share.unsupported
                                 \/ granted["shareMax"] # granted["shareMin"]]
    /\ pc' = "ntfs"
    /\ UNCHANGED <<in, lg, walkVars, bounds, result>>

\* A NULL DACL grants everyone full control and is never bounded.
StartNtfs ==
    /\ pc = "ntfs"
    /\ \/ /\ in.nullDacl
          /\ granted' = [granted EXCEPT !["ntfsShown"] = FullControl]
          /\ pc' = "combine"
       \/ /\ ~ in.nullDacl
          /\ pc' = "ntfsShown"
          /\ UNCHANGED granted
    /\ UNCHANGED <<in, lg, pos, denied, contributions, decided, share, bounds, result>>

\* logon_dependent_bounds returns None before any walk when nothing is uncertain.
NtfsShownDone ==
    /\ WalkFinished("ntfsShown")
    /\ pc' = IF uncertain = {} /\ upper_owner_bits = owner_implicit_bits
             THEN "combine" ELSE "ntfsMax"
    /\ UNCHANGED <<in, lg, walkVars, share, bounds, result>>

NtfsMaxDone ==
    /\ WalkFinished("ntfsMax")
    /\ pc' = "ntfsMin"
    /\ UNCHANGED <<in, lg, walkVars, share, bounds, result>>

NtfsMinDone ==
    /\ WalkFinished("ntfsMin")
    /\ LET max == granted["ntfsMax"] \cup upper_owner_bits
           min == granted["ntfsMin"] \cup owner_implicit_bits
       IN  bounds' = IF min = max THEN NoBounds ELSE [known |-> TRUE, min |-> min, max |-> max]
    /\ pc' = "combine"
    /\ UNCHANGED <<in, lg, walkVars, share, result>>

----------------------------------------------------------------------------
\* The layers a finished result is uncertain in, without the logon.
PermissionUncertainty ==
    (IF share.status = "ReadFailed" \/ share.unevaluated THEN {"Share"} ELSE {})
    \cup (IF in.unsupported \/ bounds.known THEN {"Ntfs"} ELSE {})
    \cup (IF in.tokenGap \/ ~ lg.available THEN {"Token"} ELSE {})
    \cup (IF in.dfsOpen THEN {"Target"} ELSE {})

\* Mutant: the shown share mask always restricts.
upper_bound_always_shared(ntfs, effective, uncertainty) ==
    effective \cup (IF share.status = "Applied" THEN (ntfs \cup bounds.max) \cap granted["shareShown"]
                                                ELSE ntfs \cup bounds.max)

effective_upper_bound(ntfs, effective, uncertainty) ==
    LET upper == ntfs \cup bounds.max
    IN  IF uncertainty = {} THEN effective
        ELSE effective \cup
             (IF share.status = "Applied" /\ uncertainty \cap {"Share", "Target"} = {}
              THEN upper \cap granted["shareShown"] ELSE upper)

\* Mutant: the gap is read off the shown value, not its upper bound.
synchronize_gap_of_shown(ntfs, effective, uncertainty) ==
    IF effective \subseteq {Synchronize} \/ Synchronize \in effective THEN "None"
    ELSE IF Synchronize \in ntfs THEN "NotGrantedByShare"
    ELSE IF Synchronize \in denied["ntfsShown"] THEN "DeniedByNtfsAce"
    ELSE "NotGrantedByNtfs"

\* Why the effective right holds rights but not SYNCHRONIZE.
synchronize_gap(ntfs, effective, uncertainty) ==
    IF \/ effective \subseteq {Synchronize}
       \/ Synchronize \in effective_upper_bound(ntfs, effective, uncertainty)
    THEN "None"
    ELSE IF Synchronize \in ntfs THEN "NotGrantedByShare"
    ELSE IF Synchronize \in denied["ntfsShown"] THEN "DeniedByNtfsAce"
    ELSE "NotGrantedByNtfs"

\* evaluate() from the share combination to the refused logon.  An undeterminable
\* logon does not matter where nothing is granted and nothing else is uncertain.
CombinedResult ==
    LET ntfs        == granted["ntfsShown"] \cup owner_implicit_bits
        raw         == IF share.status = "Applied" THEN ntfs \cap granted["shareShown"] ELSE ntfs
        uncertainty == PermissionUncertainty
                       \cup (IF in.selectiveAuth = "Unknown"
                                /\ ~ (raw = {} /\ PermissionUncertainty = {})
                             THEN {"Logon"} ELSE {})
        effective   == IF in.selectiveAuth = "Denied" THEN {} ELSE raw
    IN  [ntfs           |-> ntfs,
         share          |-> granted["shareShown"],
         effective      |-> effective,
         uncertainty    |-> uncertainty,
         upper          |-> effective_upper_bound(ntfs, effective, uncertainty),
         synchronizeGap |-> IF in.selectiveAuth = "Denied" THEN "None"
                            ELSE synchronize_gap(ntfs, raw, uncertainty)]

Combine ==
    /\ pc = "combine"
    /\ result' = CombinedResult
    /\ pc' = "done"
    /\ UNCHANGED <<in, lg, walkVars, share, bounds>>

Finished == pc = "done" /\ UNCHANGED vars

Next ==
    \/ CollectLocalGroups \/ ResolveShare
    \/ \E w \in Walks : WalkAce(w)
    \/ ShareShownDone \/ ShareMaxDone \/ ShareMinDone
    \/ StartNtfs \/ NtfsShownDone \/ NtfsMaxDone \/ NtfsMinDone
    \/ Combine \/ Finished

Spec == Init /\ [][Next]_vars

----------------------------------------------------------------------------
GroupResolution ==
    [sids : SUBSET Sid, logon_dependent : SUBSET Sid, uac_filtered : SUBSET (Sid \cup {LocalAccountAndAdmin}),
     remote_uac : RemoteUac, anonymous_everyone : Maybe, available : BOOLEAN]
Gaps   == {"None", "NotGrantedByShare", "DeniedByNtfsAce", "NotGrantedByNtfs"}
Layers == {"Share", "Ntfs", "Token", "Target", "Logon"}

\* Every piece of the analysis has its type; in particular no GENERIC_* bit is left
\* in any mask a walk, a bound or the result holds (mask.rs expands them all).
TypeOK ==
    /\ IsInput(in)
    /\ pc \in Stages
    /\ lg \in GroupResolution
    /\ pos \in [Walks -> Nat \ {0}]
    /\ granted \in [Walks -> SUBSET Rights]
    /\ denied \in [Walks -> SUBSET Rights]
    /\ contributions \in [Sid -> SUBSET Rights]
    /\ decided \in [DOMAIN in.dacl -> SUBSET Rights]
    /\ share \in [status : {"NotApplicable", "Unrestricted", "Applied", "ReadFailed"},
                  unevaluated : BOOLEAN]
    /\ bounds \in [known : BOOLEAN, min : SUBSET Rights, max : SUBSET Rights]
    /\ result \in [ntfs : SUBSET Rights, share : SUBSET Rights, effective : SUBSET Rights,
                   uncertainty : SUBSET Layers, upper : SUBSET Rights, synchronizeGap : Gaps]
============================================================================
