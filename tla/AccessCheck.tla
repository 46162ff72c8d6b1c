----------------------------- MODULE AccessCheck -----------------------------
(***************************************************************************)
(* What Windows may really do with the account of a request, stated apart  *)
(* from the code, and what the finished result promises about it.          *)
(*                                                                         *)
(* A world fixes everything the request leaves open: the SIDs this logon   *)
(* brings, whether Everyone is in an anonymous token, whether User Account *)
(* Control filtered the token, what became of Cryptographic Operators, and *)
(* whether Selective Authentication lets the account log on.               *)
(***************************************************************************)
EXTENDS PermissionEngine

CryptoFates == {"Enabled", "DenyOnly", "Absent"}
PossibleLogonSids == {s \in Sid : is_logon_dependent_sid(s, in.context)}

Worlds == [logon : SUBSET PossibleLogonSids, everyone : BOOLEAN, filtered : BOOLEAN,
           crypto : CryptoFates, admitted : BOOLEAN]

\* The token Windows builds in world w (ADR 0065, 0068, 0070-0072).
RealBase(w) ==
    {in.user} \cup in.history \cup MembershipSids(in.memberships)
      \cup (IF w.everyone THEN {Everyone} ELSE {})
      \cup (IF in.user = AnonymousLogon \/ in.user \in GuestAccounts
            THEN {} ELSE {AuthenticatedUsers})
      \cup ContextWellKnowns(in.context)
      \cup w.logon
RealLocalGroups(w) == {g.sid : g \in {h \in in.table.groups : h.members \cap RealBase(w) # {}}}
RealGroups(w)   == MembershipSids(in.memberships) \cup RealLocalGroups(w)
RealAdmin(w)    == in.localAccount /\ Administrators \in RealGroups(w)
RealToken(w)    == RealBase(w) \cup RealLocalGroups(w)
                     \cup (IF RealAdmin(w) THEN {LocalAccountAndAdmin} ELSE {})
RealDenyOnly(w) ==
    (IF w.filtered
     THEN {s \in RealGroups(w) : is_uac_filtered_group(s)}
            \cup (IF RealAdmin(w) THEN {LocalAccountAndAdmin} ELSE {})
     ELSE {})
    \cup (IF w.crypto = "DenyOnly" THEN RealToken(w) \cap {CryptographicOperators} ELSE {})
RealEnabled(w)  ==
    (RealToken(w) \ RealDenyOnly(w)) \ (IF w.crypto = "Enabled" THEN {} ELSE {CryptographicOperators})

\* The measured behaviour of UAC (ADR 0070, 0076): what a world may not choose.
UacDecided(w) ==
    /\ in.context = "RemoteSmb" /\ ~ in.localAccount => ~ w.filtered
    /\ in.context = "RemoteSmb" /\ in.localAccount /\ in.lua \in {"Absent", "1"}
         /\ "Other" \notin {in.latfp, in.fat}
         => (w.filtered <=> in.latfp # "1" /\ (in.builtinAdmin => in.fat = "1"))
    /\ in.context = "LocalInteractive" /\ in.localAccount /\ in.builtinAdmin
         /\ in.lua \in {"Absent", "1"} /\ in.fat \in {"Absent", "0"}
         => ~ w.filtered

Possible(w) ==
    /\ ~ {ThisOrganization, OtherOrganization} \subseteq RealBase(w)
    /\ in.user # AnonymousLogon => w.everyone
    /\ in.user = AnonymousLogon /\ in.anonymousPolicy = "1" => w.everyone
    /\ in.user = AnonymousLogon /\ in.anonymousPolicy \in {"Absent", "0"} => ~ w.everyone
    /\ UacDecided(w)
    /\ in.selectiveAuth \in {"None", "Allowed"} => w.admitted
    /\ in.selectiveAuth = "Denied" => ~ w.admitted

PossibleWorlds == {w \in Worlds : Possible(w)}

\* AccessCheck: a bit is granted by an applicable Allow ACE that no applicable
\* Deny ACE for the bit precedes.
Accessible(dacl, allow, deny) ==
    {r \in Rights :
        \E i \in DOMAIN dacl :
            /\ dacl[i].kind = "Allow" /\ ~ dacl[i].inheritOnly /\ dacl[i].sid \in allow
            /\ r \in expand_generic_rights(dacl[i].mask)
            /\ \A j \in 1 .. i - 1 :
                 ~ /\ dacl[j].kind = "Deny" /\ ~ dacl[j].inheritOnly /\ dacl[j].sid \in deny
                   /\ r \in expand_generic_rights(dacl[j].mask)}

RealOwner(w) == in.owner \in RealEnabled(w)
RealMatch(w) == RealEnabled(w) \cup (IF RealOwner(w) THEN {OwnerRights} ELSE {})
RealNtfs(w) ==
    IF in.nullDacl THEN FullControl
    ELSE Accessible(in.dacl, RealMatch(w), RealMatch(w) \cup RealDenyOnly(w))
           \cup (IF RealOwner(w) /\ ~ has_owner_rights_ace THEN {ReadControl, WriteDac} ELSE {})

\* Share rights of a share whose DACL was read; any set where it was not.
RealShares(w) ==
    IF in.share.kind = "NoContext" \/ (in.share.kind = "NullDacl" /\ ~ in.share.unsupported)
    THEN {Rights}
    ELSE IF in.share.kind = "Acl" /\ ~ in.share.unsupported
    THEN {Accessible(in.share.aces, RealEnabled(w), RealEnabled(w) \cup RealDenyOnly(w))}
    ELSE SUBSET Rights

RealEffective(w, shareRights) == IF w.admitted THEN RealNtfs(w) \cap shareRights ELSE {}

----------------------------------------------------------------------------
\* The token is fully known up to the uncertainty the result reports as bounds.
TokenKnown == ~ in.tokenGap /\ lg.available

\* The owner is not a group the account is in only for some logons.
OwnerKnown ==
    /\ in.owner \notin logon_dependent_groups
    /\ ~ is_logon_dependent_for(in.owner, in.context, user_sids)

LowerBound == IF bounds.known THEN bounds.min ELSE result.ntfs
UpperBound == IF bounds.known THEN bounds.max ELSE result.ntfs

WithinBounds ==
    \A w \in PossibleWorlds : LowerBound \subseteq RealNtfs(w) /\ RealNtfs(w) \subseteq UpperBound

\* logon_dependent_bounds: whatever token Windows really builds, its NTFS rights lie
\* between the two walks (or equal the shown mask when the engine reports no range),
\* as long as every group and every ACE was read and the owner is no uncertain group.
BoundsContainAccessCheck ==
    pc = "done" /\ TokenKnown /\ ~ in.unsupported /\ OwnerKnown => WithinBounds

\* uncertainty(): a result that carries no uncertainty is exactly the access Windows
\* gives, in every world the request leaves open, NTFS, share and logon combined.
ExactIsExact ==
    pc = "done" /\ result.uncertainty = {} /\ OwnerKnown =>
        \A w \in PossibleWorlds : \A s \in RealShares(w) : RealEffective(w, s) = result.effective

\* effective_upper_bound(): with the token and every NTFS ACE known, no world gives the
\* account more than the bound the risk rules audit.
UpperBoundIsSafe ==
    pc = "done" /\ result.uncertainty \cap {"Token", "Target"} = {} /\ ~ in.unsupported /\ OwnerKnown =>
        \A w \in PossibleWorlds : \A s \in RealShares(w) : RealEffective(w, s) \subseteq result.upper

\* The bits whose first deciding ACE in the shown walk is ACE i.
FirstDecidedBy(i) ==
    {r \in Rights :
        /\ Applies("ntfsShown", in.dacl[i]) /\ r \in expand_generic_rights(in.dacl[i].mask)
        /\ \A j \in 1 .. i - 1 :
             ~ (Applies("ntfsShown", in.dacl[j]) /\ r \in expand_generic_rights(in.dacl[j].mask))}

\* walk_dacl_stored_order: every decided bit is attributed to the one ACE that decided
\* it first, and to the trustee of that ACE when it is an Allow; both explanations add
\* up to the mask that is shown.
ProvenanceIsExact ==
    pc \in {"combine", "done"} /\ ~ in.nullDacl =>
        /\ \A i \in DOMAIN in.dacl : decided[i] = FirstDecidedBy(i)
        /\ \A s \in Sid : contributions[s] =
               UNION {FirstDecidedBy(i) : i \in {j \in DOMAIN in.dacl :
                                in.dacl[j].kind = "Allow" /\ in.dacl[j].sid = s}}
        /\ granted["ntfsShown"] = UNION {contributions[s] : s \in Sid}

\* synchronize_gap(): "every open that requests SYNCHRONIZE fails" is reported only when
\* no world grants SYNCHRONIZE, and an exact result without SYNCHRONIZE always reports it.
SynchronizeGapIsReal ==
    pc = "done" /\ TokenKnown /\ ~ in.unsupported /\ ~ in.dfsOpen /\ OwnerKnown =>
        /\ result.synchronizeGap # "None" =>
             \A w \in PossibleWorlds : \A s \in RealShares(w) : Synchronize \notin RealEffective(w, s)
        /\ result.uncertainty = {} /\ Synchronize \notin result.effective /\ result.effective # {} =>
             result.synchronizeGap # "None"

----------------------------------------------------------------------------
\* The inductive invariant behind these properties.
Decides(w, k, r) == Applies(w, Dacl(w)[k]) /\ r \in expand_generic_rights(Dacl(w)[k].mask)
AllowsAt(w, k, r) == Dacl(w)[k].kind = "Allow" /\ Decides(w, k, r)
DeniesAt(w, k, r) == Dacl(w)[k].kind = "Deny" /\ Decides(w, k, r)
Complete(w) == pos[w] = Len(Dacl(w)) + 1

\* A walk that really walks its DACL: a NULL DACL is granted without one.
Walked(w) == ~ (w = "ntfsShown" /\ in.nullDacl)

\* What a walk has decided of the ACEs before pos[w].
WalkInv(w) ==
    /\ pos[w] <= Len(Dacl(w)) + 1
    /\ Walked(w) =>
         /\ granted[w] \cap denied[w] = {}
         /\ \A k \in 1 .. pos[w] - 1 : \A r \in Rights :
              Decides(w, k, r) => r \in granted[w] \cup denied[w]
         /\ \A r \in granted[w] : \E k \in 1 .. pos[w] - 1 :
              AllowsAt(w, k, r) /\ \A m \in 1 .. k - 1 : ~ DeniesAt(w, m, r)
         /\ \A r \in denied[w] : \E k \in 1 .. pos[w] - 1 :
              DeniesAt(w, k, r) /\ \A m \in 1 .. k - 1 : ~ AllowsAt(w, m, r)

NtfsMaximum == granted["ntfsMax"] \cup upper_owner_bits
NtfsMinimum == granted["ntfsMin"] \cup owner_implicit_bits

\* Which walks are over at which stage, and what became of their outcome.
StageInv ==
    /\ pc = "local" => \A w \in Walks : pos[w] = 1 /\ granted[w] = {} /\ denied[w] = {}
    /\ pc # "local" => lg = collect_local_groups_on(in)
    /\ pc \in {"ntfsShown", "ntfsMax", "ntfsMin"} => ~ in.nullDacl
    /\ pc \in {"ntfsMax", "ntfsMin"} => Complete("ntfsShown")
    /\ pc = "ntfsMin" => Complete("ntfsMax")
    /\ pc \notin {"combine", "done"} => bounds = NoBounds
    /\ pc \in {"combine", "done"} /\ in.nullDacl =>
         granted["ntfsShown"] = FullControl /\ bounds = NoBounds
    /\ pc \in {"combine", "done"} /\ ~ in.nullDacl =>
         /\ Complete("ntfsShown")
         /\ \/ uncertain = {} /\ upper_owner_bits = owner_implicit_bits /\ bounds = NoBounds
            \/ /\ Complete("ntfsMax") /\ Complete("ntfsMin")
               /\ bounds = IF NtfsMinimum = NtfsMaximum THEN NoBounds
                           ELSE [known |-> TRUE, min |-> NtfsMinimum, max |-> NtfsMaximum]
    /\ pc = "done" => result.ntfs = granted["ntfsShown"] \cup owner_implicit_bits

EvaluationInv == StageInv /\ \A w \in Walks : WalkInv(w)

\* What the share stage leaves behind: the status of a share without a readable ACL,
\* or the outcome of the walks evaluate_share_dacl needed.
ShareInv ==
    /\ pc \in ShareWalks => in.share.kind = "Acl"
    /\ pc \in {"shareMax", "shareMin"} => Complete("shareShown")
    /\ pc = "shareMin" => Complete("shareMax")
    /\ pc \in {"ntfs", "combine", "done"} \cup NtfsWalks =>
         IF in.share.kind # "Acl"
         THEN share = [status      |-> StatusWithoutAcl[in.share.kind],
                       unevaluated |-> in.share.kind = "NullDacl" /\ in.share.unsupported]
         ELSE /\ Complete("shareShown") /\ share.status = "Applied"
              /\ in.share.unsupported => share.unevaluated
              /\ \/ share_uncertain = {}
                 \/ /\ Complete("shareMax") /\ Complete("shareMin")
                    /\ ~ share.unevaluated => granted["shareMax"] = granted["shareMin"]

\* Provenance while the shown walk runs: the ACEs before pos are explained.
ProvenanceInv ==
    ~ in.nullDacl =>
        /\ \A i \in DOMAIN in.dacl :
             decided[i] = IF i < pos["ntfsShown"] THEN FirstDecidedBy(i) ELSE {}
        /\ \A s \in Sid : contributions[s] =
             {r \in Rights : \E i \in DOMAIN in.dacl :
                /\ i < pos["ntfsShown"] /\ in.dacl[i].kind = "Allow" /\ in.dacl[i].sid = s
                /\ r \in FirstDecidedBy(i)}
        /\ granted["ntfsShown"] = UNION {contributions[s] : s \in Sid}

ResultInv == ShareInv /\ ProvenanceInv /\ (pc = "done" => result = CombinedResult)

\* Every one of the six stored-order walks (engine.rs, scanner.rs), once over, has
\* granted what Windows' access check grants for the trustees the walk matches.
WalksAreAccessChecks ==
    \A w \in Walks : Walked(w) /\ Complete(w) =>
        granted[w] = Accessible(Dacl(w), allow_matches(w), deny_matches(w))

----------------------------------------------------------------------------
\* The comment of logon_dependent_bounds claims, without restricting the owner: "The
\* real token lies somewhere in between, so the real result is within the bounds."
RealResultWithinBounds ==
    pc = "done" /\ TokenKnown /\ ~ in.unsupported => WithinBounds

\* SelectiveAuthenticationDenied is documented as "the effective right is No access,
\* whatever the DACLs grant. Exact.", and its test expects that "risk rules see no
\* access": the upper bound they audit holds nothing.
RefusedLogonIsNoAccess ==
    pc = "done" /\ in.selectiveAuth = "Denied" => result.upper = {}
=============================================================================
