------------------------------ MODULE Results ------------------------------
(***************************************************************************)
(* One result of the analysis and what may be said of it:                  *)
(*   permission_engine/src/mask.rs   names of rights                       *)
(*   core/src/model.rs               markers, uncertainty, upper bound     *)
(*                                                                         *)
(* A mask is a set of rights.  Rights that no rule and no name tells apart *)
(* (attributes, EAs, READ_CONTROL) go with the right they come with.       *)
(***************************************************************************)
EXTENDS Naturals, SequencesExt, FiniteSetsExt

Full == {"READ", "EXECUTE", "WRITE_DATA", "APPEND_DATA", "DELETE", "DELETE_CHILD", "WRITE_DAC", "WRITE_OWNER", "SYNCHRONIZE"}
Read        == {"READ", "SYNCHRONIZE"}
ReadExecute == Read \cup {"EXECUTE"}
Write       == {"WRITE_DATA", "APPEND_DATA", "SYNCHRONIZE"}
Modify      == ReadExecute \cup Write \cup {"DELETE"}

----------------------------------------------------------------------------
(* Names of rights.                                                        *)

\* STANDARD_LEVELS, highest first.
StandardLevels == <<Full, Modify, ReadExecute, Read \cup Write, Read, Write>>

\* The first level that the mask holds completely; {} when there is none.
base_level(mask) ==
    LET held == {i \in DOMAIN StandardLevels : StandardLevels[i] \subseteq mask}
    IN IF held = {} THEN {} ELSE StandardLevels[Min(held)]

\* decompose, label and display_name: what a name says is granted, base level and extras.
decompose(mask) ==
    LET base == base_level(mask)
        rest == mask \ base
    IN IF base = ReadExecute /\ Write \subseteq mask
       THEN [base |-> base, write |-> TRUE, extras |-> rest \ Write]
       ELSE [base |-> base, write |-> FALSE, extras |-> rest]
Said(name) == name.base \cup name.extras \cup (IF name.write THEN Write ELSE {})

\* rights_statement and rights_label_compact: a fact, or what the known data alone gives.
rights_statement(mask, determinable) == [said |-> Said(decompose(mask)), fact |-> determinable]
NoStatement == [said |-> {}, fact |-> FALSE]

----------------------------------------------------------------------------
(* Markers.  open stands for affects_result and for targets not evaluated, *)
(* max for the upper end of the range of LogonDependentTrustees.           *)

Marker(v)          == [v |-> v, open |-> FALSE, max |-> {}]
OpenMarker(v, o)   == [v |-> v, open |-> o, max |-> {}]
RangeMarker(v, hi) == [v |-> v, open |-> FALSE, max |-> hi]

TokenMarkers == {"DomainGroupRecursionIncomplete", "IdentityNotInConfiguredLdapBase", "IdentityLookupFailed",
                 "GroupResolutionFailed", "IdentityResolvedViaForeignSecurityPrincipal",
                 "GroupResolutionViaGlobalCatalog", "PersistedEvidenceDecodeFailed", "SidHistoryPresent",
                 "GroupSidHistoryPresent", "GroupMemberEnumerationIncomplete",
                 "UniversalGroupCrossDomainMembersNotVisible", "IdentityNotResolvable", "GroupResolutionIncomplete"}
NtfsMarkers  == {"UnsupportedNtfsAces", "LogonDependentTrustees"}
Informational == {"NonCanonicalDaclOrder", "LinkObject", "DirectoryIdentityUnknown", "TrustedDomainAccountResolved",
                  "SelectiveAuthenticationAllowed", "SelectiveAuthenticationDenied", "SynchronizeNotGranted",
                  "InheritedDenyAfterInheritedAllow", "IdentityDisabled", "IdentityDisabledStatusUnknown",
                  "OwnerRightsAceApplied", "TrustBoundaryEffectsNotModeled", "SidHistoryEvaluated",
                  "GroupSidHistoryEvaluated", "MembersViaPrimaryGroupIncluded", "IdentityOrphaned",
                  "NonSecurityGroupsExcluded", "UacFilteredGroups", "GuestOrAnonymousToken", "RemoteUacPolicy"}
OpenMarkers  == {"SelectiveAuthenticationUnknown", "DfsTargetEvaluated"}
AllMarkers   == TokenMarkers \cup NtfsMarkers \cup Informational \cup OpenMarkers \cup {"UnsupportedShareAces"}

\* The part of a result that a marker makes uncertain; {} for an exact one.
uncertain_layer(d) ==
    CASE d.v = "UnsupportedShareAces" -> {"Share"}
      [] d.v \in NtfsMarkers          -> {"Ntfs"}
      [] d.v \in TokenMarkers         -> {"Token"}
      [] d.v = "SelectiveAuthenticationUnknown" -> IF d.open THEN {"Logon"} ELSE {}
      [] d.v = "DfsTargetEvaluated"   -> IF d.open THEN {"Target"} ELSE {}
      [] OTHER                        -> {}

ConcernMarkers == {"SidHistoryPresent", "GroupSidHistoryPresent", "IdentityLookupFailed", "GroupResolutionFailed",
                   "GroupMemberEnumerationIncomplete", "PersistedEvidenceDecodeFailed", "IdentityNotResolvable",
                   "GroupResolutionIncomplete"}
NoticeMarkers  == {"UnsupportedShareAces", "UnsupportedNtfsAces", "LogonDependentTrustees", "UacFilteredGroups",
                   "GuestOrAnonymousToken", "SelectiveAuthenticationDenied", "SynchronizeNotGranted", "LinkObject",
                   "DirectoryIdentityUnknown"}
\* 0 neutral, 1 notice, 2 concern: also diag_level of the window.
severity(d) == IF d.v \in ConcernMarkers \/ (d.v \in OpenMarkers /\ d.open) THEN 2
               ELSE IF d.v \in NoticeMarkers THEN 1 ELSE 0

----------------------------------------------------------------------------
(* EffectivePermission.  status is the ShareEvalStatus, local the          *)
(* LocalGroupEvalStatus; share is <<>> or <<mask>>.                        *)

Has(p, v) == \E d \in p.diagnostics : d.v = v

\* uncertainty: the parts that may differ from what Windows computes.
uncertainty(p) ==
    (IF p.status = "ReadFailed" THEN {"Share"} ELSE {})
    \cup (IF p.unsupported > 0 /\ ~ Has(p, "UnsupportedNtfsAces") THEN {"Ntfs"} ELSE {})
    \cup (IF p.local = "NotAvailable" THEN {"Token"} ELSE {})
    \cup UNION {uncertain_layer(d) : d \in p.diagnostics}
is_incomplete(p)           == uncertainty(p) # {}
ntfs_determinable(p)       == uncertainty(p) \cap {"Token", "Ntfs", "Target"} = {}
share_determinable(p)      == uncertainty(p) \cap {"Token", "Share", "Target"} = {}
effective_determinable(p)  == uncertainty(p) = {}

effective_upper_bound(p) ==
    LET open  == uncertainty(p)
        upper == p.ntfs \cup UNION {d.max : d \in {d \in p.diagnostics : d.v = "LogonDependentTrustees"}}
        cut   == p.status = "Applied" /\ p.share # <<>> /\ open \cap {"Share", "Target"} = {}
    IN IF open = {} THEN p.effective
       ELSE (IF cut THEN upper \cap p.share[1] ELSE upper) \cup p.effective

\* AccountStatus::of.
AccountStatus(p) ==
    CASE p.kind = "Orphaned"              -> "DoesNotExist"
      [] p.kind \in {"Group", "WellKnown"} -> "NotAnAccount"
      [] p.kind = "Unknown"               -> "Unknown"
      [] OTHER -> IF \E v \in {"IdentityDisabledStatusUnknown", "IdentityNotResolvable", "IdentityLookupFailed"} : Has(p, v)
                  THEN "Unknown"
                  ELSE IF p.disabled THEN "Disabled" ELSE "Active"
=============================================================================
