----------------------------- MODULE Surfaces ------------------------------
(***************************************************************************)
(* What the reader of a result sees: console, CSV, JSON, HTML, the window, *)
(* the trustee list and the lists of groups, members, shares and trusts    *)
(*   cli/src/output.rs, cli/src/main.rs    console                         *)
(*   exporter/src/*.rs                     reports                         *)
(*   gui/src/worker.rs, gui/src/tabs/*.rs  window                          *)
(*   persistence/src/scan_store.rs         results of an earlier run       *)
(*                                                                         *)
(* A page holds the three rights as they are stated, the account's state   *)
(* and whether anything on it asks for attention.                          *)
(***************************************************************************)
EXTENDS RiskRules

Page(ntfs, share, effective, account, attention) ==
    [ntfs |-> ntfs, share |-> share, effective |-> effective, account |-> account, attention |-> attention]

NtfsStated(p)      == rights_statement(p.ntfs, ntfs_determinable(p))
EffectiveStated(p) == rights_statement(p.effective, effective_determinable(p))
ShareStated(p)     == IF p.share = <<>> THEN NoStatement ELSE rights_statement(p.share[1], share_determinable(p))

----------------------------------------------------------------------------
(* Console.                                                                *)

\* print_diagnostics: the markers printed with [!].
Alarming == {"UnsupportedShareAces", "UnsupportedNtfsAces", "IdentityLookupFailed", "GroupResolutionFailed",
             "PersistedEvidenceDecodeFailed", "SidHistoryPresent", "GroupSidHistoryPresent",
             "GroupMemberEnumerationIncomplete", "SelectiveAuthenticationDenied", "SynchronizeNotGranted",
             "IdentityNotResolvable", "LinkObject", "DirectoryIdentityUnknown", "GuestOrAnonymousToken",
             "UacFilteredGroups", "GroupResolutionIncomplete", "LogonDependentTrustees"}
print_diagnostics(ds) == {d \in ds : d.v \in Alarming \/ (d.v \in OpenMarkers /\ d.open)}

share_line(p) == IF p.status = "Applied" THEN ShareStated(p) ELSE NoStatement

\* print_report with print_uncertainty: every reason is listed below the result.
print_report(p) == Page(NtfsStated(p), share_line(p), EffectiveStated(p), AccountStatus(p),
                        print_diagnostics(p.diagnostics) # {} \/ uncertainty(p) # {})

\* The row of a scan, and its header: what makes every row uncertain is said once.
scan_row(p) == Page(NoStatement, NoStatement, EffectiveStated(p), "Unknown",
                    p.unsupported > 0 \/ ~ effective_determinable(p))
scan_wide_uncertainty(f) ==
    (UNION {uncertain_layer(d) : d \in f.markers})
    \cup (IF f.local = "NotAvailable" THEN {"Token"} ELSE {})
    \cup (IF f.status = "ReadFailed" \/ f.unsupported > 0 THEN {"Share"} ELSE {})
print_scan_header(f) ==
    [account |-> AccountStatus([kind |-> f.kind, disabled |-> f.disabled, diagnostics |-> f.markers]),
     share |-> IF f.status = "Applied" THEN rights_statement(f.mask, scan_wide_uncertainty(f) = {}) ELSE NoStatement,
     signs |-> scan_wide_uncertainty(f) \cup UNION {uncertain_layer(d) : d \in f.dfs}]

\* print_scan_summary: how many rows are no facts.
not_determinable_paths(perms) == Cardinality({i \in DOMAIN perms : ~ effective_determinable(perms[i])})

\* print_risk_findings: a finding of an incomplete evaluation is flagged.
print_risk_findings(findings) == [i \in DOMAIN findings |-> [finding |-> findings[i], flagged |-> findings[i].incomplete]]

----------------------------------------------------------------------------
(* Reports.                                                                *)

\* record_for: the CSV row with its columns "determinable" and "uncertainty".
record_for(p) == Page(NtfsStated(p), ShareStated(p), EffectiveStated(p), AccountStatus(p),
                      uncertainty(p) # {})

\* JsonPermission: the masks with a flag each.
JsonPermission(p) ==
    Page([said |-> p.ntfs, fact |-> ntfs_determinable(p)],
         IF p.share = <<>> THEN NoStatement ELSE [said |-> p.share[1], fact |-> share_determinable(p)],
         [said |-> p.effective, fact |-> effective_determinable(p)],
         AccountStatus(p), uncertainty(p) # {} \/ p.diagnostics # {})

\* write_permissions_table: a badge per marker and per status, neutral ones are no sign.
HighBadges   == {"IdentityLookupFailed", "GroupResolutionFailed", "PersistedEvidenceDecodeFailed", "SidHistoryPresent",
                 "GroupSidHistoryPresent", "GroupMemberEnumerationIncomplete", "IdentityNotResolvable",
                 "GroupResolutionIncomplete"}
MediumBadges == {"UnsupportedShareAces", "UnsupportedNtfsAces", "SelectiveAuthenticationDenied", "LinkObject",
                 "DirectoryIdentityUnknown", "SynchronizeNotGranted", "GuestOrAnonymousToken", "UacFilteredGroups",
                 "LogonDependentTrustees"}
badge(d) == IF d.v \in HighBadges \/ (d.v \in OpenMarkers /\ d.open) THEN "high"
            ELSE IF d.v \in MediumBadges THEN "medium" ELSE "neutral"
Badges(p) == {<<"marker", badge(d)>> : d \in p.diagnostics}
             \cup (IF p.unsupported > 0 THEN {<<"ntfs", "medium">>} ELSE {})
             \cup (IF p.status = "ReadFailed" THEN {<<"share", "high">>} ELSE {})
             \cup (IF p.local = "NotAvailable" THEN {<<"local", "neutral">>} ELSE {})

\* rights_cell: a value that is not determinable has its own badge.
rights_cell(p) == Page(NtfsStated(p), ShareStated(p), EffectiveStated(p), "Unknown",
                       (\E b \in Badges(p) : b[2] # "neutral") \/ ~ effective_determinable(p))

\* render_html, write_summary: the cards above the tables.
write_summary(perms, findings) ==
    [paths |-> Len(perms), findings |-> Len(findings),
     open |-> Cardinality({i \in DOMAIN perms : is_incomplete(perms[i])})]
\* write_risk_table: "confirmed" or "incomplete".
write_risk_table(findings) == print_risk_findings(findings)

----------------------------------------------------------------------------
(* The window.                                                             *)

row_severity(p) == IF \E d \in p.diagnostics : severity(d) = 2 THEN 2
                   ELSE IF (\E d \in p.diagnostics : severity(d) = 1) \/ ~ effective_determinable(p) THEN 1 ELSE 0
ScanRow(p) == Page(NoStatement, NoStatement, EffectiveStated(p), "Unknown", row_severity(p) # 0)

\* apply_result and format_share_line: NTFS and share are named only with a share.
apply_result(p) ==
    Page(IF p.status \in {"Applied", "Unrestricted"} THEN NtfsStated(p) ELSE NoStatement, share_line(p), EffectiveStated(p),
         "Unknown", ~ effective_determinable(p) \/ \E d \in p.diagnostics : severity(d) # 0)

\* format_rights of the delta tab, over results of stored runs.
delta_row(p) == Page(NoStatement, NoStatement, EffectiveStated(p), "Unknown", FALSE)

LivePages(p) == {print_report(p), scan_row(p), record_for(p), JsonPermission(p), rights_cell(p), ScanRow(p), apply_result(p)}

----------------------------------------------------------------------------
(* Stored results.                                                         *)

\* insert_permission and RawPermRow: the row as it is in the database; the trace is not stored.
Columns == {"mask", "evidence", "diagnostics", "status", "local", "kind", "unsupported"}
insert_permission(p) == [p |-> p, damaged |-> {}]

\* into_permission: <<>> when the row cannot be read; evidence that is lost leaves a marker.
into_permission(r) ==
    LET bad  == r.damaged
        lost == IF bad \cap {"diagnostics", "status", "local"} = {} THEN {} ELSE {Marker("PersistedEvidenceDecodeFailed")}
    IN IF bad \cap {"mask", "evidence"} # {} THEN <<>>
       ELSE <<[r.p EXCEPT !.diagnostics = (IF "diagnostics" \in bad THEN {} ELSE @) \cup lost,
                          !.status = IF "status" \in bad THEN "NotApplicable" ELSE @,
                          !.local = IF "local" \in bad THEN "NotQueried" ELSE @,
                          !.kind = IF "kind" \in bad THEN "Unknown" ELSE @,
                          !.unsupported = IF "unsupported" \in bad THEN 0 ELSE @]>>

\* get_permissions: one row that cannot be read fails the whole run.
get_permissions(rows) ==
    LET all == [i \in DOMAIN rows |-> into_permission(rows[i])]
    IN IF \E i \in DOMAIN all : all[i] = <<>> THEN [ok |-> FALSE, perms |-> <<>>]
       ELSE [ok |-> TRUE, perms |-> [i \in DOMAIN all |-> all[i][1]]]

----------------------------------------------------------------------------
(* The trustees of a path.                                                 *)

\* read_share_overlay: what the list says of the share.
read_share_overlay(s) ==
    CASE s.dacl = "ReadFailed"           -> [aces |-> <<>>, notes |-> {"unreadable"}]
      [] s.dacl = "NoSecurityDescriptor" -> [aces |-> <<>>, notes |-> {"not determinable"}]
      [] s.dacl = "NullDacl"             -> [aces |-> <<>>, notes |-> {"NULL DACL"}]
      [] OTHER                           -> [aces |-> s.aces, notes |-> {}]

\* build_path_trustees_with_share_and_names: the ACEs of the path and what could not be read.
build_path_trustees(fso) ==
    IF fso.kind = "Null" THEN [aces |-> <<>>, notes |-> {"NULL DACL"}]
    ELSE [aces |-> fso.aces,
          notes |-> IF fso.kind = "Unreadable" THEN {"unknown"}
                    ELSE IF fso.unsupported > 0 THEN {"incomplete"}
                    ELSE IF fso.aces = <<>> THEN {"empty DACL"} ELSE {}]

\* trustee_row_for_display and write_trustees_table: a row per ACE, a row per note, never none.
TrusteeRow(kind, sid, mask, note) == [kind |-> kind, sid |-> sid, mask |-> mask, note |-> note]
AceRow(a)  == TrusteeRow(IF a.allow THEN "Allow" ELSE "Deny", a.id, a.mask, "")
trustee_rows(t) == [i \in DOMAIN t.aces |-> AceRow(t.aces[i])]
                   \o SetToSeq({TrusteeRow("Diagnostic", 0, {}, n) : n \in t.notes})
write_trustees_table(t) == IF trustee_rows(t) = <<>> THEN <<TrusteeRow("Nothing", 0, {}, "nothing could be listed")>>
                           ELSE trustee_rows(t)

----------------------------------------------------------------------------
(* Lists: a report of its own, an error, or entries with a sign that more  *)
(* may be missing.                                                         *)

Listing(l, signs) == [failed |-> l.st = "Err", items |-> l.list, signs |-> signs]

\* add_local_groups_for_membership_view: local groups that could not all be read are a gap.
membership_diagnostics(f) ==
    f.markers \cup (IF f.local = "NotAvailable" THEN {Marker("GroupResolutionIncomplete")} ELSE {})

\* into_membership_report, print_membership_report and membership_report_to_view: the account's
\* state, its groups and every marker; without a directory the console says so once more.
into_membership_report(f) ==
    [groups |-> f.known, diagnostics |-> membership_diagnostics(f),
     account |-> AccountStatus([kind |-> f.kind, disabled |-> f.disabled, diagnostics |-> membership_diagnostics(f)])]
Gaps(ds) == UNION {uncertain_layer(d) : d \in ds}
print_membership_report(r) ==
    [items |-> r.groups, account |-> r.account,
     signs |-> Gaps(r.diagnostics)
               \cup (IF Marker("DomainGroupRecursionIncomplete") \in r.diagnostics THEN {"No AD/LDAP connection"} ELSE {})]
membership_report_to_view(r) == [items |-> r.groups, account |-> r.account, signs |-> Gaps(r.diagnostics)]

\* print_group_members_report and its window: the markers of into_report.
members_diagnostics(l) == IF l.marked THEN {"incomplete"} ELSE {}
print_group_members_report(l)   == Listing(l, members_diagnostics(l))
group_members_report_to_view(l) == Listing(l, members_diagnostics(l))

\* run_shares, print_shares and shares_to_view: an enumeration that failed is an error, a share
\* that could not be read is listed and named again, and each share says what its list lacks.
print_shares(l) ==
    [failed |-> l.st = "Err",
     items  |-> {[id |-> s.id, aces |-> s.aces,
                  note |-> IF s.dacl # "Acl" THEN s.dacl ELSE IF s.aces = <<>> THEN "empty" ELSE "",
                  incomplete |-> s.unsupported > 0] : s \in l.list},
     signs  |-> IF l.marked THEN {"errors"} ELSE {}]
share_ace_rows(s) == [i \in DOMAIN s.aces |-> AceRow(s.aces[i])]
shares_to_view(l) ==
    [failed |-> l.st = "Err",
     items  |-> {[id |-> s.id, aces |-> share_ace_rows(s),
                  level |-> CASE s.dacl = "ReadFailed" -> 2 [] s.dacl \in {"NullDacl", "NoSecurityDescriptor"} -> 1 [] OTHER -> 0,
                  incomplete |-> s.unsupported > 0] : s \in l.list},
     signs  |-> IF l.marked THEN {"errors"} ELSE {}]

\* print_trusts, trust_to_row: no list without the whole answer.
print_trusts(l) == Listing(l, {})
=============================================================================
