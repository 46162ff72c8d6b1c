------------------------------- MODULE Audit -------------------------------
(***************************************************************************)
(* From what could be read to what a reader is told: the lists of other    *)
(* machines (RemoteReads), the descriptors of the objects                  *)
(* (fs_scanner/src/acl.rs), a result per object, the risk rules, the pages *)
(* of the reports and the results that are stored and loaded again.        *)
(*                                                                         *)
(* The evaluation of a DACL for a whole token is AccessCheck's subject;    *)
(* here it is the first decision per right, and the question is what the   *)
(* reader is told when the token, the DACL, the share or the target may be *)
(* another one than the one evaluated.                                     *)
(***************************************************************************)
EXTENDS RemoteReads, Surfaces

CONSTANTS Objects,      \* the objects below the path, in a sequence: [dacl, aces, sensitive, hash]
          ShareAces,    \* the ACEs of the share for jobs that are not about shares
          MaxObjects,   \* results of one scan
          MaxDamage     \* columns of a stored row damaged by something else

\* What PrincipalResolver promises of the answer for an account: groups it did not find come with a
\* marker of the token (TokenIsWholeOrMarked), and a state it states is the account's.
IsAnswer(s) ==
    LET a == AccountStatus([kind |-> s.who.kind, disabled |-> s.who.disabled, diagnostics |-> s.markers]) IN
    /\ s.hidden \subseteq Known \cup s.groups \/ \E m \in s.markers : m.v \in TokenMarkers
    /\ a \in {"Active", "Disabled"} => a = s.who.account
    /\ s.who.dfs = {} /\ ~ s.who.targets

ASSUME AuditAssumption == /\ {MaxObjects, MaxDamage} \subseteq Nat
                          /\ \A k \in DOMAIN Objects : IsList(Objects[k].aces)
                          /\ \A c \in Jobs : c.job = "identity" => IsAnswer(c.srv)

VARIABLES stage,    \* "read", "evaluate", "report", "stored", "loaded"
          facts,    \* the inputs of the evaluation and what is true of them
          cache,    \* SdCache: hash -> <<>> or <<[sd, fields]>>
          objs,     \* the objects evaluated so far
          perms,    \* their results
          acc,      \* the findings so far, by rule
          disk,     \* the rows of the stored run
          loaded    \* what get_permissions returned

auditVars == <<stage, facts, cache, objs, perms, acc, disk, loaded>>
vars == <<readVars, auditVars>>

LogonSid == 60        \* a trustee that depends on how the account logs on
NoRun    == [ok |-> FALSE, perms |-> <<>>]

----------------------------------------------------------------------------
(* Walk of a DACL: the first ACE that names a right decides it.            *)

Decides(aces, token, i, bit) == /\ aces[i].id \in token /\ bit \in aces[i].mask
                                /\ \A j \in 1..(i - 1) : ~ (aces[j].id \in token /\ bit \in aces[j].mask)
granted(aces, token) == {bit \in Full : \E i \in DOMAIN aces : aces[i].allow /\ Decides(aces, token, i, bit)}
contributing(aces, token) ==
    {[id |-> s, mask |-> {bit \in Full : \E i \in DOMAIN aces : aces[i].id = s /\ aces[i].allow /\ Decides(aces, token, i, bit)}]
       : s \in token \cap Ids(aces)}

----------------------------------------------------------------------------
(* What the evaluation works with.                                         *)

EvalJobs == {"table", "ranged", "account", "sam", "shares", "dfs", "identity"}

\* collect_local_groups_on: groups that could be read count, gaps make the status NotAvailable.
LocalGroups(pairs) == {g.id : g \in {g \in pairs : g.members \cap Known # {}}}

\* The DACL that grants everything; 0 is the account itself.
Everything == <<[id |-> 0, allow |-> TRUE, mask |-> Full]>>

\* The share side of the job's answer, and what is true of the share.
ShareSide ==
    LET first == srv.entries[1]
        scans == {s \in list.list : s.id = first.id}
        scan  == IF scans = {} THEN [dacl |-> "ReadFailed", aces |-> <<>>, unsupported |-> 0] ELSE CHOOSE s \in scans : TRUE
        real  == CASE first.descriptor = "None" -> {<<>>, Everything}
                   [] first.descriptor = "Acl"  -> {srv.members[first.id]}
                   [] OTHER                     -> {Everything}
    IN [status |-> CASE scan.dacl = "Acl" -> "Applied" [] scan.dacl = "NullDacl" -> "Unrestricted" [] OTHER -> "ReadFailed",
        aces |-> scan.aces, unsupported |-> scan.unsupported, overlay |-> read_share_overlay(scan), real |-> real]
NoShare  == [status |-> "NotApplicable", aces |-> <<>>, unsupported |-> 0, overlay |-> [aces |-> <<>>, notes |-> {}],
             real |-> {Everything}]
AnyShare == {NoShare, [NoShare EXCEPT !.status = "Applied", !.aces = ShareAces, !.overlay.aces = ShareAces, !.real = {ShareAces}]}

\* Facts of an analysis: the known token and the true one, the share, the logon, the account.
Facts(groups, true, markers, local, share, who) ==
    [known |-> Known \cup groups, true |-> Known \cup true, markers |-> markers, local |-> local,
     status |-> share.status, unsupported |-> share.unsupported, overlay |-> share.overlay,
     mask |-> granted(share.aces, Known \cup groups),
     real |-> {granted(dacl, Known \cup true) : dacl \in share.real},
     dfs |-> who.dfs, targets |-> who.targets, logon |-> who.logon, kind |-> who.kind,
     disabled |-> who.disabled, account |-> who.account, unseen |-> Undetectable]

Somebody == [dfs |-> {}, targets |-> FALSE, logon |-> "NotChecked", kind |-> "User", disabled |-> FALSE, account |-> "Active"]
Incomplete == IF list.marked THEN {Marker("GroupResolutionIncomplete")} ELSE {}

\* DfsEvaluation::marker: the target evaluated, open when there may be another one; a path that
\* is evaluated as given because no other is known has none.
DfsMarker == IF list.list = {srv.asked} /\ ~ list.marked THEN {} ELSE {OpenMarker("DfsTargetEvaluated", list.marked)}

\* The analysis starts: everything below reads the facts, the answers themselves are gone.
Begin ==
    /\ stage = "read" /\ job \in EvalJobs /\ (list.st # "Reading" \/ job = "identity")
    /\ \E share \in (IF job = "shares" THEN {ShareSide} ELSE AnyShare) :
          facts' = CASE job = "table" ->
                          Facts(LocalGroups(list.list), LocalGroups(Truth), {},
                                IF list.marked THEN "NotAvailable" ELSE "Applied", share, Somebody)
                     [] job \in {"ranged", "account"} ->
                          Facts(list.list, Ids(srv.entries), Incomplete, "NotQueried", share, Somebody)
                     [] job = "sam" ->
                          Facts(list.list, Ids(srv.entries \o srv.second) \cup srv.elsewhere,
                                {Marker("DomainGroupRecursionIncomplete")}, "NotQueried", share, Somebody)
                     [] job = "identity" ->
                          Facts(srv.groups, srv.groups \cup srv.hidden, srv.markers, "NotQueried", share, srv.who)
                     [] job = "dfs" ->
                          Facts({}, {}, {}, "NotQueried", share,
                                [Somebody EXCEPT !.dfs = DfsMarker, !.targets = srv.targets # list.list])
                     [] OTHER -> Facts({}, {}, {}, "NotQueried", share, Somebody)
    /\ stage' = "evaluate"
    /\ from' = 1 /\ turns' = 0 /\ got' = <<>> /\ outs' = <<>> /\ rows' = <<>> /\ gaps' = {} /\ list' = Reading
    /\ calls' = <<"evaluate">>
    /\ UNCHANGED <<job, srv, cache, objs, perms, acc, disk, loaded>>

----------------------------------------------------------------------------
(* The descriptor of an object.                                            *)

\* parse_ace: an entry, or nothing when its type is not known or its SID does not convert.
parse_ace(ace) == IF ace.readable THEN <<ace>> ELSE <<>>

\* parse_dacl: the entries, and how many could not be read; an ACL that does not open at all counts
\* as one, so that it is never taken for an empty DACL.
parse_dacl(o) ==
    IF o.dacl = "Unreadable" THEN [aces |-> <<>>, unsupported |-> 1]
    ELSE [aces |-> FlattenSeq([i \in DOMAIN o.aces |-> parse_ace(o.aces[i])]),
          unsupported |-> Cardinality({i \in DOMAIN o.aces : parse_ace(o.aces[i]) = <<>>})]

\* parse_security: a NULL DACL is told apart from an empty one.
parse_security(o) ==
    LET d == parse_dacl(o) IN
    IF o.dacl = "Null" THEN [kind |-> "Null", aces |-> <<>>, unsupported |-> 0]
    ELSE [kind |-> o.dacl, aces |-> d.aces, unsupported |-> d.unsupported]

\* read_file_system_object_cached: a hit counts only for the very same bytes, a collision is parsed
\* and does not evict the entry.
Bytes(o) == <<o.dacl, o.aces>>
cache_hit(o) == cache[o.hash] # <<>> /\ cache[o.hash][1].sd = Bytes(o)
\* Mutant: the hash alone decides.
read_file_system_object_by_hash(o) == IF cache[o.hash] # <<>> THEN cache[o.hash][1].fields ELSE parse_security(o)
read_file_system_object(o) == IF cache_hit(o) THEN cache[o.hash][1].fields ELSE parse_security(o)
CacheEntry(o) == IF cache[o.hash] = <<>> THEN <<[sd |-> Bytes(o), fields |-> parse_security(o)]>> ELSE cache[o.hash]

----------------------------------------------------------------------------
(* One result.                                                             *)

\* evaluate: the shown right, its range and the markers.
ntfs_mask(fso) == IF fso.kind = "Null" THEN Full ELSE granted(fso.aces, facts.known)
logon_dependent(fso) ==
    LET with == granted(fso.aces, facts.known \cup {LogonSid})
        hi   == ntfs_mask(fso) \cup with
    IN IF fso.kind = "Null" \/ with = ntfs_mask(fso) THEN {} ELSE {RangeMarker("LogonDependentTrustees", hi)}
effective_mask(fso) == IF facts.logon = "Refused" THEN {}
                       ELSE IF facts.status = "Applied" THEN ntfs_mask(fso) \cap facts.mask ELSE ntfs_mask(fso)
LogonMarkers == CASE facts.logon = "Allowed" -> {Marker("SelectiveAuthenticationAllowed")}
                  [] facts.logon = "Refused" -> {Marker("SelectiveAuthenticationDenied")}
                  [] OTHER                   -> {}
Layers(p) == [p EXCEPT !.diagnostics = @ \cup {OpenMarker("SelectiveAuthenticationUnknown",
                                                           ~ (p.effective = {} /\ ~ is_incomplete(p)))}]
evaluated(o, fso, n) ==
    LET p == [at |-> n, ntfs |-> ntfs_mask(fso), effective |-> effective_mask(fso),
              share |-> IF facts.status = "Applied" THEN <<facts.mask>> ELSE <<>>,
              status |-> facts.status, local |-> facts.local, unsupported |-> fso.unsupported,
              kind |-> facts.kind, disabled |-> facts.disabled, sensitive |-> o.sensitive,
              contributing |-> contributing(fso.aces, facts.known),
              matched |-> {a \in Range(fso.aces) : a.id \in facts.known},
              diagnostics |-> facts.markers \cup facts.dfs \cup LogonMarkers \cup logon_dependent(fso)
                              \cup (IF facts.unsupported > 0 THEN {Marker("UnsupportedShareAces")} ELSE {})
                              \cup (IF fso.unsupported > 0 THEN {Marker("UnsupportedNtfsAces")} ELSE {})]
    IN IF facts.logon = "Unknown" THEN Layers(p) ELSE p
result(k, n) == evaluated(Objects[k], read_file_system_object(Objects[k]), n)

\* One object of the walk: read, evaluated, judged by the rules, kept.
EvaluateObject ==
    /\ stage = "evaluate" /\ Len(perms) < MaxObjects
    /\ \E k \in DOMAIN Objects :
          LET p == result(k, Len(perms) + 1) IN
          /\ perms' = Append(perms, p) /\ objs' = Append(objs, k) /\ acc' = add(acc, p)
          /\ cache' = [cache EXCEPT ![Objects[k].hash] = CacheEntry(Objects[k])]
    /\ UNCHANGED <<readVars, stage, facts, disk, loaded>>

Finish == /\ stage = "evaluate" /\ perms # <<>> /\ stage' = "report"
          /\ UNCHANGED <<readVars, facts, cache, objs, perms, acc, disk, loaded>>

Store == /\ stage = "report" /\ stage' = "stored"
         /\ disk' = [i \in DOMAIN perms |-> insert_permission(perms[i])]
         /\ UNCHANGED <<readVars, facts, cache, objs, perms, acc, loaded>>

\* Something else writes the file: another version, an editor, a broken disk.
Damage == /\ stage = "stored" /\ (\A i \in DOMAIN disk : Cardinality(disk[i].damaged) < MaxDamage)
          /\ \E i \in DOMAIN disk, c \in Columns : disk' = [disk EXCEPT ![i].damaged = @ \cup {c}]
          /\ UNCHANGED <<readVars, stage, facts, cache, objs, perms, acc, loaded>>

Load == /\ stage = "stored" /\ stage' = "loaded" /\ loaded' = get_permissions(disk)
        /\ UNCHANGED <<readVars, facts, cache, objs, perms, acc, disk>>

----------------------------------------------------------------------------
AuditInit == /\ stage = "read" /\ facts = <<>> /\ cache = [h \in {Objects[k].hash : k \in DOMAIN Objects} |-> <<>>]
             /\ objs = <<>> /\ perms = <<>> /\ acc = accumulator /\ disk = <<>> /\ loaded = NoRun
Init == ReadInit /\ AuditInit
Reads(A) == A /\ UNCHANGED auditVars
Next == \/ Reads(PagedSearch) \/ Reads(RangeRetrieval) \/ Reads(LocalGroupNames) \/ Reads(EnumeratePage)
        \/ Reads(SingleCall) \/ Reads(ConstructedSidList) \/ Reads(TimesOut)
        \/ Reads(ReadGroup) \/ Reads(TableRead) \/ Reads(MembersRead) \/ Reads(ListRead) \/ Reads(ForestRead)
        \/ Reads(AccountsRead) \/ Reads(ReadChain) \/ Reads(SamRead) \/ Reads(AccountRead)
        \/ Reads(ReadShare) \/ Reads(SharesRead) \/ Reads(QueryPolicy) \/ Reads(PolicyRead) \/ Reads(DfsRead)
        \/ Begin \/ EvaluateObject \/ Finish \/ Store \/ Damage \/ Load
Spec == Init /\ [][Next]_vars

----------------------------------------------------------------------------
(* What is true of an object: one outcome per logon, share and target that *)
(* the real system may show.                                               *)

Outcomes(k) ==
    LET o       == Objects[k]
        Ntfs(t) == IF o.dacl = "Null" THEN Full ELSE granted(o.aces, t)
        tokens  == {facts.true, facts.true \cup {LogonSid}}
        refused == CASE facts.logon = "Refused" -> {TRUE} [] facts.logon = "Unknown" -> BOOLEAN [] OTHER -> {FALSE}
    IN {[ntfs |-> Ntfs(t), share |-> s, effective |-> IF r THEN {} ELSE Ntfs(t) \cap s]
          : t \in tokens, s \in facts.real, r \in refused}
       \cup (IF facts.targets THEN {[ntfs |-> m, share |-> m, effective |-> m] : m \in {{}, Full}} ELSE {})

\* Types; every list of the accumulator holds findings of its own rule.
TypeOK ==
    /\ list.st \in {"Reading", "Ok", "Err"} /\ list.marked \in BOOLEAN
    /\ stage \in {"read", "evaluate", "report", "stored", "loaded"}
    /\ Len(perms) = Len(objs) /\ Len(perms) <= MaxObjects
    /\ \A i \in DOMAIN perms : perms[i].at = i /\ {perms[i].ntfs, perms[i].effective} \subseteq SUBSET Full
    /\ \A r \in Rules : \A i \in DOMAIN acc[r] : acc[r][i].rule \in RuleIds[r]

\* A fact on a page is the value in every outcome, and what is only "known data" is the computed value.
IsTrue(stated, computed, real) == /\ stated.said \in {computed, {}}
                                  /\ stated.fact => real = {stated.said}
PageIsTrue(page, p, k) ==
    /\ IsTrue(page.ntfs, p.ntfs, {x.ntfs : x \in Outcomes(k)})
    /\ p.share # <<>> => IsTrue(page.share, p.share[1], {x.share : x \in Outcomes(k)})
    /\ IsTrue(page.effective, p.effective, {x.effective : x \in Outcomes(k)})
    /\ page.account \in {"Active", "Disabled"} => page.account = facts.account
    /\ page.effective.fact \/ page.attention

\* The three tables of marker colours agree.
TablesAgree ==
    \A v \in AllMarkers, o \in BOOLEAN :
       LET d == OpenMarker(v, o) IN
       /\ (d \in print_diagnostics({d})) = (severity(d) > 0)
       /\ badge(d) = <<"neutral", "medium", "high">>[severity(d) + 1]

\* The list of a path's trustees is never empty and is whole or says what it lacks; of a share it
\* leaves out entries that could not be read without a word (read_share_overlay), so only the
\* object's own entries are claimed.
IsAce(row) == row.kind \in {"Allow", "Deny"}
TrusteesAreWhole(k) ==
    LET o     == Objects[k]
        t     == build_path_trustees(read_file_system_object(o))
        shown == write_trustees_table(t)
    IN /\ shown # <<>>
       /\ (\A i \in DOMAIN shown : IsAce(shown[i])) => shown = [i \in DOMAIN o.aces |-> AceRow(o.aces[i])]
       /\ t.notes = {"empty DACL"} => o.aces = <<>> /\ \A i \in DOMAIN shown : ~ IsAce(shown[i])
HeaderIsTrue == LET h == print_scan_header(facts)
                IN /\ h.share.fact /\ h.signs = {} => facts.real = {h.share.said}
                   /\ h.account \in {"Active", "Disabled"} => h.account = facts.account

\* The groups of an account: all of them, or with a sign; its state only when it is known.
MembershipIsTrue ==
    \A view \in {print_membership_report(into_membership_report(facts)), membership_report_to_view(into_membership_report(facts))} :
       /\ view.signs = {} => view.items = facts.true
       /\ view.account \in {"Active", "Disabled"} => view.account = facts.account

\* Reports of lists: entries without a sign are all there is.
ListingIsTrue ==
    /\ job = "members" => \A r \in {print_group_members_report(list), group_members_report_to_view(list)} :
                             r.failed \/ r.signs # {} \/ r.items = Truth
    /\ job = "trusts" => print_trusts(list).failed \/ print_trusts(list).items = Truth
    /\ job = "shares" =>
          LET console == print_shares(list)
              window  == shares_to_view(list)
              Real(id) == srv.members[id]
          IN /\ \A r \in {console, window} : r.failed \/ {s.id : s \in r.items} = Ids(Readable(srv.entries))
             /\ \A s \in console.items : ~ s.incomplete /\ s.note \in {"", "empty"} => s.aces = Real(s.id)
             /\ \A s \in window.items : ~ s.incomplete /\ s.level = 0 =>
                                           s.aces = [i \in DOMAIN Real(s.id) |-> AceRow(Real(s.id)[i])]

\* No surface states as a fact what the known data does not settle: a right shown as exact is the
\* right in every outcome the gaps leave open, a result that is not exact asks for attention on
\* every surface, the account's state is stated only when it is known, and a list without a sign
\* is whole.  It holds for the pages of a live analysis (output.rs, csv.rs, json.rs, html.rs,
\* worker.rs) and for results loaded again from a damaged store (into_permission).
NeverOverclaims ==
    /\ TablesAgree
    /\ stage = "read" /\ list.st = "Ok" /\ ~ Undetectable => ListingIsTrue
    /\ stage # "read" /\ ~ facts.unseen =>
          /\ HeaderIsTrue /\ MembershipIsTrue
          /\ \A i \in DOMAIN perms : /\ TrusteesAreWhole(objs[i])
                                     /\ \A page \in LivePages(perms[i]) : PageIsTrue(page, perms[i], objs[i])
          /\ \A i \in DOMAIN loaded.perms :
                IsTrue(delta_row(loaded.perms[i]).effective, loaded.perms[i].effective,
                       {x.effective : x \in Outcomes(objs[i])})

----------------------------------------------------------------------------
(* Findings.                                                               *)

\* What a finding says of a right.
Says(rule, mask) ==
    CASE rule = "FULL_CONTROL"  -> Full \subseteq mask
      [] rule = "WRITE_ACCESS"  -> Modify \subseteq mask \/ Write \subseteq mask
      [] rule \in {"PARTIAL_WRITE", "BROAD_GROUP_WRITE"} -> mask \cap ContentWriteBits # {}
      [] rule = "PERMISSION_CHANGE"  -> "WRITE_DAC" \in mask
      [] rule = "OWNER_CHANGE"       -> "WRITE_OWNER" \in mask
      [] rule = "DELETE_RIGHT"       -> "DELETE" \in mask
      [] rule = "DELETE_CHILD_RIGHT" -> "DELETE_CHILD" \in mask
      [] rule = "SENSITIVE_PATH"     -> mask # {}
      [] OTHER                       -> TRUE

\* The rights a rule of this group must report when an outcome holds them.
Covered(found, mask, sensitive) ==
    /\ Full \subseteq mask => "FULL_CONTROL" \in found
    /\ mask \cap ContentWriteBits # {} => found \cap {"FULL_CONTROL", "WRITE_ACCESS", "PARTIAL_WRITE"} # {}
    /\ \A i \in DOMAIN AdminRights : AdminRights[i][1] \in mask => found \cap {"FULL_CONTROL", AdminRights[i][2]} # {}
    /\ mask # {} /\ sensitive => "SENSITIVE_PATH" \in found

\* The findings of a scan, collected result by result, are those of evaluate_all in its order; one
\* that is worded as a fact or listed as confirmed holds in every outcome; the summary counts the
\* results that are no facts; and where the token, the DACL and the target
\* are known, every right that some outcome holds is reported, at least as a possibility
\* (AuditedRight, RiskAccumulator).
FindingsAreSound ==
    stage = "report" =>
       LET all == finish(acc) IN
       /\ all = evaluate_all(perms)
       /\ write_summary(perms, all).open = not_determinable_paths(perms)
       /\ ~ facts.unseen =>
             /\ \A table \in {print_risk_findings(all), write_risk_table(all)} : \A i \in DOMAIN table :
                   ~ table[i].flagged => \A x \in Outcomes(objs[all[i].of]) : Says(all[i].rule, x.effective)
             /\ \A i \in DOMAIN all : all[i].sure => \A x \in Outcomes(objs[all[i].of]) : Says(all[i].rule, x.effective)
             /\ \A n \in DOMAIN perms :
                   perms[n].unsupported = 0 /\ uncertainty(perms[n]) \cap {"Token", "Target"} = {} =>
                      \A x \in Outcomes(objs[n]) :
                         Covered({all[i].rule : i \in {i \in DOMAIN all : all[i].of = n}}, x.effective, perms[n].sensitive)

----------------------------------------------------------------------------
\* The inductive invariant behind them.  A list is open, returned or failed, and a failed one is
\* marked; shares are the rows read, a list of trusts is whole or an error.
ReturnedInv ==
    /\ list.st \in {"Reading", "Ok", "Err"} /\ list.marked \in BOOLEAN
    /\ list.st = "Err" => list.list = {} /\ list.marked
    /\ list.st = "Ok" /\ job = "trusts" => ~ list.marked
    /\ list.st = "Ok" /\ job = "shares" => list.list = Range(rows) /\ Len(rows) = Len(Readable(srv.entries))

\* What the markers and statuses leave open of the token, the share, the target and the account.
TokenKnown == facts.local # "NotAvailable" /\ \A m \in facts.markers : m.v \notin TokenMarkers
FactsInv ==
    /\ facts.mask \subseteq Full /\ facts.real # {} /\ \A m \in facts.real : m \subseteq Full
    /\ facts.unsupported \in Nat /\ facts.status \in {"Applied", "Unrestricted", "NotApplicable", "ReadFailed"}
    /\ facts.status \in {"Unrestricted", "NotApplicable"} => facts.real = {Full}
    /\ facts.status = "Applied" /\ facts.unsupported = 0 /\ facts.known = facts.true => facts.real = {facts.mask}
    /\ LET a == AccountStatus([kind |-> facts.kind, disabled |-> facts.disabled, diagnostics |-> facts.markers])
       IN a \in {"Active", "Disabled"} => a = facts.account
    /\ ~ facts.unseen => /\ TokenKnown => facts.known = facts.true
                         /\ facts.targets => \E d \in facts.dfs : d.v = "DfsTargetEvaluated" /\ d.open

\* A cached descriptor is the one of some object with these bytes.
CacheInv ==
    /\ \A k \in DOMAIN Objects : Objects[k].hash \in DOMAIN cache
    /\ \A h \in DOMAIN cache : cache[h] = <<>> \/ \E k \in DOMAIN Objects :
           cache[h] = <<[sd |-> Bytes(Objects[k]), fields |-> parse_security(Objects[k])]>>

\* Results are those of the objects' own descriptors, findings those of the results, a stored row
\* its result with some columns damaged, a loaded one what is left of it.
PermsInv ==
    /\ perms \in Seq(Range(perms)) /\ Len(perms) <= MaxObjects /\ objs \in Seq(DOMAIN Objects) /\ Len(objs) = Len(perms)
    /\ \A i \in DOMAIN perms : /\ objs[i] \in DOMAIN Objects
                               /\ perms[i] = evaluated(Objects[objs[i]], parse_security(Objects[objs[i]]), i)
    /\ acc = [r \in Rules |-> FlattenSeq([i \in DOMAIN perms |-> Evaluate(r, perms[i])])]
StoreInv ==
    /\ stage \in {"stored", "loaded"} => DOMAIN disk = DOMAIN perms
    /\ stage \in {"stored", "loaded"} => \A i \in DOMAIN disk : \E bad \in SUBSET Columns : disk[i] = [p |-> perms[i], damaged |-> bad]
    /\ \A i \in DOMAIN loaded.perms : i \in DOMAIN perms /\ \E bad \in SUBSET Columns :
           <<loaded.perms[i]>> = into_permission([p |-> perms[i], damaged |-> bad])
AuditInv ==
    /\ ReturnedInv /\ CacheInv /\ PermsInv /\ StoreInv
    /\ stage \in {"read", "evaluate", "report", "stored", "loaded"}
    /\ stage = "read" => perms = <<>>
    /\ stage # "loaded" => loaded = NoRun
    /\ stage # "read" => FactsInv
=============================================================================
