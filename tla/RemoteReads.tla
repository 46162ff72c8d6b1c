---------------------------- MODULE RemoteReads ----------------------------
(***************************************************************************)
(* The lists an analysis reads from other machines, call by call:          *)
(*   ad_resolver/src/ldap_client.rs    paged searches, range retrieval     *)
(*   ad_resolver/src/resolver.rs       the members of a group              *)
(*   ad_resolver/src/local_groups.rs   the local groups of a server        *)
(*   ad_resolver/src/local_account.rs, sam.rs, enumerate.rs   accounts     *)
(*   ad_resolver/src/uac_policy.rs     policies in the remote registry     *)
(*   share_scanner/src/scanner.rs, dfs.rs, analysis/src/dfs.rs   shares    *)
(*                                                                         *)
(* One behaviour is one job, a sequence of calls.  srv holds what the      *)
(* other machine really has; it does not change during the job.  A server  *)
(* may fail at every answer, repeat "more data" without end, and answer a  *)
(* range request with another range.                                       *)
(***************************************************************************)
EXTENDS Naturals, SequencesExt, FiniteSetsExt

CONSTANTS Jobs,         \* the pairs [job, srv] a behaviour starts from
          Known,        \* SIDs of the token known before the job; 0 is the account
          PageSize,     \* entries in one answer
          MaxPages,     \* MAX_LOCAL_GROUP_PAGES
          MaxRounds,    \* MAX_RANGE_ROUNDS
          ClientLimit,  \* client_limit of the name search
          MaxTargets    \* MAX_TARGETS of a DFS folder

ASSUME RemoteAssumption == /\ {PageSize, MaxPages, MaxRounds, ClientLimit, MaxTargets} \subseteq Nat \ {0}
                           /\ 0 \in Known /\ Known \subseteq Nat

VARIABLES job,     \* what is read
          srv,     \* what the other machine has
          calls,   \* calls still to make, the current one first
          from,    \* the next entry the server will answer with
          turns,   \* answers of the current call
          got,     \* entries of the current call
          outs,    \* outcomes of the finished calls
          rows,    \* local groups, shares or values read one by one
          gaps,    \* what could not be read and is reported as such
          list     \* what the job returned: [st, list, marked], or [st |-> "Reading"]

readVars == <<job, srv, calls, from, turns, got, outs, rows, gaps, list>>

Reading == [st |-> "Reading", list |-> {}, marked |-> FALSE]
Failed  == [st |-> "Err", list |-> {}, marked |-> TRUE]

----------------------------------------------------------------------------
(* Calls.                                                                  *)

Plan == [table   |-> <<"NetLocalGroupEnum">>,
         members |-> <<"group", "backlink", "primary">>,
         ranged  |-> <<"memberOf">>,
         tokens  |-> <<"tokenGroups">>,
         query   |-> <<"query">>,
         forest  |-> <<"root", "domains">>,
         trusts  |-> <<"trusts">>,
         accounts |-> <<"NetUserEnum", "NetGroupEnum", "NetLocalGroupEnum1">>,
         sam     |-> <<"NetUserGetGroups", "NetUserGetLocalGroups">>,
         account |-> <<"NetUserGetInfo", "NetUserGetGroups">>,
         shares  |-> <<"NetShareEnum">>,
         policy  |-> <<"RegConnect", "RegOpen">>,
         dfs     |-> <<"final_unc_path", "NetDfsGetClientInfo">>,
         identity |-> <<>>]     \* the directory's answer: see PrincipalResolver

Source(api) == IF api \in {"primary", "NetGroupEnum", "NetUserGetLocalGroups"} THEN srv.second ELSE srv.entries

\* The entries at the positions in keep, in their order.
Kept(s, keep) ==
    LET Upto[i \in 0 .. Len(s)] ==
          IF i = 0 THEN <<>>
          ELSE LET rest == Upto[i - 1] IN IF i \in keep THEN Append(rest, s[i]) ELSE rest
    IN  Upto[Len(s)]

\* Without a SID that does not parse, an entry without objectSid, a name that is empty.
Readable(s)      == Kept(s, {i \in DOMAIN s : s[i].readable})
AllReadable(s)   == \A i \in DOMAIN s : s[i].readable
Ids(s)           == {s[i].id : i \in DOMAIN s}

Calling(apis) == list = Reading /\ calls # <<>> /\ Head(calls) \in apis

\* A call returns; the job goes on with the next one.
Returns(ok, s) == /\ outs' = Append(outs, [ok |-> ok, s |-> s])
                  /\ calls' = Tail(calls) /\ from' = 1 /\ turns' = 0 /\ got' = <<>>
                  /\ UNCHANGED <<job, srv, rows, gaps, list>>
GoesOn(s, n)   == /\ got' = s /\ from' = n /\ turns' = turns + 1
                  /\ UNCHANGED <<job, srv, calls, outs, rows, gaps, list>>

\* search_paged_with_limit: an error in the stream discards what was collected; the final status
\* counts only when the whole result was consumed.
PagedApis == {"query", "domains", "backlink", "primary"}
\* Mutant: what was collected before the error is returned.
paged_partial(ok) == Returns(TRUE, got)
paged_end(ok) == IF ok THEN Returns(TRUE, got) ELSE Returns(FALSE, <<>>)
PagedSearch ==
    /\ Calling(PagedApis)
    /\ LET src == Source(Head(calls)) IN
       \/ from <= Len(src)
          /\ LET more == Append(got, src[from]) IN
             IF Head(calls) = "query" /\ Len(more) >= ClientLimit
             THEN Returns(TRUE, more)
             ELSE GoesOn(more, from + 1)
       \/ from > Len(src) /\ paged_end(TRUE)
       \/ paged_end(FALSE)

\* complete_ranged_attribute: every chunk starts right behind the last one, at most MaxRounds more.
Chunk(n) == SubSeq(srv.entries, n, IF n + PageSize - 1 < Len(srv.entries) THEN n + PageSize - 1 ELSE Len(srv.entries))
RangeRetrieval ==
    /\ Calling({"memberOf"})
    /\ \/ Returns(FALSE, <<>>)                                   \* failed, vanished, no such range
       \/ \E start \in {from, from + 1} :
             IF start # from \/ turns > MaxRounds THEN Returns(FALSE, <<>>)
             ELSE IF from + PageSize > Len(srv.entries) THEN Returns(TRUE, got \o Chunk(from))
             ELSE GoesOn(got \o Chunk(from), from + PageSize)

\* enumerate_local_group_names: bounded, an empty name is an error.
LocalGroupNames ==
    /\ Calling({"NetLocalGroupEnum"})
    /\ \/ Returns(FALSE, <<>>)
       \/ \E n \in {0, PageSize} :                               \* "more data" without an entry, or a page
             LET page == IF n = 0 THEN <<>> ELSE Chunk(from)
                 last == from + n > Len(srv.entries)
             IN IF ~ AllReadable(page) THEN Returns(FALSE, <<>>)
                ELSE IF last THEN Returns(TRUE, got \o page)
                ELSE IF turns + 1 = MaxPages THEN Returns(FALSE, <<>>)
                ELSE GoesOn(got \o page, from + n)

\* list_users, list_global_groups, list_local_groups: an empty name is left out, the entries of
\* earlier pages are dropped with a later failure.
EnumApis == {"NetUserEnum", "NetGroupEnum", "NetLocalGroupEnum1"}
EnumeratePage ==
    /\ Calling(EnumApis)
    /\ LET src == Source(Head(calls))
           end == IF from + PageSize - 1 < Len(src) THEN from + PageSize - 1 ELSE Len(src)
           all == got \o Readable(SubSeq(src, from, end))
       IN \/ Returns(FALSE, <<>>)
          \/ IF end = Len(src) THEN Returns(TRUE, all) ELSE GoesOn(all, end + 1)

\* One request, one answer: unpaged searches, NetShareEnum, NetUserGetGroups, the registry.
SingleApis == {"group", "root", "trusts", "NetShareEnum", "RegConnect", "RegOpen", "final_unc_path",
               "NetDfsGetClientInfo", "NetUserGetInfo", "NetUserGetGroups", "NetUserGetLocalGroups"}
SingleCall == Calling(SingleApis) /\ \E ok \in BOOLEAN : Returns(ok, IF ok THEN Source(Head(calls)) ELSE <<>>)

\* search_constructed_sid_list: a value that does not parse is an error, no value is "not returned".
ConstructedSidList ==
    /\ Calling({"tokenGroups"})
    /\ \E ok \in BOOLEAN : Returns(ok /\ AllReadable(srv.entries), IF ok THEN srv.entries ELSE <<>>)

\* with_timeout around a whole LDAP operation.
LdapApis == PagedApis \cup {"memberOf", "tokenGroups", "group", "root", "trusts"}
TimesOut == /\ Calling(LdapApis)
            /\ list' = Failed /\ UNCHANGED <<job, srv, calls, from, turns, got, outs, rows, gaps>>

----------------------------------------------------------------------------
(* What the jobs make of the answers.                                      *)

Done == list = Reading /\ calls = <<>>
Delivers(st, l, marked) == /\ list' = [st |-> st, list |-> l, marked |-> marked]
                           /\ UNCHANGED <<job, srv, calls, from, turns, got, outs, rows, gaps>>
Fails == Delivers("Err", {}, TRUE)

\* read_local_group_table, one group: its SID must be an alias, then its members.  The name may
\* lead to the alias of another account domain; the members are asked by name.
Lookups == {"Alias", "Foreign", "NotAlias", "Invalid", "Missing"}
ForeignSid(id) == 500 + id
ReadGroup ==
    /\ Done /\ job = "table" /\ outs[1].ok /\ Len(rows) < Len(outs[1].s)
    /\ \E how \in Lookups, ok \in BOOLEAN :
          LET g       == outs[1].s[Len(rows) + 1]
              members == srv.members[g.id]
              alias   == how \in {"Alias", "Foreign"}
              read    == alias /\ ok
          IN /\ rows' = Append(rows, [id |-> IF how = "Foreign" THEN ForeignSid(g.id) ELSE g.id,
                                      alias |-> alias, read |-> read, foreign |-> how = "Foreign",
                                      members |-> IF read THEN Ids(Readable(members)) ELSE {}])
             /\ gaps' = IF read /\ AllReadable(members) THEN gaps ELSE gaps \cup {g.id}
    /\ UNCHANGED <<job, srv, calls, from, turns, got, outs, list>>

\* Groups outside BUILTIN lie in one account domain, or a name led elsewhere.
account_domains == {rows[i].foreign : i \in {i \in DOMAIN rows : rows[i].id \notin srv.builtin /\ rows[i].alias}}
TableRead ==
    /\ Done /\ job = "table"
    /\ IF ~ outs[1].ok THEN Fails
       ELSE /\ Len(rows) = Len(outs[1].s)
            /\ Delivers("Ok", {[id |-> rows[i].id, members |-> rows[i].members] : i \in {i \in DOMAIN rows : rows[i].read}},
                        gaps # {} \/ Cardinality(account_domains) > 1)

\* enumerate_group_members with filter_same_domain, push_member_entries and into_report.
filter_same_domain(s) == Kept(s, {i \in DOMAIN s : s[i].own})
universal_on_domain_bind == srv.scope = "Universal" /\ ~ srv.gc
MembersRead ==
    /\ Done /\ job = "members"
    /\ LET members    == Ids(Readable(outs[2].s)) \cup Ids(Readable(filter_same_domain(outs[3].s)))
           incomplete == ~ outs[2].ok \/ ~ outs[3].ok
       IN IF ~ outs[1].ok \/ (members = {} /\ incomplete) THEN Fails
          ELSE Delivers("Ok", members, incomplete \/ universal_on_domain_bind)

\* A list the caller takes as it is, or an error; a match without a SID and a trust object
\* without trustPartner (parse_trust) are left out.
ListRead ==
    /\ Done /\ job \in {"ranged", "tokens", "query", "trusts"}
    /\ IF outs[1].ok
       THEN Delivers("Ok", Ids(IF job \in {"query", "trusts"} THEN Readable(outs[1].s) ELSE outs[1].s), FALSE)
       ELSE Fails

\* search_root_domain_nc, search_forest_domain_sids: an unreadable domain SID is left out, and a
\* root that is not known only widens the answer to "unknown".
ForestRead ==
    /\ Done /\ job = "forest"
    /\ IF outs[2].ok THEN Delivers("Ok", Ids(Readable(outs[2].s)), ~ outs[1].ok) ELSE Fails

\* enumerate_all: a source that fails is logged; the well-known SIDs are always offered.
well_known_table == {1000, 1001}
AccountsRead ==
    /\ Done /\ job = "accounts"
    /\ Delivers("Ok", well_known_table \cup UNION {Ids(outs[i].s) : i \in DOMAIN outs}, TRUE)

----------------------------------------------------------------------------
(* Chains into local groups.                                               *)

\* local_group_path, local_group_memberships: the account itself first, else the first known token
\* SID by name, then SID; the model's SIDs are their own names.
local_group_path(members) ==
    LET readable == Ids(Readable(members))
        known    == (readable \cap Known) \ {0}
    IN IF 0 \in readable THEN [nodes |-> <<0>>, complete |-> TRUE, also_via |-> known]
       ELSE IF known = {} THEN [nodes |-> <<0>>, complete |-> FALSE, also_via |-> {}]
       ELSE [nodes |-> <<0, Min(known)>>, complete |-> TRUE, also_via |-> known \ {Min(known)}]

\* resolve_local_group_chains: a group whose SID is unknown is a gap, one whose members are unknown
\* stays with an incomplete chain.
ReadChain ==
    /\ Done /\ job = "sam" /\ outs[2].ok /\ Len(rows) < Len(outs[2].s)
    /\ LET g == outs[2].s[Len(rows) + 1] IN
       \E ok \in BOOLEAN :
          /\ rows' = Append(rows, [id |-> g.id, read |-> g.readable,
                                   path |-> IF ok THEN local_group_path(srv.members[g.id])
                                            ELSE [nodes |-> <<0>>, complete |-> FALSE, also_via |-> {}]])
          /\ gaps' = IF g.readable THEN gaps ELSE gaps \cup {g.id}
    /\ UNCHANGED <<job, srv, calls, from, turns, got, outs, list>>

\* resolve_identity_via_sam: every missing part is a gap, and the caller marks the result anyway.
SamRead ==
    /\ Done /\ job = "sam" /\ (outs[2].ok => Len(rows) = Len(outs[2].s))
    /\ Delivers("Ok", Ids(Readable(outs[1].s)) \cup {rows[i].id : i \in {i \in DOMAIN rows : rows[i].read}}, TRUE)

\* user_info_4, user_global_groups, lookup_name_on: an answer that is not whole is a gap.
AccountRead ==
    /\ Done /\ job = "account"
    /\ LET whole == outs[2].ok /\ AllReadable(outs[2].s) IN
       Delivers("Ok", IF whole THEN Ids(outs[2].s) ELSE {}, ~ outs[1].ok \/ ~ whole)

----------------------------------------------------------------------------
(* Shares, policies and the DFS client.                                    *)

\* classify_dacl: absent and NULL are the same, an empty DACL is a DACL.
classify_dacl(d) == IF d \in {"Absent", "NullPointer"} THEN "NullDacl" ELSE "Acl"

\* get_share_dacl and parse_share_dacl: no descriptor is not a NULL DACL; an ACE that cannot be
\* read or has another type is counted.
ShareDaclScan(s) ==
    IF s.descriptor = "None" THEN [id |-> s.id, dacl |-> "NoSecurityDescriptor", aces |-> <<>>, unsupported |-> 0]
    ELSE IF classify_dacl(s.descriptor) = "NullDacl" THEN [id |-> s.id, dacl |-> "NullDacl", aces |-> <<>>, unsupported |-> 0]
    ELSE [id |-> s.id, dacl |-> "Acl", aces |-> Readable(srv.members[s.id]),
          unsupported |-> Len(srv.members[s.id]) - Len(Readable(srv.members[s.id]))]
\* enumerate_shares: an entry without a name is skipped.
ShareNames == Readable(outs[1].s)

UnreadShare(s) == [id |-> s.id, dacl |-> "ReadFailed", aces |-> <<>>, unsupported |-> 0]

\* One share after the other; one that cannot be read does not stop the rest.
ReadShare ==
    /\ Done /\ job = "shares" /\ outs[1].ok /\ Len(rows) < Len(ShareNames)
    /\ \E ok \in BOOLEAN :
          LET s == ShareNames[Len(rows) + 1] IN
          /\ rows' = Append(rows, IF ok THEN ShareDaclScan(s) ELSE UnreadShare(s))
          /\ gaps' = IF ok THEN gaps ELSE gaps \cup {s.id}
    /\ UNCHANGED <<job, srv, calls, from, turns, got, outs, list>>

\* scan_shares: every share, and an error for each that could not be read.
SharesRead ==
    /\ Done /\ job = "shares"
    /\ IF ~ outs[1].ok THEN Fails
       ELSE /\ Len(rows) = Len(ShareNames)
            /\ Delivers("Ok", Range(rows), gaps # {})

\* read_target_uac_policy and query_dword: a missing key or value is Absent, anything else unreadable.
QueryPolicy ==
    /\ Done /\ job = "policy" /\ outs[1].ok /\ outs[2].ok /\ Len(rows) < Len(srv.entries)
    /\ LET v == srv.entries[Len(rows) + 1] IN
       \E ok \in BOOLEAN :
          /\ rows' = Append(rows, [id |-> v.id, read |-> ok /\ v.readable])
          /\ gaps' = IF ok /\ v.readable THEN gaps ELSE gaps \cup {v.id}
    /\ UNCHANGED <<job, srv, calls, from, turns, got, outs, list>>
PolicyRead ==
    /\ Done /\ job = "policy"
    /\ IF ~ outs[1].ok \/ ~ outs[2].ok THEN Fails
       ELSE /\ Len(rows) = Len(srv.entries)
            /\ Delivers("Ok", {rows[i].id : i \in {i \in DOMAIN rows : rows[i].read}}, gaps # {})

\* build_link: the client's answer names the folder and between one and MaxTargets targets.
build_link == /\ outs[2].ok /\ srv.scope = "Link" /\ srv.entries # <<>> /\ Len(srv.entries) <= MaxTargets
              /\ AllReadable(srv.entries)

\* decide: where a path is evaluated.  srv.final is the share the redirector opened, srv.asked the
\* share of the path; own marks the target in use.
decide ==
    LET targets == Ids(srv.entries)
        active  == {srv.entries[i].id : i \in {i \in DOMAIN srv.entries : srv.entries[i].own}}
        Evaluated(at, others, known) == [at |-> at, marked |-> others # {} \/ ~ known]
    IN IF outs[1].ok
       THEN IF srv.final = srv.asked THEN Evaluated(srv.asked, {}, TRUE)
            ELSE Evaluated(srv.final, IF build_link THEN targets \ {srv.final} ELSE {},
                           build_link /\ active = {srv.final})
       ELSE IF ~ build_link THEN Evaluated(srv.asked, {}, TRUE)
            ELSE IF Cardinality(active) = 1 THEN Evaluated(CHOOSE t \in active : TRUE, targets \ active, TRUE)
            ELSE Evaluated(srv.asked, targets, FALSE)
DfsRead == Done /\ job = "dfs" /\ Delivers("Ok", {decide.at}, decide.marked)

----------------------------------------------------------------------------
(* What the jobs start from.                                               *)

\* Lists are sequences.  A group of one domain has no members elsewhere that its own domain or, for
\* a universal group, the Global Catalog does not list; shares differ in their names; a folder of
\* the DFS client is a folder with these targets, and a path that the redirector opens where it was
\* asked has no other.
IsList(s) == s \in Seq(Range(s))
IsServer(j, s) ==
    /\ IsList(s.entries) /\ IsList(s.second)
    /\ \A e \in Range(s.entries) : /\ j \in {"table", "shares"} => IsList(s.members[e.id])
                                   /\ j = "table" => e.id \in Nat /\ ForeignSid(e.id) \notin s.builtin
    /\ \A e \in Range(s.second) : j = "sam" => IsList(s.members[e.id])
    /\ j = "shares" => \A a, b \in Range(s.entries) :
                          /\ a.descriptor \in {"None", "Absent", "NullPointer", "Acl"}
                          /\ a.id = b.id => a = b
    /\ j = "members" /\ s.elsewhere # {} => s.scope = "DomainLocal" \/ (s.scope = "Universal" /\ ~ s.gc)
    /\ j = "dfs" => /\ s.final = s.asked => s.targets = {s.asked}
                    /\ s.scope = "Link" => s.targets = Ids(s.entries)
ASSUME JobsAssumption == \A c \in Jobs : c.job \in DOMAIN Plan /\ IsServer(c.job, c.srv)

ReadInit ==
    /\ \E c \in Jobs : job = c.job /\ srv = c.srv /\ calls = Plan[c.job]
    /\ from = 1 /\ turns = 0 /\ got = <<>> /\ outs = <<>> /\ rows = <<>> /\ gaps = {} /\ list = Reading

----------------------------------------------------------------------------
(* What the other machine really has.                                      *)

Pairs(s) == {[id |-> s[i].id, members |-> Ids(srv.members[s[i].id])] : i \in DOMAIN s}
Truth == CASE job = "table"   -> Pairs(srv.entries)
           [] job = "members" -> Ids(srv.entries) \cup Ids(filter_same_domain(srv.second)) \cup srv.elsewhere
           [] job = "dfs"     -> srv.targets
           [] OTHER           -> Ids(srv.entries)

\* Whole lists; the name search, the forest's domains and the account lists are offers.
Promised == {"table", "members", "ranged", "tokens", "trusts", "account", "policy", "dfs"}

\* What no check of the code can tell: the only group outside BUILTIN was taken for another one;
\* members of a domain local group lie in another domain of the forest; a member has no SID; a
\* trust object has no partner; a namespace path that nobody could open and the DFS client did not
\* name.
Undetectable == \/ job = "table" /\ account_domains = {TRUE}
                \/ job = "members" /\ srv.scope = "DomainLocal" /\ srv.elsewhere # {}
                \/ job = "members" /\ ~ AllReadable(srv.entries \o srv.second)
                \/ job = "trusts" /\ ~ AllReadable(srv.entries)
                \/ job = "dfs" /\ outs # <<>> /\ ~ outs[1].ok /\ ~ build_link

\* Each share as it is, or with a sign that it may be another.
SharesAreTrue ==
    /\ {s.id : s \in list.list} = Ids(Readable(srv.entries))
    /\ \A s \in list.list : s.dacl = "ReadFailed" => list.marked
    /\ \A s \in list.list : s.dacl \in {"Acl", "NullDacl"} /\ s.unsupported = 0 =>
          \E i \in DOMAIN srv.entries :
             LET e == srv.entries[i] IN
             /\ e.id = s.id
             /\ s.aces = (IF e.descriptor \in {"Absent", "NullPointer"} THEN <<>> ELSE srv.members[e.id])
             /\ (s.dacl = "NullDacl") = (e.descriptor \in {"Absent", "NullPointer"})

\* The route into a local group is one of its members, and the order of the answer does not choose it.
ChainsAreTrue ==
    \A i \in DOMAIN rows :
       LET members == srv.members[rows[i].id]
           path    == rows[i].path
       IN /\ path.complete => /\ Last(path.nodes) \in Ids(members)
                              /\ path.also_via \subseteq Ids(members) \cap Known
          /\ local_group_path(members) = local_group_path(Reverse(members))

\* A list that a read returns without a mark is what the other machine has: paging, range
\* retrieval, a timeout, an unreadable entry, a name that leads elsewhere and a failing call each
\* end in an error or in a mark (ldap_client.rs, local_groups.rs, resolver.rs, scanner.rs, dfs.rs).
UnmarkedIsTrue ==
    /\ list.st = "Ok" /\ ~ Undetectable =>
          /\ job = "shares" => SharesAreTrue
          /\ job \in Promised /\ ~ list.marked => list.list = Truth
    /\ job = "sam" => ChainsAreTrue

----------------------------------------------------------------------------
\* The inductive invariant behind it.  Calls are made in the order of the job's plan; after the
\* job the analysis goes on without the answers.
JobInv == \E c \in Jobs : job = c.job /\ srv = c.srv
CallsInv ==
    \/ calls = <<"evaluate">> /\ outs = <<>> /\ rows = <<>> /\ list = Reading
    \/ /\ Len(outs) + Len(calls) = Len(Plan[job])
       /\ \A k \in 1 .. Len(calls) : calls[k] = Plan[job][Len(outs) + k]

\* Calls that return all there is or fail.
WholeApis == {"memberOf", "NetLocalGroupEnum", "tokenGroups"} \cup (PagedApis \ {"query"}) \cup SingleApis

Apis == {"query", "evaluate"} \cup EnumApis \cup WholeApis

\* What a call has so far is the front of what the server has.
IsFront(s, n, src) == s \in Seq(Range(src)) /\ Len(s) = n - 1 /\ n \in 1 .. Len(src) + 1 /\ \A i \in 1 .. n - 1 : s[i] = src[i]
GotInv ==
    calls # <<>> /\ Head(calls) \in WholeApis =>
        /\ IsFront(got, from, Source(Head(calls)))
        /\ Head(calls) = "NetLocalGroupEnum" => AllReadable(got)
OutsInv ==
    \A k \in 1 .. Len(outs) : outs[k].ok /\ Plan[job][k] \in WholeApis =>
        /\ outs[k].s = Source(Plan[job][k])
        /\ Plan[job][k] \in {"NetLocalGroupEnum", "tokenGroups"} => AllReadable(outs[k].s)

\* What was read one by one, as far as it goes, against what the server has; a gap for the rest.
UnknownChain == [nodes |-> <<0>>, complete |-> FALSE, also_via |-> {}]
GroupRow(r, e) ==
    /\ r.foreign \in BOOLEAN /\ r.id = (IF r.foreign THEN ForeignSid(e.id) ELSE e.id)
    /\ r.read => r.alias /\ r.members = Ids(Readable(srv.members[e.id]))
    /\ e.id \notin gaps => r.read /\ AllReadable(srv.members[e.id])
ShareRow(r, e) == r = ShareDaclScan(e) \/ (r = UnreadShare(e) /\ e.id \in gaps)
PolicyRow(r, e) == r.id = e.id /\ (r.read \/ e.id \in gaps)
ChainRow(r) == r.id \in Ids(srv.second) /\ r.path \in {UnknownChain, local_group_path(srv.members[r.id])}
RowsInv ==
    /\ job = "table"  => Len(rows) <= Len(srv.entries) /\ \A i \in 1 .. Len(rows) : GroupRow(rows[i], srv.entries[i])
    /\ job = "shares" => Len(rows) <= Len(Readable(srv.entries))
                         /\ \A i \in 1 .. Len(rows) : ShareRow(rows[i], Readable(srv.entries)[i])
    /\ job = "policy" => Len(rows) <= Len(srv.entries) /\ \A i \in 1 .. Len(rows) : PolicyRow(rows[i], srv.entries[i])
    /\ job = "sam"    => \A i \in 1 .. Len(rows) : ChainRow(rows[i])

SeqInv == calls \in Seq(Apis) /\ outs \in Seq(Range(outs)) /\ rows \in Seq(Range(rows)) /\ turns \in Nat
ReadInv == JobInv /\ SeqInv /\ CallsInv /\ GotInv /\ OutsInv /\ RowsInv
============================================================================
