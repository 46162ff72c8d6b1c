---------------------------- MODULE AccessToken ----------------------------
(***************************************************************************)
(* The access token Stars evaluates for an account, and the local groups   *)
(* of the target server it expands against it:                             *)
(*   crates/permission_engine/src/engine.rs  (token, UAC, well-knowns)     *)
(*   crates/analysis/src/local_groups.rs     (local groups of the target)  *)
(*                                                                         *)
(* SIDs keep their string form, names are left out.  A membership is       *)
(* [sid, history]: the group and its historical SIDs.  Operators keep the  *)
(* names of the Rust functions they translate.                             *)
(***************************************************************************)
EXTENDS Integers, FiniteSets

CONSTANTS Sid,             \* every SID a token or an ACE of the model may name
          GuestAccounts,   \* SIDs with the shape S-1-5-21-a-b-c-501
          UacDomainGroups  \* SIDs S-1-5-21-a-b-c-RID, RID one of the filtered RIDs

Everyone               == "S-1-1-0"
AuthenticatedUsers     == "S-1-5-11"
AnonymousLogon         == "S-1-5-7"
NetworkLogon           == "S-1-5-2"
InteractiveLogon       == "S-1-5-4"
ThisOrganization       == "S-1-5-15"
OtherOrganization      == "S-1-5-1000"
OwnerRights            == "S-1-3-4"
Administrators         == "S-1-5-32-544"
CryptographicOperators == "S-1-5-32-569"
LocalAccountAndAdmin   == "S-1-5-114"

\* SIDs Windows itself puts into tokens: never the SID of an account or a group.
WellKnowns ==
    {Everyone, AuthenticatedUsers, AnonymousLogon, NetworkLogon, InteractiveLogon,
     ThisOrganization, OtherOrganization, OwnerRights, LocalAccountAndAdmin}

\* SIDs whose presence in the real token depends on how the account logs on.
\* The families S-1-18-* and S-1-5-64-* are represented by their known members.
AlwaysLogonDependent ==
    {ThisOrganization, OtherOrganization, "S-1-5-65-1", "S-1-5-113", LocalAccountAndAdmin,
     "S-1-18-1", "S-1-18-2", "S-1-5-64-10", "S-1-5-64-14", "S-1-5-64-21"}
LocalLogonSids == {"S-1-5-14", "S-1-2-1", "S-1-5-13", "S-1-2-0"}
ContextSids    == {NetworkLogon, InteractiveLogon, "S-1-2-0"}

ASSUME SidAssumption ==
    /\ GuestAccounts \subseteq Sid
    /\ UacDomainGroups \subseteq Sid
    /\ CryptographicOperators \notin UacDomainGroups
    /\ UacDomainGroups \cap (WellKnowns \cup AlwaysLogonDependent \cup LocalLogonSids \cup ContextSids) = {}
    /\ GuestAccounts \cap WellKnowns = {}

Contexts == {"RemoteSmb", "LocalInteractive", "Unspecified"}

\* PolicyDword: a registry value read from the target.
Policy == {"Absent", "0", "1", "Other"}

\* RemoteUacFiltering and Option<bool>.
RemoteUac == {"Filtered", "NotFiltered", "Unknown"}
Maybe     == {"None", "True", "False"}

----------------------------------------------------------------------------
\* Well-knowns a Guest or an anonymous token lacks, or may lack.
identity_absent_well_knowns(user) ==
    IF user = AnonymousLogon \/ user \in GuestAccounts THEN {AuthenticatedUsers} ELSE {}

identity_uncertain_well_knowns(user) ==
    IF user = AnonymousLogon THEN {Everyone} ELSE {}

uncertain_well_knowns_with(user, anonymousEveryone) ==
    IF user = AnonymousLogon /\ anonymousEveryone # "None"
    THEN {}
    ELSE identity_uncertain_well_knowns(user)

anonymous_gets_everyone(user, anonymousEveryone) ==
    user = AnonymousLogon /\ anonymousEveryone = "True"

anonymous_everyone(policy) ==
    IF policy = "Other" THEN "None" ELSE IF policy = "1" THEN "True" ELSE "False"

is_logon_dependent_sid(s, context) ==
    \/ s \in AlwaysLogonDependent
    \/ context \in {"LocalInteractive", "Unspecified"} /\ s \in LocalLogonSids
    \/ context = "Unspecified" /\ s \in ContextSids

\* A token holds exactly one of the two organization SIDs: one decides the other.
is_logon_dependent_for(s, context, token) ==
    /\ ~ (s = ThisOrganization /\ OtherOrganization \in token)
    /\ ~ (s = OtherOrganization /\ ThisOrganization \in token)
    /\ is_logon_dependent_sid(s, context)

----------------------------------------------------------------------------
\* The SIDs of the domain memberships with their historical SIDs.
MembershipSids(memberships) ==
    {m.sid : m \in memberships} \cup UNION {m.history : m \in memberships}

ContextWellKnowns(context) ==
    {s \in {NetworkLogon, InteractiveLogon} :
        \/ s = NetworkLogon /\ context = "RemoteSmb"
        \/ s = InteractiveLogon /\ context = "LocalInteractive"}

build_token_sids_with_context(user, history, memberships, local, context) ==
    {user} \cup history \cup MembershipSids(memberships) \cup local
      \cup ({Everyone, AuthenticatedUsers}
              \ (identity_uncertain_well_knowns(user) \cup identity_absent_well_knowns(user)))
      \cup ContextWellKnowns(context)

\* One level is exact: local groups cannot contain local groups.
expand_local_groups_with(user, history, memberships, groups, context, anonymousEveryone) ==
    LET token == build_token_sids_with_context(user, history, memberships, {}, context)
                   \cup (IF anonymous_gets_everyone(user, anonymousEveryone)
                         THEN {Everyone} ELSE {})
        Certain(g)   == g.members \cap token # {}
        Uncertain(g) == \E s \in g.members \ token :
                            \/ is_logon_dependent_for(s, context, token)
                            \/ s \in uncertain_well_knowns_with(user, anonymousEveryone)
    IN  [certain         |-> {g.sid : g \in {h \in groups : Certain(h)}},
         logon_dependent |-> {g.sid : g \in {h \in groups : ~ Certain(h) /\ Uncertain(h)}}]

----------------------------------------------------------------------------
\* User Account Control: the groups a filtered token holds deny-only.
UacBuiltinGroups ==
    {Administrators, "S-1-5-32-547", "S-1-5-32-548", "S-1-5-32-549", "S-1-5-32-550",
     "S-1-5-32-551", "S-1-5-32-554", "S-1-5-32-556"}

is_uac_filtered_group(s) == s \in UacBuiltinGroups \/ s \in UacDomainGroups

uac_filtered_groups(tokenGroups, localAccount, context) ==
    LET filtered == {s \in tokenGroups : is_uac_filtered_group(s)}
    IN  IF context = "RemoteSmb" /\ ~ localAccount
        THEN {}
        ELSE filtered \cup (IF localAccount /\ Administrators \in filtered
                            THEN {LocalAccountAndAdmin} ELSE {})

uac_filtered_token_groups(memberships, local, localAccount, context) ==
    uac_filtered_groups(MembershipSids(memberships) \cup local, localAccount, context)

\* The target's policies, an absent value being the Windows default.
remote_uac_filtering(builtinAdmin, lua, latfp, fat) ==
    IF "Other" \in {lua, latfp, fat} \/ lua = "0" THEN "Unknown"
    ELSE IF latfp = "1" \/ (builtinAdmin /\ fat # "1") THEN "NotFiltered"
    ELSE "Filtered"

local_uac_filtering(builtinAdmin, lua, fat) ==
    IF builtinAdmin /\ lua \in {"Absent", "1"} /\ fat \in {"Absent", "0"}
    THEN "NotFiltered"
    ELSE "Unknown"

\* collect_local_groups_on: the LocalGroupResolution of one request.  The target's
\* group table is unreadable, or a set of [sid, members] with or without gaps.
collect_local_groups_on(in) ==
    LET anonymous == IF in.user = AnonymousLogon THEN anonymous_everyone(in.anonymousPolicy)
                                                 ELSE "None"
        groups    == expand_local_groups_with(in.user, in.history, in.memberships,
                                              in.table.groups, in.context, anonymous)
        filtered  == uac_filtered_token_groups(in.memberships, groups.certain,
                                               in.localAccount, in.context)
        remote    == IF ~ in.localAccount \/ filtered = {} THEN "Unknown"
                     ELSE IF in.context = "RemoteSmb"
                     THEN remote_uac_filtering(in.builtinAdmin, in.lua, in.latfp, in.fat)
                     ELSE IF in.context = "LocalInteractive"
                     THEN local_uac_filtering(in.builtinAdmin, in.lua, in.fat)
                     ELSE "Unknown"
    IN  IF in.table.readable
        THEN [sids               |-> groups.certain,
              logon_dependent    |-> groups.logon_dependent,
              uac_filtered       |-> IF remote = "NotFiltered" THEN {} ELSE filtered,
              remote_uac         |-> remote,
              anonymous_everyone |-> anonymous,
              available          |-> ~ in.table.gaps]
        ELSE [sids               |-> {},
              logon_dependent    |-> {},
              uac_filtered       |-> uac_filtered_token_groups(in.memberships, {},
                                                               in.localAccount, in.context),
              remote_uac         |-> "Unknown",
              anonymous_everyone |-> anonymous,
              available          |-> FALSE]
============================================================================
