---------------------------- MODULE MCAccessCheck ----------------------------
(***************************************************************************)
(* Small instances of AccessCheck: accounts of every kind the engine tells *)
(* apart, each against every short DACL over the trustees that matter to   *)
(* it.                                                                     *)
(***************************************************************************)
EXTENDS Explanation

User       == "S-1-5-21-1-1-1-1101"
Guest      == "S-1-5-21-7-7-7-501"
Staff      == "S-1-5-21-1-1-1-1201"   \* a domain group
OldStaff   == "S-1-5-21-9-9-9-1301"   \* its SID before a migration
DomAdmins  == "S-1-5-21-1-1-1-512"
LocalStaff == "S-1-5-21-7-7-7-1001"   \* local group containing Staff
LocalNtlm  == "S-1-5-21-7-7-7-1002"   \* local group containing NTLM Authentication
Ntlm       == "S-1-5-64-10"

MCSid ==
    {User, Guest, AnonymousLogon, Staff, OldStaff, DomAdmins, LocalStaff, LocalNtlm, Ntlm,
     Everyone, AuthenticatedUsers, NetworkLogon, InteractiveLogon, ThisOrganization,
     OtherOrganization, OwnerRights, Administrators, CryptographicOperators, LocalAccountAndAdmin}
MCRights      == {"READ_DATA", "READ_CONTROL", "WRITE_DAC", "SYNCHRONIZE"}
MCFullControl == MCRights
MCGenericMap  == [g \in {"GENERIC_READ"} |-> {"READ_DATA", "READ_CONTROL", "SYNCHRONIZE"}]

Group(s)      == [sid |-> s, history |-> {}]
Local(s, ms)  == [sid |-> s, members |-> ms]
LocalGroups   == {Local(LocalStaff, {Staff}), Local(LocalNtlm, {Ntlm}),
                  Local(Administrators, {User, DomAdmins})}
NoShare       == [kind |-> "NoContext", aces |-> <<>>, unsupported |-> FALSE]

DomainUser ==
    [user |-> User, history |-> {}, memberships |-> {Group(Staff)},
     localAccount |-> FALSE, builtinAdmin |-> FALSE, context |-> "RemoteSmb",
     anonymousPolicy |-> "Absent", lua |-> "Absent", latfp |-> "Absent", fat |-> "Absent",
     table |-> [readable |-> TRUE, gaps |-> FALSE,
                groups |-> {Local(LocalStaff, {Staff}), Local(LocalNtlm, {Ntlm})}],
     share |-> NoShare, owner |-> "NoOwner", dacl |-> <<>>, nullDacl |-> FALSE,
     unsupported |-> FALSE, tokenGap |-> FALSE, dfsOpen |-> FALSE, selectiveAuth |-> "None"]
MigratedUser  == [DomainUser EXCEPT !.memberships = {[sid |-> Staff, history |-> {OldStaff}]}]
CryptoUser    == [DomainUser EXCEPT !.memberships = {Group(Staff), Group(CryptographicOperators)}]
TrustedUser   == [DomainUser EXCEPT !.memberships = {Group(ThisOrganization)}]
ConsoleAdmin  == [DomainUser EXCEPT !.memberships = {Group(DomAdmins)}, !.context = "LocalInteractive",
                                    !.table.groups = LocalGroups]
MigratedAdmin == [ConsoleAdmin EXCEPT !.memberships = {[sid |-> Staff, history |-> {DomAdmins}]}]
LocalAdmin    == [DomainUser EXCEPT !.memberships = {}, !.localAccount = TRUE,
                                    !.table.groups = LocalGroups]
BuiltinAdmin  == [LocalAdmin EXCEPT !.builtinAdmin = TRUE]
UnknownLogon  == [DomainUser EXCEPT !.context = "Unspecified"]
GuestUser     == [DomainUser EXCEPT !.user = Guest, !.memberships = {}, !.localAccount = TRUE]
Anonymous     == [DomainUser EXCEPT !.user = AnonymousLogon, !.memberships = {},
                                    !.table.groups = {Local(LocalStaff, {Everyone})}]

Aces(trustees, masks) ==
    [sid : trustees, kind : Kinds, inheritOnly : {FALSE}, mask : masks]
InheritOnly == [sid |-> User, kind |-> "Allow", inheritOnly |-> TRUE, mask |-> {"READ_DATA"}]
Dacls(aces, n) == UNION {[1 .. k -> aces] : k \in 0 .. n}

Masks == {{"READ_DATA", "WRITE_DAC"}, {"GENERIC_READ"}}

\* Every DACL of up to n ACEs over the trustees, with every owner.
OnObjects(accounts, trustees, owners, n) ==
    {[a EXCEPT !.dacl = d, !.owner = o] :
        a \in accounts, d \in Dacls(Aces(trustees, Masks) \cup {InheritOnly}, n), o \in owners}

\* The UAC-relevant policies of the target, with an unreadable value among them.
Policies(a) ==
    {[a EXCEPT !.lua = l, !.latfp = t, !.fat = f] :
        l \in {"Absent", "0", "Other"}, t \in {"Absent", "1"}, f \in {"Absent", "1"}}

NtfsInputs ==
    OnObjects({DomainUser}, {User, Ntlm}, {"NoOwner"}, 3)
    \cup OnObjects({DomainUser}, {User, Ntlm, LocalNtlm}, {"NoOwner", Staff}, 2)
    \cup OnObjects({DomainUser}, {Staff, OwnerRights, LocalStaff}, {"NoOwner", User}, 2)
    \cup OnObjects({MigratedUser}, {OldStaff, Ntlm}, {OldStaff}, 2)
    \cup OnObjects({CryptoUser}, {CryptographicOperators, Staff}, {"NoOwner"}, 3)
    \cup OnObjects({TrustedUser}, {ThisOrganization, OtherOrganization}, {"NoOwner"}, 2)
    \cup OnObjects({ConsoleAdmin}, {DomAdmins, Administrators, OwnerRights}, {Administrators}, 2)
    \cup OnObjects({MigratedAdmin}, {DomAdmins, Staff}, {"NoOwner"}, 2)
    \cup OnObjects(Policies(LocalAdmin) \cup Policies(BuiltinAdmin),
                   {Administrators, LocalAccountAndAdmin}, {Administrators}, 1)
    \cup OnObjects({UnknownLogon}, {NetworkLogon, InteractiveLogon}, {"NoOwner"}, 2)
    \cup OnObjects({GuestUser}, {AuthenticatedUsers, Everyone}, {"NoOwner"}, 2)
    \cup OnObjects({[Anonymous EXCEPT !.anonymousPolicy = p] : p \in {"Absent", "1", "Other"}},
                   {Everyone, LocalStaff}, {"NoOwner"}, 2)
    \cup {[DomainUser EXCEPT !.nullDacl = TRUE, !.dacl = <<InheritOnly>>]}

----------------------------------------------------------------------------
\* Share and NTFS permissions together, with the markers of the other layers.
ShareAcls(trustees, n) ==
    {[kind |-> "Acl", aces |-> d, unsupported |-> u] :
        d \in Dacls(Aces(trustees, Masks), n), u \in BOOLEAN}
OtherShares ==
    {[kind |-> k, aces |-> <<>>, unsupported |-> FALSE] :
        k \in {"NoContext", "ReadFailed", "NoSecurityDescriptor", "NullDacl"}}
    \cup {[kind |-> "NullDacl", aces |-> <<>>, unsupported |-> TRUE]}
OneAce(s, mask) == <<[sid |-> s, kind |-> "Allow", inheritOnly |-> FALSE, mask |-> mask]>>

OnShares(accounts, shares, dacls) ==
    {[a EXCEPT !.share = s, !.dacl = d] : a \in accounts, s \in shares, d \in dacls}
Logons(a) == {[a EXCEPT !.selectiveAuth = x] : x \in {"None", "Allowed", "Unknown", "Denied"}}

ShareInputs ==
    OnShares({DomainUser}, ShareAcls({User, Ntlm, LocalNtlm}, 2),
             {OneAce(Staff, {"GENERIC_READ"}), OneAce(Ntlm, {"GENERIC_READ"})})
    \cup OnShares({CryptoUser}, ShareAcls({CryptographicOperators}, 2),
                  {OneAce(Staff, {"GENERIC_READ"})})
    \cup OnShares({LocalAdmin, BuiltinAdmin, [LocalAdmin EXCEPT !.lua = "0"]},
                  ShareAcls({Administrators, Everyone}, 1), {OneAce(Administrators, {"GENERIC_READ"}),
                                                            OneAce(Everyone, {"GENERIC_READ"})})
    \cup OnShares({[Anonymous EXCEPT !.anonymousPolicy = p] : p \in {"Absent", "1", "Other"}},
                  ShareAcls({Everyone}, 1), {OneAce(Everyone, {"GENERIC_READ"})})
    \cup OnShares(Logons(DomainUser), OtherShares \cup ShareAcls({Ntlm}, 1),
                  {<<>>, OneAce(Staff, {"READ_DATA"})})
    \cup OnShares({[DomainUser EXCEPT !.tokenGap = TRUE], [DomainUser EXCEPT !.dfsOpen = TRUE],
                   [DomainUser EXCEPT !.unsupported = TRUE],
                   [LocalAdmin EXCEPT !.table.readable = FALSE],
                   [DomainUser EXCEPT !.table.gaps = TRUE]},
                  OtherShares \cup ShareAcls({User}, 1), {OneAce(Everyone, {"READ_DATA"})})

MCInputs == NtfsInputs \cup ShareInputs

----------------------------------------------------------------------------
\* The owner is a group the account is in for some logons only.
OwnerInputs ==
    OnObjects({DomainUser}, {User}, {LocalNtlm}, 1)
    \cup OnObjects({CryptoUser}, {User}, {CryptographicOperators}, 1)

\* A refused logon on an object with an ACE the parser could not evaluate.
RefusedInputs ==
    OnObjects({[DomainUser EXCEPT !.selectiveAuth = "Denied", !.unsupported = u] : u \in BOOLEAN},
              {User}, {"NoOwner"}, 2)
=============================================================================
