------------------------------ MODULE MCAudit ------------------------------
(***************************************************************************)
(* Small servers, directories and objects for Audit.                       *)
(***************************************************************************)
EXTENDS Audit

\* SIDs: 0 the account, 1 a group of it, 50 Everyone, 10-12 local groups, 20-22 groups of the
\* directory, 60 a logon-dependent trustee; 100, 101 shares; 70, 71 servers of a DFS folder.
MCKnown == {0, 1, 50}

E(id)    == [id |-> id, readable |-> TRUE, own |-> TRUE]
Bad(id)  == [id |-> id, readable |-> FALSE, own |-> TRUE]
Other(id) == [id |-> id, readable |-> TRUE, own |-> FALSE]
Ace(id, allow, mask) == [id |-> id, allow |-> allow, mask |-> mask, inherited |-> FALSE, readable |-> TRUE]
Inherited(a) == [a EXCEPT !.inherited = TRUE]
Hidden(a)    == [a EXCEPT !.readable = FALSE]

Server == [entries |-> <<>>, second |-> <<>>, members |-> <<>>, builtin |-> {}, scope |-> "", gc |-> FALSE,
           elsewhere |-> {}, final |-> 0, asked |-> 0, targets |-> {},
           groups |-> {}, hidden |-> {}, markers |-> {}, who |-> Somebody]
Job(j, s) == [job |-> j, srv |-> s]

\* Three groups: BUILTIN, one with an unreadable member, one of others.
Tables == {Job("table", [Server EXCEPT !.entries = <<E(10), E(11), E(12)>>, !.builtin = {10},
                                       !.members = (10 :> <<E(0)>>) @@ (11 :> m) @@ (12 :> <<E(7)>>)])
             : m \in {<<E(7), E(50)>>, <<E(50), Bad(8)>>}}
          \cup {Job("table", [Server EXCEPT !.entries = <<E(10), Bad(11)>>, !.members = (10 :> <<E(0)>>) @@ (11 :> <<>>)])}

Groups == {Job("members", [Server EXCEPT !.entries = <<E(1), E(2)>>, !.second = <<E(3), Other(4)>>, !.scope = s, !.gc = g,
                                         !.elsewhere = IF s = "Global" THEN {} ELSE {9}])
             : s \in {"Global", "DomainLocal", "Universal"}, g \in {FALSE}}
          \cup {Job("members", [Server EXCEPT !.entries = <<E(1), Bad(2)>>, !.scope = "Global"]),
                Job("members", [Server EXCEPT !.entries = <<E(1)>>, !.scope = "Universal", !.gc = TRUE])}

Attributes == {Job("ranged", [Server EXCEPT !.entries = [i \in 1..n |-> E(19 + i)]]) : n \in {1, 3, 7}}
              \cup {Job(j, [Server EXCEPT !.entries = s]) : j \in {"tokens", "trusts"}, s \in {<<E(20)>>, <<E(20), E(21)>>}}
              \cup {Job(j, [Server EXCEPT !.entries = <<E(20), Bad(21)>>]) : j \in {"tokens", "trusts"}}
              \cup {Job("query", [Server EXCEPT !.entries = <<E(1), Bad(2), E(3)>>])}
              \cup {Job("forest", [Server EXCEPT !.entries = <<E(1), Bad(2)>>])}

Accounts == {Job("accounts", [Server EXCEPT !.entries = <<E(1), Bad(2), E(3)>>, !.second = <<E(4)>>]),
             Job("sam", [Server EXCEPT !.entries = <<E(20)>>, !.second = <<E(10), Bad(11)>>, !.elsewhere = {21},
                                       !.members = (10 :> <<E(50), E(1), Bad(9)>>) @@ (11 :> <<E(1), E(0)>>)]),
             Job("sam", [Server EXCEPT !.second = <<E(10)>>, !.members = (10 :> <<Bad(1), E(8)>>)]),
             Job("account", [Server EXCEPT !.entries = <<E(20), E(21)>>]),
             Job("account", [Server EXCEPT !.entries = <<E(20), Bad(21)>>])}

S(id, d) == [id |-> id, readable |-> TRUE, own |-> TRUE, descriptor |-> d]
Shares == {Job("shares", [Server EXCEPT !.entries = <<S(100, d)>>, !.members = (100 :> <<>>)])
             : d \in {"None", "Absent", "NullPointer", "Acl"}}
          \cup {Job("shares", [Server EXCEPT !.entries = <<S(100, "Acl"), [S(101, "Acl") EXCEPT !.readable = FALSE]>>,
                                             !.members = (100 :> a) @@ (101 :> <<>>)])
                  : a \in {<<Hidden(Ace(0, FALSE, Full)), Ace(50, TRUE, Modify)>>, <<Ace(1, TRUE, Read), Ace(50, TRUE, {"WRITE_DATA"})>>}}

Policies == {Job("policy", [Server EXCEPT !.entries = <<E(1), Bad(2)>>]), Job("policy", [Server EXCEPT !.entries = <<E(1)>>])}

\* A path outside DFS, a folder with one target, in use or not, and with two, a
\* link the client does not know.
Folders == {Job("dfs", [Server EXCEPT !.asked = 70, !.final = 70, !.targets = {70}]),
            Job("dfs", [Server EXCEPT !.scope = "Link", !.entries = <<E(71)>>, !.final = 71, !.asked = 70, !.targets = {71}]),
            Job("dfs", [Server EXCEPT !.scope = "Link", !.entries = <<Other(71)>>, !.final = 71, !.asked = 70, !.targets = {71}]),
            Job("dfs", [Server EXCEPT !.scope = "Link", !.entries = <<E(71), Other(72)>>, !.final = 71, !.asked = 70,
                                      !.targets = {71, 72}]),
            Job("dfs", [Server EXCEPT !.scope = "Link", !.entries = <<E(71), Bad(72)>>, !.final = 71, !.asked = 70,
                                      !.targets = {71, 72}])}

Who(f, v) == [Somebody EXCEPT ![f] = v]
Identities == {Job("identity", [Server EXCEPT !.groups = {20}, !.hidden = h.sids, !.markers = {Marker(v) : v \in h.markers}])
                 : h \in {[sids |-> {}, markers |-> {}], [sids |-> {}, markers |-> {"IdentityOrphaned"}],
                          [sids |-> {21}, markers |-> {"SidHistoryPresent"}],
                          [sids |-> {21}, markers |-> {"IdentityResolvedViaForeignSecurityPrincipal"}],
                          [sids |-> {21}, markers |-> {"IdentityNotResolvable", "GroupResolutionFailed"}]}}
              \cup {Job("identity", [Server EXCEPT !.groups = {20}, !.who.logon = l]) : l \in {"Allowed", "Refused", "Unknown"}}
              \cup {Job("identity", [Server EXCEPT !.markers = {Marker(a.marker)}, !.who.disabled = a.flag, !.who.account = a.real])
                     : a \in {[marker |-> "IdentityDisabledStatusUnknown", flag |-> FALSE, real |-> "Disabled"],
                              [marker |-> "IdentityDisabled", flag |-> TRUE, real |-> "Disabled"]}}

MCJobs == Tables \cup Groups \cup Attributes \cup Accounts \cup Shares \cup Policies \cup Folders \cup Identities

O(d, aces, sensitive, hash) == [dacl |-> d, aces |-> aces, sensitive |-> sensitive, hash |-> hash]
MCObjects == <<O("Null", <<>>, FALSE, 1),
               O("Acl", <<Ace(0, TRUE, Modify)>>, FALSE, 1),
               O("Acl", <<Ace(10, FALSE, Write), Inherited(Ace(50, TRUE, Full))>>, FALSE, 2),
               O("Acl", <<Ace(20, TRUE, Full), Ace(21, FALSE, {"WRITE_DAC"})>>, FALSE, 3),
               O("Acl", <<Hidden(Ace(0, FALSE, Full)), Ace(50, TRUE, Write)>>, FALSE, 3),
               O("Acl", <<Ace(60, TRUE, Full), Ace(1, TRUE, Read)>>, TRUE, 4),
               O("Unreadable", <<Ace(0, TRUE, Full)>>, TRUE, 4),
               O("Acl", <<Ace(1, TRUE, {"READ", "WRITE_DAC"}), Inherited(Ace(50, TRUE, {"APPEND_DATA"}))>>, FALSE, 2)>>
MCShareAces == <<Ace(11, FALSE, {"WRITE_DATA"}), Ace(21, FALSE, {"READ"}), Ace(50, TRUE, ReadExecute \cup Write)>>
=============================================================================
