------------------------- MODULE MCPrincipalResolver -------------------------
(* Small instances of PrincipalResolver: four groups, one account.         *)
EXTENDS PrincipalResolver

E4(a, b, c, d) == [n \in Node |-> IF n = 0 THEN a ELSE IF n = 1 THEN b ELSE IF n = 2 THEN c ELSE IF n = 3 THEN d ELSE {}]

D0 == [memberOf |-> E4({1}, {2}, {3}, {}), primary |-> 0, dom |-> [n \in Node |-> "home"],
       security |-> Group, local |-> {}, outside |-> {}, untyped |-> {}, sidless |-> {},
       mute |-> {}, token |-> TRUE, gone |-> {}]

T0 == [sid |-> "partner", holder |-> "home", forest |-> FALSE, within |-> FALSE, quarantine |-> FALSE,
       selective |-> FALSE, info |-> "known", listed |-> {}, enabled |-> {}]
Within(d, holder) == [T0 EXCEPT !.sid = d, !.holder = holder, !.within = TRUE]

E0 == [front |-> "Cli", ldap |-> TRUE, input |-> "Sid", ambiguous |-> FALSE, gc |-> FALSE, whole |-> TRUE,
       lsa |-> "names", serves |-> "none", trusts |-> {}, root |-> "Root", sidReadable |-> TRUE,
       history |-> {}, historyDom |-> [h \in {200, 201, 202} |-> IF h = 200 THEN "partner" ELSE IF h = 201 THEN "child" ELSE "home"],
       sd |-> [dacl |-> "list", aces |-> <<>>], cached |-> FALSE, changes |-> FALSE]

Case(e, d) == [env |-> e, dir |-> d]

\* Every graph of three groups of the configured domain, one of them possibly not a security group.
Graphs == {E4(a, b, c, d) : a \in SUBSET {1, 2, 3}, b \in SUBSET {2, 3}, c \in SUBSET {1, 3}, d \in SUBSET {1, 2}}
RouteCases ==
    {Case(E0, [D0 EXCEPT !.memberOf = g, !.primary = p, !.security = Group \ x])
       : g \in Graphs, p \in {0, 1}, x \in {{}, {2}}}
ChangeCases ==
    {Case([E0 EXCEPT !.changes = TRUE], [D0 EXCEPT !.memberOf = g, !.token = t])
       : t \in BOOLEAN, g \in {E4(a, b, {3}, {}) : a \in SUBSET {1, 2, 3}, b \in {{}, {2}, {3}}}}

\* One group more than fits into a token, or one that may become too many.
SizeCases ==
    {Case([E0 EXCEPT !.changes = TRUE], [D0 EXCEPT !.memberOf = E4(a, b, {}, {4}), !.primary = p, !.token = t])
       : a \in {{1, 3}, {2, 3}, {1, 2, 3}}, b \in {{}, {2}}, p \in {0, 1}, t \in BOOLEAN}

\* Something unreadable or out of reach, over every way to ask.
Shapes == {E4({1}, {2}, {3}, {}), E4({1, 2}, {3}, {3}, {}), E4({1}, {}, {}, {})}
GapCases ==
    {Case([E0 EXCEPT !.whole = (o = {}), !.gc = g],
          [D0 EXCEPT !.memberOf = s, !.primary = 1, !.outside = o, !.untyped = u, !.sidless = i,
                     !.mute = m, !.token = t])
       : g \in BOOLEAN, s \in Shapes, o \in {{}, {0}, {1}, {2}, {3}}, u \in {{}, {1}, {2}}, i \in {{}, {2}, {3}},
         m \in {{}, {0}, {2}}, t \in BOOLEAN}
InputCases ==
    {Case([E0 EXCEPT !.input = i, !.lsa = l, !.ambiguous = a, !.cached = c, !.gc = g, !.whole = (o = {}), !.sidReadable = r,
                     !.changes = (i = "Sid" /\ r)],
          [D0 EXCEPT !.outside = o, !.gone = x])
       : i \in {"Sid", "LsaName", "Upn", "Sam"}, l \in {"names", "fails"}, a \in BOOLEAN, c \in BOOLEAN,
         g \in BOOLEAN, r \in BOOLEAN, o \in {{}, {0}}, x \in {{}, {0}}}

\* Another domain of the same forest: a universal group, or the account itself.
Doms(a, b, c, d) == [E4(a, b, c, d) EXCEPT ![4] = d]
ForestTrusts == {Within("sibling", "home"), Within("home", "sibling")}
SiblingCases ==
    {Case([E0 EXCEPT !.trusts = ForestTrusts, !.gc = g, !.lsa = l, !.root = r],
          [D0 EXCEPT !.memberOf = m, !.dom = Doms(a, "home", "sibling", "home"), !.local = {3}, !.token = t])
       : g \in BOOLEAN, l \in {"names", "fails"}, r \in {"Root", "NotRoot", "RootUnknown"}, a \in {"home", "sibling"},
         t \in BOOLEAN, m \in {E4({1, 2}, {3}, {}, {}), E4({1}, {2}, {3}, {}), E4({2}, {3}, {3}, {})}}

\* Trusted domains: groups 1 and 2 over there, 3 a domain-local group here.
TrustObjects ==
    {[T0 EXCEPT !.forest = f, !.quarantine = q, !.selective = s, !.info = i,
                !.listed = IF f /\ i = "known" THEN {"partner", "child"} ELSE {},
                !.enabled = IF f /\ i = "known" THEN {"partner"} \cup e ELSE {}]
       : f \in BOOLEAN, q \in BOOLEAN, s \in BOOLEAN, i \in {"known", "error"}, e \in {{}, {"child"}}}
TrustCases ==
    {Case([E0 EXCEPT !.trusts = {t}, !.serves = v, !.lsa = l, !.history = h],
          [D0 EXCEPT !.memberOf = m, !.dom = Doms(a, "partner", b, "home"), !.local = {3} \cup x, !.primary = p])
       : t \in {t \in TrustObjects : ~ t.selective}, v \in {"none", "partner", "child", "alien"}, l \in {"names", "fails"},
         h \in {{}, {200, 201}}, a \in {"partner", "child", "alien"}, b \in {"partner", "child"}, x \in {{}, {1}}, p \in {0},
         m \in {E4({1}, {2}, {3}, {}), E4({1, 2}, {}, {3}, {}), E4({2, 3}, {3}, {}, {})}}
HolderCases ==
    {Case([E0 EXCEPT !.trusts = {[T0 EXCEPT !.holder = "sibling", !.forest = f]} \cup ForestTrusts, !.root = r,
                     !.gc = g, !.lsa = "fails", !.serves = v, !.whole = w],
          [D0 EXCEPT !.memberOf = E4({3}, {}, {}, {}), !.dom = Doms(a, "home", "home", "home"), !.local = {3}, !.gone = x])
       : f \in BOOLEAN, r \in {"Root", "NotRoot", "RootUnknown"}, g \in BOOLEAN, v \in {"none", "partner"},
         w \in BOOLEAN, a \in {"partner", "alien"}, x \in {{}, {0}}}
ChangingTrustCases ==
    {Case([E0 EXCEPT !.trusts = {T0}, !.serves = "partner", !.changes = TRUE],
          [D0 EXCEPT !.memberOf = E4({1}, {2}, {3}, {}), !.dom = Doms("partner", "partner", "partner", "home"),
                     !.local = {3}, !.outside = o, !.token = t])
       : t \in BOOLEAN, o \in {{}, {0}, {2}}}

\* Selective Authentication: every DACL of two ACEs.
Aces == {[who |-> w, allow |-> b] : w \in {0, 2, 3, EveryoneNode, BuiltinNode, LogonNode, OtherOrgNode}, b \in BOOLEAN}
Descriptors == {[dacl |-> "unreadable", aces |-> <<>>], [dacl |-> "null", aces |-> <<>>]}
               \cup {[dacl |-> "list", aces |-> s] : s \in {<<>>} \cup {<<x>> : x \in Aces} \cup {<<x, y>> : x \in Aces, y \in Aces}}
SelectiveCases ==
    {Case([E0 EXCEPT !.trusts = {[T0 EXCEPT !.selective = TRUE]}, !.serves = "partner", !.sd = s],
          [D0 EXCEPT !.memberOf = E4({1}, {2}, {3}, {}), !.dom = Doms("partner", "partner", "partner", "home"), !.local = l])
       : s \in Descriptors, l \in {{3}, {2, 3}}}

\* Without a directory: an account of the target server, or of the domain.
ServerCases ==
    {Case([E0 EXCEPT !.ldap = FALSE, !.front = f, !.lsa = l],
          [D0 EXCEPT !.memberOf = E4({1, 2}, {}, {}, {}), !.primary = p, !.dom = [n \in Node |-> d]])
       : f \in {"Cli", "Gui"}, l \in {"names", "fails"}, p \in {0, 1, 3}, d \in {"server", "home"}}

\* The trusted-domain connection leads to another domain of the own forest, or the configured
\* base is a part of its domain.
ForestConnectionCases == {Case([c.env EXCEPT !.serves = "sibling"], c.dir) : c \in SiblingCases}
PartOfDomainCases ==
    {Case([c.env EXCEPT !.whole = FALSE], c.dir) : c \in {c \in ChangingTrustCases : c.dir.outside = {}}}

\* A distribution group, and a group outside the configured base.
PartOfBaseCases ==
    {Case([E0 EXCEPT !.whole = FALSE],
          [D0 EXCEPT !.memberOf = g, !.primary = p, !.outside = {o}, !.security = Group \ {x}, !.token = t])
       : g \in {E4(a, b, c, d) : a \in {{1}, {2}, {1, 2}}, b \in {{}, {2}}, c \in {{3}, {1, 3}}, d \in {{}, {1}, {4}}},
         p \in {0, 4}, o \in {1, 3}, x \in {1, 2}, t \in BOOLEAN}

MCUnseenCases == ForestConnectionCases \cup PartOfDomainCases
MCCases == RouteCases \cup SizeCases \cup ChangeCases \cup GapCases \cup InputCases \cup SiblingCases \cup TrustCases
           \cup HolderCases \cup ChangingTrustCases \cup SelectiveCases \cup ServerCases \cup MCUnseenCases
           \cup PartOfBaseCases
=============================================================================
