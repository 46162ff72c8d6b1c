----------------------------- MODULE RiskRules -----------------------------
(***************************************************************************)
(* The risk rules (risk_engine/src/rules.rs) over results.  A finding is   *)
(* [rule, of, sure, incomplete]: sure when it is worded as a fact ("has",  *)
(* "can"), of the index of the result in the scan.                         *)
(***************************************************************************)
EXTENDS Results

\* AuditedRight::of: rules judge the upper bound, and state a fact only for an exact result.
\* Mutant: rules judge the shown right.
AuditedRight_shown(p) == [mask |-> p.effective, sure |-> effective_determinable(p)]
AuditedRight(p) == [mask |-> effective_upper_bound(p), sure |-> effective_determinable(p)]

ContentWriteBits == {"WRITE_DATA", "APPEND_DATA"}
BroadSids        == {50}      \* Everyone, Authenticated Users, Anonymous Logon, NETWORK

Finding(rule, p, sure) == [rule |-> rule, of |-> p.at, sure |-> sure, incomplete |-> is_incomplete(p)]
When(cond, f) == IF cond THEN <<f>> ELSE <<>>

FullControlRule(p) ==
    LET a == AuditedRight(p) IN When(Full \subseteq a.mask, Finding("FULL_CONTROL", p, a.sure))

WriteAccessRule(p) ==
    LET a    == AuditedRight(p)
        full == Full \subseteq a.mask
        high == Modify \subseteq a.mask \/ Write \subseteq a.mask
    IN When(~ full /\ high, Finding("WRITE_ACCESS", p, a.sure))
       \o When(~ full /\ ~ high /\ a.mask \cap ContentWriteBits # {}, Finding("PARTIAL_WRITE", p, a.sure))

AdminRights == <<<<"WRITE_DAC", "PERMISSION_CHANGE">>, <<"WRITE_OWNER", "OWNER_CHANGE">>,
                 <<"DELETE", "DELETE_RIGHT">>, <<"DELETE_CHILD", "DELETE_CHILD_RIGHT">>>>
AdminRightsRule(p) ==
    LET a == AuditedRight(p)
        One(i) == When(AdminRights[i][1] \in a.mask, Finding(AdminRights[i][2], p, a.sure))
    IN IF Full \subseteq a.mask THEN <<>> ELSE One(1) \o One(2) \o One(3) \o One(4)

\* A broad group's Allow ACE gave bits that are still in the audited right.
BroadGroupWriteRule(p) ==
    LET a == AuditedRight(p) IN
    When(\E c \in p.contributing : c.id \in BroadSids /\ c.mask \cap a.mask \cap ContentWriteBits # {},
         Finding("BROAD_GROUP_WRITE", p, a.sure))

\* The ACE itself is the finding, whatever it grants or denies.
DirectUserAceRule(p) ==
    When(p.kind \in {"User", "Computer"} /\ \E a \in p.matched : ~ a.inherited /\ a.id = 0,
         Finding("DIRECT_USER_ACE", p, TRUE))

SensitivePathRule(p) ==
    LET a == AuditedRight(p) IN When(a.mask # {} /\ p.sensitive, Finding("SENSITIVE_PATH", p, a.sure))

\* with_defaults: the rules in their order.
Rules == 1..6
RuleIds == <<{"FULL_CONTROL"}, {"WRITE_ACCESS", "PARTIAL_WRITE"},
             {"PERMISSION_CHANGE", "OWNER_CHANGE", "DELETE_RIGHT", "DELETE_CHILD_RIGHT"},
             {"BROAD_GROUP_WRITE"}, {"DIRECT_USER_ACE"}, {"SENSITIVE_PATH"}>>
Evaluate(rule, p) == CASE rule = 1 -> FullControlRule(p)   [] rule = 2 -> WriteAccessRule(p)
                       [] rule = 3 -> AdminRightsRule(p)   [] rule = 4 -> BroadGroupWriteRule(p)
                       [] rule = 5 -> DirectUserAceRule(p) [] OTHER -> SensitivePathRule(p)

\* evaluate_all: rule by rule over all results.
evaluate_all(perms) == FlattenSeq([r \in Rules |-> FlattenSeq([i \in DOMAIN perms |-> Evaluate(r, perms[i])])])

\* RiskAccumulator: one result at a time, one list per rule.
accumulator == [r \in Rules |-> <<>>]
\* Mutant: a result's findings go into one list.
add_in_turn(acc, p) == [acc EXCEPT ![1] = @ \o FlattenSeq([r \in Rules |-> Evaluate(r, p)])]
add(acc, p) == [r \in Rules |-> acc[r] \o Evaluate(r, p)]
finish(acc) == FlattenSeq(acc)
=============================================================================
