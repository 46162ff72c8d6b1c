----------------------------- MODULE ResultProofs -----------------------------
(***************************************************************************)
(* What a finished result promises: its explanation is exact, an exact     *)
(* result is the access Windows gives, and its upper bound is never        *)
(* exceeded, share and logon included.                                     *)
(***************************************************************************)
EXTENDS AccessCheckProofs, Explanation, NaturalsInduction, WellFoundedInduction

AfterShare == {"ntfs", "combine", "done"} \cup NtfsWalks

\* A walk is as complete after a step as before it when its position stayed.
LEMMA CompletenessKept ==
    ASSUME in' = in, lg' = lg, NEW v, pos[v]' = pos[v]
    PROVE  Complete(v)' <=> Complete(v)
<1>1. Dacl(v)' = Dacl(v)
  BY MatchUnchanged
<1> QED
  BY <1>1 DEF Complete

\* Once the share stage is over, nothing touches its outcome.
LEMMA ShareSettled ==
    ASSUME ShareInv, in' = in, lg' = lg, share' = share, pc \in AfterShare, pc' \in AfterShare,
           \A v \in ShareWalks : pos[v]' = pos[v] /\ granted[v]' = granted[v]
    PROVE  ShareInv'
<1>1. \A v \in ShareWalks : Complete(v)' <=> Complete(v)
  BY CompletenessKept
<1>2. share_uncertain' = share_uncertain
  BY MatchUnchanged
<1>3. pc' \notin ShareWalks /\ pc' \notin {"shareMax", "shareMin"}
  BY DEF AfterShare, NtfsWalks, ShareWalks
<1> QED
  BY <1>1, <1>2, <1>3 DEF ShareInv, AfterShare, ShareWalks

\* The share stage: a readable ACL is walked once, or three times where a trustee is
\* uncertain, before the NTFS evaluation starts.
LEMMA ShareStep == TypeOK /\ EvaluationInv /\ ShareInv /\ [Next]_vars => ShareInv'
<1> SUFFICES ASSUME TypeOK, EvaluationInv, ShareInv, [Next]_vars PROVE ShareInv'
  OBVIOUS
<1>1. CASE CollectLocalGroups
  BY <1>1 DEF CollectLocalGroups, ShareInv, ShareWalks, NtfsWalks
<1>2. CASE ResolveShare
  BY <1>2 DEF ResolveShare, ShareInv, ShareWalks, NtfsWalks
<1>3. ASSUME NEW w \in Walks, WalkAce(w) PROVE ShareInv'
  <2>1. in' = in /\ lg' = lg /\ pc' = pc /\ pc = w /\ share' = share
    BY <1>3 DEF WalkAce
  <2>2. \A v \in Walks \ {w} : pos[v]' = pos[v] /\ granted[v]' = granted[v]
    BY <1>3 DEF WalkAce, TypeOK
  <2>3. CASE w \in NtfsWalks
    <3>1. \A v \in ShareWalks : v \in Walks \ {w}
      BY <2>3 DEF Walks, ShareWalks, NtfsWalks
    <3> QED
      BY <2>1, <2>2, <2>3, <3>1, ShareSettled DEF AfterShare
  <2>4. CASE w \in ShareWalks
    <3>1. \A v \in Walks \ {w} : Complete(v)' <=> Complete(v)
      BY <2>1, <2>2, CompletenessKept
    <3> QED
      BY <2>1, <2>4, <3>1 DEF ShareInv, Walks, ShareWalks, NtfsWalks
  <2> QED
    BY <2>3, <2>4 DEF Walks
<1>4. CASE ShareShownDone \/ ShareMaxDone \/ ShareMinDone
  <2>1. in' = in /\ lg' = lg /\ pos' = pos /\ granted' = granted
    BY <1>4 DEF ShareShownDone, ShareMaxDone, ShareMinDone, walkVars
  <2>2. \A v : Complete(v)' <=> Complete(v)
    BY <2>1, CompletenessKept
  <2>3. share_uncertain' = share_uncertain
    BY <2>1, MatchUnchanged
  <2>4. \A v \in ShareWalks : WalkFinished(v) => Complete(v)
    BY FinishedComplete DEF EvaluationInv, Walks
  <2>5. in.share.kind = "Acl"
    BY <1>4 DEF ShareShownDone, ShareMaxDone, ShareMinDone, WalkFinished, ShareInv, ShareWalks
  <2>6. CASE ShareShownDone
    <3>1. Complete("shareShown")
      BY <2>4, <2>6 DEF ShareShownDone, ShareWalks
    <3>2. \/ /\ share_uncertain = {} /\ pc' = "ntfs"
             /\ share' = [status |-> "Applied", unevaluated |-> in.share.unsupported]
          \/ pc' = "shareMax"
      BY <2>6 DEF ShareShownDone
    <3> QED
      BY <2>1, <2>2, <2>3, <2>5, <3>1, <3>2 DEF ShareInv, ShareWalks, NtfsWalks
  <2>7. CASE ShareMaxDone
    <3>1. Complete("shareMax") /\ Complete("shareShown") /\ pc' = "shareMin"
      BY <2>4, <2>7 DEF ShareMaxDone, ShareWalks, WalkFinished, ShareInv
    <3> QED
      BY <2>1, <2>2, <2>5, <3>1 DEF ShareInv, ShareWalks, NtfsWalks
  <2>8. CASE ShareMinDone
    <3>1. Complete("shareMin") /\ Complete("shareMax") /\ Complete("shareShown") /\ pc' = "ntfs"
      BY <2>4, <2>8 DEF ShareMinDone, ShareWalks, WalkFinished, ShareInv
    <3>2. share' = [status      |-> "Applied",
                    unevaluated |-> in.share.unsupported \/ granted["shareMax"] # granted["shareMin"]]
      BY <2>8 DEF ShareMinDone
    <3> QED
      BY <2>1, <2>2, <2>5, <3>1, <3>2 DEF ShareInv, ShareWalks, NtfsWalks
  <2> QED
    BY <1>4, <2>6, <2>7, <2>8
<1>5. CASE StartNtfs
  <2>1. \A v \in ShareWalks : granted[v]' = granted[v]
    BY <1>5 DEF StartNtfs, TypeOK, Walks, ShareWalks, NtfsWalks
  <2> QED
    BY <1>5, <2>1, ShareSettled DEF StartNtfs, AfterShare, NtfsWalks
<1>6. CASE NtfsShownDone \/ NtfsMaxDone \/ NtfsMinDone \/ Combine
  BY <1>6, ShareSettled DEF NtfsShownDone, NtfsMaxDone, NtfsMinDone, Combine, WalkFinished, walkVars,
                            AfterShare, NtfsWalks
<1>7. CASE Finished \/ UNCHANGED vars
  <2>1. in' = in /\ lg' = lg /\ pos' = pos /\ granted' = granted /\ share' = share /\ pc' = pc
    BY <1>7 DEF Finished, vars
  <2>2. (\A v : Complete(v)' <=> Complete(v)) /\ share_uncertain' = share_uncertain
    BY <2>1, CompletenessKept, MatchUnchanged
  <2> QED
    BY <2>1, <2>2 DEF ShareInv
<1> QED
  BY <1>1, <1>2, <1>3, <1>4, <1>5, <1>6, <1>7 DEF Next

----------------------------------------------------------------------------
\* The first decision per bit depends on the request and the local groups only.
LEMMA FirstDecisionUnchanged ==
    ASSUME in' = in, lg' = lg
    PROVE  \A i : FirstDecidedBy(i)' = FirstDecidedBy(i)
<1>1. \A w, ace : Applies(w, ace)' <=> Applies(w, ace)
  BY MatchUnchanged
<1> QED
  BY <1>1 DEF FirstDecidedBy

\* What ACE n of the shown walk newly decides is what it decides first.
LEMMA NewBitsAreFirst ==
    ASSUME TypeOK, WalkInv("ntfsShown"), ~ in.nullDacl, pos["ntfsShown"] <= Len(in.dacl)
    PROVE  NewBits("ntfsShown", in.dacl[pos["ntfsShown"]]) = FirstDecidedBy(pos["ntfsShown"])
<1> DEFINE w == "ntfsShown"
           n == pos[w]
<1>1. w \in Walks /\ Dacl(w) = in.dacl /\ Walked(w)
  BY DEF Walks, NtfsWalks, ShareWalks, Dacl, Walked
<1>2. n \in Nat \ {0} /\ in.dacl[n] \in Ace
  BY <1>1, AceTyped DEF TypeOK
<1>3. \A r \in Rights : r \in granted[w] \cup denied[w] <=> \E k \in 1 .. n - 1 : Decides(w, k, r)
  BY <1>1 DEF WalkInv, AllowsAt, DeniesAt
<1>4. \A r : r \in NewBits(w, in.dacl[n]) <=>
         Decides(w, n, r) /\ r \in Rights /\ r \notin granted[w] \cup denied[w]
  <2>1. expand_generic_rights(in.dacl[n].mask) \subseteq Rights
    BY <1>2, ExpandTyped DEF Ace
  <2> QED
    BY <1>1, <2>1 DEF NewBits, Decides
<1>5. \A r : r \in FirstDecidedBy(n) <=>
         r \in Rights /\ Decides(w, n, r) /\ \A k \in 1 .. n - 1 : ~ Decides(w, k, r)
  BY <1>1 DEF FirstDecidedBy, Decides
<1> QED
  BY <1>3, <1>4, <1>5

\* The shown walk explains itself as it goes: one ACE more, its first decisions more.
LEMMA ProvenanceStep ==
    TypeOK /\ EvaluationInv /\ ProvenanceInv /\ [Next]_vars => ProvenanceInv'
<1> SUFFICES ASSUME TypeOK, EvaluationInv, ProvenanceInv, [Next]_vars, ~ in'.nullDacl
             PROVE  ProvenanceInv'
  BY DEF ProvenanceInv
<1>0. in' = in /\ ~ in.nullDacl
  <2>1. in' = in
    BY DEF Next, vars, CollectLocalGroups, ResolveShare, WalkAce, ShareShownDone, ShareMaxDone,
           ShareMinDone, StartNtfs, NtfsShownDone, NtfsMaxDone, NtfsMinDone, Combine, Finished
  <2> QED
    BY <2>1
<1> DEFINE w == "ntfsShown"
           n == pos[w]
<1>t. w \in Walks /\ Dacl(w) = in.dacl /\ n \in Nat \ {0} /\ DOMAIN in.dacl \subseteq Nat
  BY DEF Walks, NtfsWalks, ShareWalks, Dacl, TypeOK, IsInput
<1>1. CASE CollectLocalGroups
  <2>1. n = 1 /\ granted[w] = {}
    BY <1>1, <1>t DEF CollectLocalGroups, EvaluationInv, StageInv
  <2>2. UNCHANGED <<pos, granted, decided, contributions>>
    BY <1>1 DEF CollectLocalGroups, walkVars
  <2>3. \A i \in DOMAIN in.dacl : ~ (i < n)
    BY <2>1, <1>t DEF TypeOK, IsInput
  <2>4. (\A i \in DOMAIN in.dacl : decided[i] = {}) /\ \A s \in Sid : contributions[s] = {}
    BY <1>0, <2>3 DEF ProvenanceInv
  <2> QED
    BY <1>0, <2>1, <2>2, <2>3, <2>4 DEF ProvenanceInv
<1>2. ASSUME lg' = lg, UNCHANGED <<decided, contributions>>, pos[w]' = n, granted[w]' = granted[w]
      PROVE  ProvenanceInv'
  <2>1. \A i : FirstDecidedBy(i)' = FirstDecidedBy(i)
    BY <1>0, <1>2, FirstDecisionUnchanged
  <2> QED
    BY <1>0, <1>2, <2>1 DEF ProvenanceInv
<1>3. ASSUME NEW v \in Walks \ {w}, WalkAce(v) PROVE ProvenanceInv'
  BY <1>2, <1>3, <1>t DEF WalkAce, TypeOK
<1>4. CASE WalkAce(w)
  <2> DEFINE ace  == in.dacl[n]
             bits == FirstDecidedBy(n)
  <2>1. lg' = lg /\ n <= Len(in.dacl) /\ pos[w]' = n + 1
    BY <1>4, <1>t DEF WalkAce, TypeOK
  <2>2. NewBits(w, ace) = bits
    BY <1>0, <1>t, <2>1, NewBitsAreFirst DEF EvaluationInv
  <2>3. /\ granted[w]' = IF ace.kind = "Allow" THEN granted[w] \cup bits ELSE granted[w]
        /\ decided' = [decided EXCEPT ![n] = bits]
        /\ contributions' = IF ace.kind = "Allow"
                            THEN [contributions EXCEPT ![ace.sid] = @ \cup bits] ELSE contributions
    BY <1>4, <1>t, <2>2 DEF WalkAce, TypeOK
  <2>4. \A i : FirstDecidedBy(i)' = FirstDecidedBy(i)
    BY <1>0, <2>1, FirstDecisionUnchanged
  <2>5. ace.sid \in Sid /\ n \in DOMAIN in.dacl
    BY <1>t, <2>1, AceTyped DEF TypeOK, Ace
  <2>6. bits \subseteq Rights
    BY DEF FirstDecidedBy
  <2>7. \A i \in DOMAIN in.dacl : i < n + 1 <=> i < n \/ i = n
    BY <1>t
  <2> HIDE DEF bits
  <2>8. \A i \in DOMAIN in.dacl :
           decided'[i] = IF i < n + 1 THEN FirstDecidedBy(i) ELSE {}
    <3>1. decided[n] = {} /\ \A i \in DOMAIN in.dacl : decided[i] = IF i < n THEN FirstDecidedBy(i) ELSE {}
      BY <1>0, <1>t, <2>5 DEF ProvenanceInv
    <3> QED
      BY <1>t, <2>3, <2>5, <2>7, <3>1 DEF TypeOK, bits
  <2>9. ASSUME NEW s \in Sid
        PROVE  contributions'[s] =
                 {r \in Rights : \E i \in DOMAIN in.dacl :
                    /\ i < n + 1 /\ in.dacl[i].kind = "Allow" /\ in.dacl[i].sid = s
                    /\ r \in FirstDecidedBy(i)}
    <3>1. contributions[s] =
                 {r \in Rights : \E i \in DOMAIN in.dacl :
                    /\ i < n /\ in.dacl[i].kind = "Allow" /\ in.dacl[i].sid = s
                    /\ r \in FirstDecidedBy(i)}
      BY <1>0 DEF ProvenanceInv
    <3>2. contributions'[s] = IF ace.kind = "Allow" /\ ace.sid = s
                              THEN contributions[s] \cup bits ELSE contributions[s]
      BY <2>3, <2>5 DEF TypeOK
    <3> QED
      BY <2>5, <2>6, <2>7, <3>1, <3>2 DEF bits
  <2>10. granted[w]' = UNION {contributions'[s] : s \in Sid}
    <3>1. granted[w] = UNION {contributions[s] : s \in Sid}
      BY <1>0 DEF ProvenanceInv
    <3>2. \A s \in Sid : contributions'[s] = IF ace.kind = "Allow" /\ ace.sid = s
                              THEN contributions[s] \cup bits ELSE contributions[s]
      BY <2>3, <2>5 DEF TypeOK
    <3>3. \A r : r \in granted[w]' <=> r \in granted[w] \/ (ace.kind = "Allow" /\ r \in bits)
      BY <2>3
    <3> HIDE DEF ace
    <3>4. \A r : r \in granted[w]' <=> \E s \in Sid : r \in contributions'[s]
      <4>1. \A r : r \in granted[w] <=> \E s \in Sid : r \in contributions[s]
        BY <3>1
      <4>2. CASE ace.kind = "Allow"
        BY <2>5, <3>2, <3>3, <4>1, <4>2
      <4>3. CASE ace.kind # "Allow"
        BY <3>2, <3>3, <4>1, <4>3
      <4> QED
        BY <4>2, <4>3
    <3> QED
      BY <3>4
  <2> QED
    BY <1>0, <2>1, <2>4, <2>8, <2>9, <2>10 DEF ProvenanceInv
<1>5. CASE \/ ResolveShare \/ ShareShownDone \/ ShareMaxDone \/ ShareMinDone
           \/ NtfsShownDone \/ NtfsMaxDone \/ NtfsMinDone \/ Combine \/ Finished \/ UNCHANGED vars
  BY <1>2, <1>5 DEF ResolveShare, ShareShownDone, ShareMaxDone, ShareMinDone, NtfsShownDone,
                    NtfsMaxDone, NtfsMinDone, Combine, Finished, vars, walkVars
<1>6. CASE StartNtfs
  BY <1>0, <1>2, <1>6 DEF StartNtfs
<1> QED
  BY <1>1, <1>3, <1>4, <1>5, <1>6 DEF Next

----------------------------------------------------------------------------
\* The combined result is a function of the two evaluations.
LEMMA CombinedUnchanged ==
    ASSUME in' = in, lg' = lg, granted' = granted, denied' = denied, share' = share, bounds' = bounds
    PROVE  CombinedResult' = CombinedResult
<1>1. owner_implicit_bits' = owner_implicit_bits
  BY MatchUnchanged
<1>2. PermissionUncertainty' = PermissionUncertainty
  BY DEF PermissionUncertainty
<1>3. \A n, e, u : effective_upper_bound(n, e, u)' = effective_upper_bound(n, e, u)
  BY DEF effective_upper_bound
<1>4. \A n, e, u : synchronize_gap(n, e, u)' = synchronize_gap(n, e, u)
  BY <1>3 DEF synchronize_gap
<1> QED
  BY <1>1, <1>2, <1>3, <1>4 DEF CombinedResult

\* The strengthening the results below rest on.
LEMMA ResultInvariant == Spec => [](TypeOK /\ EvaluationInv /\ ResultInv)
<1>1. Init => ResultInv
  <2> SUFFICES ASSUME Init PROVE ResultInv
    OBVIOUS
  <2>1. IsInput(in)
    BY InputsAssumption DEF Init
  <2>2. pc = "local" /\ pos["ntfsShown"] = 1 /\ granted["ntfsShown"] = {}
    BY DEF Init, Walks, NtfsWalks
  <2>3. \A i \in DOMAIN in.dacl : ~ (i < 1)
    BY <2>1 DEF IsInput
  <2>4. (\A i \in DOMAIN in.dacl : decided[i] = {}) /\ \A s \in Sid : contributions[s] = {}
    BY DEF Init
  <2>5. ProvenanceInv
    BY <2>2, <2>3, <2>4 DEF ProvenanceInv
  <2>6. ShareInv
    BY <2>2 DEF ShareInv, ShareWalks, NtfsWalks
  <2> QED
    BY <2>2, <2>5, <2>6 DEF ResultInv
<1>2. TypeOK /\ EvaluationInv /\ ResultInv /\ [Next]_vars => ResultInv'
  <2> SUFFICES ASSUME TypeOK, EvaluationInv, ResultInv, [Next]_vars PROVE ResultInv'
    OBVIOUS
  <2>1. ShareInv' /\ ProvenanceInv'
    BY ShareStep, ProvenanceStep DEF ResultInv
  <2>2. ASSUME pc' = "done" PROVE result' = CombinedResult'
    <3>1. CASE Combine
      BY <3>1, CombinedUnchanged DEF Combine, walkVars
    <3>2. CASE Finished \/ UNCHANGED vars
      BY <2>2, <3>2, CombinedUnchanged DEF Finished, vars, ResultInv
    <3>3. ASSUME NEW w \in Walks, WalkAce(w) PROVE FALSE
      BY <2>2, <3>3 DEF WalkAce, Walks, ShareWalks, NtfsWalks
    <3> QED
      BY <2>2, <3>1, <3>2, <3>3 DEF Next, CollectLocalGroups, ResolveShare, ShareShownDone, ShareMaxDone,
         ShareMinDone, StartNtfs, NtfsShownDone, NtfsMaxDone, NtfsMinDone
  <2> QED
    BY <2>1, <2>2 DEF ResultInv
<1> QED
  BY <1>1, <1>2, EvaluationInvariant, PTL DEF Spec

\* At the end of the shown walk every ACE is explained.
LEMMA ProvenanceExact == TypeOK /\ EvaluationInv /\ ResultInv => ProvenanceIsExact
<1> SUFFICES ASSUME TypeOK, EvaluationInv, ProvenanceInv, pc \in {"combine", "done"}, ~ in.nullDacl
             PROVE  /\ \A i \in DOMAIN in.dacl : decided[i] = FirstDecidedBy(i)
                    /\ \A s \in Sid : contributions[s] =
                           UNION {FirstDecidedBy(i) : i \in {j \in DOMAIN in.dacl :
                                            in.dacl[j].kind = "Allow" /\ in.dacl[j].sid = s}}
                    /\ granted["ntfsShown"] = UNION {contributions[s] : s \in Sid}
  BY DEF ProvenanceIsExact, ResultInv
<1>1. Complete("ntfsShown") /\ Dacl("ntfsShown") = in.dacl
  BY DEF EvaluationInv, StageInv, Dacl, ShareWalks
<1>2. \A i \in DOMAIN in.dacl : i < pos["ntfsShown"]
  BY <1>1 DEF Complete, TypeOK, IsInput
<1>3. \A i : FirstDecidedBy(i) \subseteq Rights
  BY DEF FirstDecidedBy
<1>4. ASSUME NEW s \in Sid
      PROVE  contributions[s] = UNION {FirstDecidedBy(i) : i \in {j \in DOMAIN in.dacl :
                                            in.dacl[j].kind = "Allow" /\ in.dacl[j].sid = s}}
  <2>1. contributions[s] = {r \in Rights : \E i \in DOMAIN in.dacl :
           /\ i < pos["ntfsShown"] /\ in.dacl[i].kind = "Allow" /\ in.dacl[i].sid = s
           /\ r \in FirstDecidedBy(i)}
    BY DEF ProvenanceInv
  <2> QED
    BY <1>2, <1>3, <2>1
<1> QED
  BY <1>2, <1>4 DEF ProvenanceInv

\* walk_dacl_stored_order, for every DACL: each decided bit is attributed to the one ACE
\* that decided it first and to that ACE's trustee, and the parts add up to the mask.
THEOREM ProvenanceIsExactAlways == Spec => []ProvenanceIsExact
  BY ProvenanceExact, ResultInvariant, PTL

----------------------------------------------------------------------------
\* The token of the share evaluation holds no SID the NTFS one does not.
LEMMA ShareTokenSmaller == share_token.enabled \subseteq user_sids
<1>1. ShareEnabledGroups \subseteq TokenGroups
  BY DEF ShareEnabledGroups, TokenGroups
<1>2. PolicyDecidesEveryone /\ lg.anonymous_everyone = "True" => Everyone \in TokenGroups
  BY DEF PolicyDecidesEveryone, TokenGroups, anonymous_gets_everyone
<1>3. Everyone # CryptographicOperators
  BY DEF Everyone, CryptographicOperators
<1> QED
  BY <1>1, <1>2, <1>3 DEF share_token, user_sids

\* Every SID of a possible token is enabled for the share, or in doubt there, or filtered.
LEMMA ShareForgetsNothing ==
    ASSUME IsInput(in), lg = collect_local_groups_on(in), TokenKnown, NEW w \in PossibleWorlds
    PROVE  \A s \in RealToken(w) :
               \/ s \in share_token.enabled
               \/ s \in share_token.uncertain
               \/ is_logon_dependent_for(s, in.context, share_token.enabled)
               \/ s \in deny_only_sids
<1> SUFFICES ASSUME NEW s \in RealToken(w), s \notin share_token.enabled, s \notin deny_only_sids
             PROVE  \/ s \in share_token.uncertain
                    \/ is_logon_dependent_for(s, in.context, share_token.enabled)
  OBVIOUS
<1> DEFINE build == build_token_sids_with_context(in.user, in.history, in.memberships, lg.sids, in.context)
<1>1. /\ lg.sids \cup lg.logon_dependent \subseteq {g.sid : g \in in.table.groups}
      /\ lg.anonymous_everyone = IF in.user = AnonymousLogon
                                 THEN anonymous_everyone(in.anonymousPolicy) ELSE "None"
  BY LocalGroupsCollected DEF TokenKnown, collect_local_groups_on, expand_local_groups_with
<1>2. Everyone \notin lg.sids \cup lg.logon_dependent /\ CryptographicOperators # Everyone
  BY <1>1 DEF IsInput, WellKnowns, Everyone, CryptographicOperators
<1>3. in.user = AnonymousLogon => Everyone \notin build
  BY <1>2 DEF build_token_sids_with_context, IsInput, identity_uncertain_well_knowns, ContextWellKnowns,
              Everyone, AnonymousLogon, NetworkLogon, InteractiveLogon
<1>4. CASE s \in TokenGroups
  <2>1. CASE s = Everyone /\ in.user = AnonymousLogon
    BY <1>3, <1>4, <2>1 DEF TokenGroups, anonymous_gets_everyone, share_token, PolicyDecidesEveryone
  <2>2. CASE ~ (s = Everyone /\ in.user = AnonymousLogon)
    <3>1. s \in build \ lg.uac_filtered
      BY <1>4, <2>2 DEF TokenGroups, anonymous_gets_everyone
    <3>2. s \in ShareUncertainGroups \/ s \in ShareEnabledGroups
      BY <3>1 DEF ShareEnabledGroups
    <3> QED
      BY <2>2, <3>2 DEF share_token, PolicyDecidesEveryone
  <2> QED
    BY <2>1, <2>2
<1>5. CASE s \notin TokenGroups
  <2>1. \/ s \in lg.logon_dependent
        \/ s \in uncertain_well_knowns_with(in.user, lg.anonymous_everyone)
        \/ is_logon_dependent_for(s, in.context, user_sids)
    BY <1>5, NothingForgotten DEF logon_dependent_groups, crypto_operators_uncertain, user_sids
  <2>2. CASE s \in lg.logon_dependent
    BY <1>2, <2>2 DEF share_token, ShareUncertainGroups, deny_only_sids
  <2>3. CASE s \in uncertain_well_knowns_with(in.user, lg.anonymous_everyone)
    BY <2>3 DEF uncertain_well_knowns_with, share_token, ShareUncertainGroups, PolicyDecidesEveryone,
                identity_uncertain_well_knowns
  <2>4. CASE is_logon_dependent_for(s, in.context, user_sids)
    BY <2>4, ShareTokenSmaller DEF is_logon_dependent_for
  <2> QED
    BY <2>1, <2>2, <2>3, <2>4
<1> QED
  BY <1>4, <1>5

\* Share ACEs carry no inheritance flags and form a sequence.
LEMMA ShareAclIsSequence ==
    ASSUME IsInput(in)
    PROVE  \A k \in DOMAIN in.share.aces : 1 .. k - 1 \subseteq DOMAIN in.share.aces
  BY DEF IsInput

\* The match sets of the share walks enclose those of every possible token.
LEMMA ShareMatchesEnclose ==
    ASSUME IsInput(in), lg = collect_local_groups_on(in), TokenKnown, NEW w \in PossibleWorlds
    PROVE  /\ share_token.enabled \subseteq RealEnabled(w)
           /\ share_token.enabled \cup deny_only_sids \subseteq RealEnabled(w) \cup RealDenyOnly(w)
           /\ \A k \in DOMAIN in.share.aces :
                /\ in.share.aces[k].kind = "Allow" /\ in.share.aces[k].sid \in RealEnabled(w) =>
                       in.share.aces[k].sid \in share_token.enabled \cup share_uncertain
                /\ in.share.aces[k].kind = "Deny"
                     /\ in.share.aces[k].sid \in RealEnabled(w) \cup RealDenyOnly(w) =>
                       in.share.aces[k].sid \in share_token.enabled \cup deny_only_sids \cup share_uncertain
<1>1. share_token.enabled \subseteq RealEnabled(w)
  BY EnabledForSure, ShareTokenSmaller
<1>2. share_token.enabled \cup deny_only_sids \subseteq RealEnabled(w) \cup RealDenyOnly(w)
  BY <1>1, DenyOnlyForSure
<1>3. RealDenyOnly(w) \subseteq RealToken(w) /\ RealEnabled(w) \subseteq RealToken(w)
  BY DenyOnlyInToken DEF RealEnabled
<1>4. ASSUME NEW k \in DOMAIN in.share.aces, in.share.aces[k].sid \in RealToken(w),
             in.share.aces[k].sid \notin share_token.enabled \cup share_uncertain
      PROVE  /\ in.share.aces[k].sid \in deny_only_sids
             /\ in.share.aces[k].kind = "Allow" => in.share.aces[k].sid \notin RealEnabled(w)
  <2>1. ~ UncertainShareAce(in.share.aces[k])
    BY <1>4 DEF share_uncertain
  <2>2. in.share.aces[k].sid \in deny_only_sids
    BY <1>4, <2>1, ShareForgetsNothing DEF UncertainShareAce
  <2>3. in.share.aces[k].kind = "Allow" => uac_filter_certain
    BY <1>4, <2>1, <2>2 DEF UncertainShareAce
  <2> QED
    BY <2>2, <2>3, DenyOnlyForSure
<1> QED
  BY <1>1, <1>2, <1>3, <1>4

RealShareAcl(w) == Accessible(in.share.aces, RealEnabled(w), RealEnabled(w) \cup RealDenyOnly(w))

\* evaluate_share_dacl: a share ACL that is reported as fully evaluated grants every
\* possible token exactly the mask that is shown.
LEMMA EvaluatedShareIsExact ==
    ASSUME TypeOK, EvaluationInv, ShareInv, pc = "done", TokenKnown, NEW w \in PossibleWorlds,
           in.share.kind = "Acl", ~ share.unevaluated
    PROVE  granted["shareShown"] = RealShareAcl(w)
<1> DEFINE en    == share_token.enabled
           mask == Accessible(in.share.aces, en, en \cup deny_only_sids)
           max == Accessible(in.share.aces, en \cup share_uncertain, en \cup deny_only_sids)
           min == Accessible(in.share.aces, en, en \cup deny_only_sids \cup share_uncertain)
           real == RealShareAcl(w)
<1>1. IsInput(in) /\ lg = collect_local_groups_on(in)
  BY DEF TypeOK, EvaluationInv, StageInv
<1>2. ShareWalks \subseteq Walks /\ \A v \in ShareWalks : Dacl(v) = in.share.aces /\ Walked(v)
  BY DEF Dacl, Walks, ShareWalks, Walked
<1>3. /\ allow_matches("shareShown") = en
      /\ deny_matches("shareShown") = en \cup deny_only_sids
      /\ allow_matches("shareMax") = en \cup share_uncertain
      /\ deny_matches("shareMax") = en \cup deny_only_sids
      /\ allow_matches("shareMin") = en
      /\ deny_matches("shareMin") = en \cup deny_only_sids \cup share_uncertain
  BY DEF allow_matches, deny_matches, Certain, Undecided, ShareWalks
<1>4. \A v \in ShareWalks : Complete(v) =>
         granted[v] = Accessible(in.share.aces, allow_matches(v), deny_matches(v))
  BY <1>2, CompleteWalk DEF EvaluationInv
<1>5. /\ Complete("shareShown")
      /\ \/ share_uncertain = {}
         \/ /\ Complete("shareMax") /\ Complete("shareMin")
            /\ granted["shareMax"] = granted["shareMin"]
  BY DEF ShareInv
<1>6. granted["shareShown"] = mask
  BY <1>3, <1>4, <1>5 DEF ShareWalks
<1>7. min \subseteq real /\ real \subseteq max
  BY <1>1, ShareAclIsSequence, ShareMatchesEnclose, AccessibleMonotone DEF RealShareAcl
<1>8. min \subseteq mask /\ mask \subseteq max
  BY <1>1, ShareAclIsSequence, AccessibleMonotone
<1>9. min = max
  <2>1. CASE share_uncertain = {}
    BY <2>1
  <2>2. CASE Complete("shareMax") /\ Complete("shareMin") /\ granted["shareMax"] = granted["shareMin"]
    BY <1>3, <1>4, <2>2 DEF ShareWalks
  <2> QED
    BY <1>5, <2>1, <2>2
<1> HIDE DEF min, max, mask, real
<1>10. granted["shareShown"] = real
  BY <1>6, <1>7, <1>8, <1>9
<1> QED
  BY <1>10 DEF real

----------------------------------------------------------------------------
\* The pieces a finished result is combined from.
LEMMA ResultParts ==
    ASSUME ResultInv, pc = "done"
    PROVE  LET raw == IF share.status = "Applied" THEN result.ntfs \cap granted["shareShown"]
                                                  ELSE result.ntfs
           IN  /\ result.ntfs = granted["ntfsShown"] \cup owner_implicit_bits
               /\ result.effective = IF in.selectiveAuth = "Denied" THEN {} ELSE raw
               /\ result.uncertainty = PermissionUncertainty
                     \cup (IF in.selectiveAuth = "Unknown" /\ ~ (raw = {} /\ PermissionUncertainty = {})
                           THEN {"Logon"} ELSE {})
               /\ result.upper = effective_upper_bound(result.ntfs, result.effective, result.uncertainty)
               /\ result.synchronizeGap =
                     IF in.selectiveAuth = "Denied" THEN "None"
                     ELSE synchronize_gap(result.ntfs, raw, result.uncertainty)
<1>1. result = CombinedResult
  BY DEF ResultInv
<1>2. result.ntfs = granted["ntfsShown"] \cup owner_implicit_bits
  BY <1>1 DEF CombinedResult
<1> QED
  BY <1>1, <1>2 DEF CombinedResult

\* What each marker of the permission uncertainty says.
LEMMA MarkersTell ==
    ASSUME ResultInv, pc = "done"
    PROVE  /\ "Share" \notin result.uncertainty => share.status # "ReadFailed" /\ ~ share.unevaluated
           /\ "Ntfs" \notin result.uncertainty => ~ in.unsupported /\ ~ bounds.known
           /\ "Token" \notin result.uncertainty <=> TokenKnown
           /\ "Target" \notin result.uncertainty <=> ~ in.dfsOpen
<1>1. \A l \in {"Share", "Ntfs", "Token", "Target"} :
         l \in result.uncertainty <=> l \in PermissionUncertainty
  BY ResultParts
<1> QED
  BY <1>1 DEF PermissionUncertainty, TokenKnown

\* Shares that are not read as an ACL: without a share, or with a NULL DACL, nothing is
\* restricted, and the engine applies no share mask.
LEMMA ShareWithoutMarkerIsExact ==
    ASSUME TypeOK, EvaluationInv, ShareInv, pc = "done", TokenKnown, NEW w \in PossibleWorlds,
           share.status # "ReadFailed", ~ share.unevaluated, NEW s \in RealShares(w)
    PROVE  IF share.status = "Applied" THEN s = granted["shareShown"] ELSE s = Rights
<1>1. /\ in.share.kind \in {"NoContext", "ReadFailed", "NoSecurityDescriptor", "NullDacl", "Acl"}
      /\ in.share.unsupported \in BOOLEAN
  BY DEF TypeOK, IsInput
<1>2. CASE in.share.kind = "Acl"
  <2>1. share.status = "Applied" /\ ~ in.share.unsupported
    BY <1>2 DEF ShareInv
  <2>2. s = RealShareAcl(w)
    BY <1>2, <2>1 DEF RealShares, RealShareAcl
  <2> QED
    BY <1>2, <2>1, <2>2, EvaluatedShareIsExact
<1>3. CASE in.share.kind # "Acl"
  <2> DEFINE b == in.share.kind = "NullDacl" /\ in.share.unsupported
  <2>1. share = [status |-> StatusWithoutAcl[in.share.kind], unevaluated |-> b]
    BY <1>3 DEF ShareInv
  <2>2. share.status = StatusWithoutAcl[in.share.kind] /\ share.unevaluated = b
    BY <2>1
  <2>3. in.share.kind \in {"NoContext", "NullDacl"} /\ share.status # "Applied"
    BY <1>1, <1>3, <2>2 DEF StatusWithoutAcl
  <2>4. ~ (in.share.kind = "NullDacl" /\ in.share.unsupported)
    BY <2>2
  <2> QED
    BY <2>3, <2>4 DEF RealShares
<1> QED
  BY <1>2, <1>3

\* The NTFS rights are specific rights in every world.
LEMMA RealNtfsTyped ==
    ASSUME NEW w PROVE RealNtfs(w) \subseteq Rights
  BY RightsAssumption DEF RealNtfs, Accessible

\* A result without uncertainty is the access of every possible token.
LEMMA ExactResult ==
    ASSUME TypeOK, EvaluationInv, ResultInv, pc = "done", result.uncertainty = {}, OwnerKnown,
           NEW w \in PossibleWorlds, NEW s \in RealShares(w)
    PROVE  RealEffective(w, s) = result.effective
<1>1. /\ share.status # "ReadFailed" /\ ~ share.unevaluated /\ ~ in.unsupported
      /\ ~ bounds.known /\ TokenKnown
  BY MarkersTell
<1>2. RealNtfs(w) = result.ntfs
  BY <1>1, BoundsContain DEF LowerBound, UpperBound
<1>3. IF share.status = "Applied" THEN s = granted["shareShown"] ELSE s = Rights
  BY <1>1, ShareWithoutMarkerIsExact DEF ResultInv
<1> DEFINE raw == IF share.status = "Applied" THEN result.ntfs \cap granted["shareShown"] ELSE result.ntfs
<1>4. RealNtfs(w) \cap s = raw
  BY <1>2, <1>3, RealNtfsTyped
<1>5. /\ in.selectiveAuth \in {"None", "Allowed"} => w.admitted
      /\ in.selectiveAuth = "Denied" => ~ w.admitted
      /\ in.selectiveAuth \in {"None", "Allowed", "Denied", "Unknown"}
  BY DEF PossibleWorlds, Possible, TypeOK, IsInput
<1>6. in.selectiveAuth = "Unknown" => raw = {}
  BY ResultParts
<1>7. result.effective = IF in.selectiveAuth = "Denied" THEN {} ELSE raw
  BY ResultParts
<1> QED
  BY <1>4, <1>5, <1>6, <1>7 DEF RealEffective

\* The upper bound of a result bounds the access of every possible token.
LEMMA UpperBoundSafe ==
    ASSUME TypeOK, EvaluationInv, ResultInv, pc = "done", TokenKnown, ~ in.dfsOpen, OwnerKnown,
           NEW w \in PossibleWorlds, NEW s \in RealShares(w)
    PROVE  RealEffective(w, s) \subseteq result.upper
<1>1. result.upper = effective_upper_bound(result.ntfs, result.effective, result.uncertainty)
  BY ResultParts
<1>2. CASE result.uncertainty = {}
  BY <1>1, <1>2, ExactResult DEF effective_upper_bound
<1>3. CASE result.uncertainty # {}
  <2> DEFINE top == result.ntfs \cup bounds.max
  <2>1. RealNtfs(w) \subseteq top
    BY BoundsContain DEF UpperBound
  <2>2. "Target" \notin result.uncertainty
    BY MarkersTell
  <2>3. CASE share.status = "Applied" /\ "Share" \notin result.uncertainty
    <3>1. s = granted["shareShown"]
      BY <2>3, MarkersTell, ShareWithoutMarkerIsExact DEF ResultInv
    <3>2. top \cap granted["shareShown"] \subseteq result.upper
      BY <1>1, <1>3, <2>2, <2>3 DEF effective_upper_bound
    <3> QED
      BY <2>1, <3>1, <3>2 DEF RealEffective
  <2>4. CASE ~ (share.status = "Applied" /\ "Share" \notin result.uncertainty)
    <3>1. top \subseteq result.upper
      BY <1>1, <1>3, <2>4 DEF effective_upper_bound
    <3> QED
      BY <2>1, <3>1 DEF RealEffective
  <2> QED
    BY <2>3, <2>4
<1> QED
  BY <1>2, <1>3

\* uncertainty(), for every request: a result that carries no uncertainty is exactly the
\* access of the account - NTFS, share and logon - whatever token Windows builds.
THEOREM ExactIsExactAlways == Spec => []ExactIsExact
<1>1. TypeOK /\ EvaluationInv /\ ResultInv => ExactIsExact
  BY ExactResult DEF ExactIsExact
<1> QED
  BY <1>1, ResultInvariant, PTL

\* effective_upper_bound(), for every request: with the token and the NTFS ACEs known,
\* the bound the risk rules audit is never exceeded, an unreadable share included.
THEOREM UpperBoundIsSafeAlways == Spec => []UpperBoundIsSafe
<1>1. TypeOK /\ EvaluationInv /\ ResultInv => UpperBoundIsSafe
  <2> SUFFICES ASSUME TypeOK, EvaluationInv, ResultInv, pc = "done",
                      result.uncertainty \cap {"Token", "Target"} = {}, OwnerKnown
               PROVE  \A w \in PossibleWorlds : \A s \in RealShares(w) :
                          RealEffective(w, s) \subseteq result.upper
    BY DEF UpperBoundIsSafe
  <2>1. TokenKnown /\ ~ in.dfsOpen
    BY MarkersTell
  <2> QED
    BY <2>1, UpperBoundSafe
<1> QED
  BY <1>1, ResultInvariant, PTL

\* synchronize_gap(), for every request: the warning that every open requesting
\* SYNCHRONIZE fails is given only where no possible token is granted it, and is never
\* missing from an exact result that lacks it.
THEOREM SynchronizeGapIsRealAlways == Spec => []SynchronizeGapIsReal
<1>1. TypeOK /\ EvaluationInv /\ ResultInv => SynchronizeGapIsReal
  <2> SUFFICES ASSUME TypeOK, EvaluationInv, ResultInv, pc = "done", TokenKnown, ~ in.dfsOpen, OwnerKnown
               PROVE  /\ result.synchronizeGap # "None" =>
                            \A w \in PossibleWorlds : \A s \in RealShares(w) :
                                Synchronize \notin RealEffective(w, s)
                      /\ result.uncertainty = {} /\ Synchronize \notin result.effective
                           /\ result.effective # {} => result.synchronizeGap # "None"
    BY DEF SynchronizeGapIsReal
  <2>1. in.selectiveAuth # "Denied" =>
          result.synchronizeGap = synchronize_gap(result.ntfs, result.effective, result.uncertainty)
    BY ResultParts
  <2>2. in.selectiveAuth = "Denied" => result.synchronizeGap = "None" /\ result.effective = {}
    BY ResultParts
  <2>3. result.upper = effective_upper_bound(result.ntfs, result.effective, result.uncertainty)
    BY ResultParts
  <2>4. ASSUME result.synchronizeGap # "None", NEW w \in PossibleWorlds, NEW s \in RealShares(w)
        PROVE  Synchronize \notin RealEffective(w, s)
    <3>1. Synchronize \notin result.upper
      BY <2>1, <2>2, <2>3, <2>4 DEF synchronize_gap
    <3> QED
      BY <3>1, UpperBoundSafe
  <2>5. ASSUME result.uncertainty = {}, Synchronize \notin result.effective, result.effective # {}
        PROVE  result.synchronizeGap # "None"
    <3>1. result.upper = result.effective
      BY <2>3, <2>5 DEF effective_upper_bound
    <3>2. ~ (result.effective \subseteq {Synchronize})
      BY <2>5
    <3> QED
      BY <2>1, <2>2, <2>3, <2>5, <3>1, <3>2 DEF synchronize_gap
  <2> QED
    BY <2>4, <2>5
<1> QED
  BY <1>1, ResultInvariant, PTL

----------------------------------------------------------------------------
\* What the local groups collected for a request consist of, also where the target's
\* group table was not read or has gaps.
LEMMA GroupsCollected ==
    ASSUME IsInput(in), lg = collect_local_groups_on(in)
    PROVE  /\ lg.sids \cup lg.logon_dependent \subseteq {g.sid : g \in in.table.groups}
           /\ lg.sids \cap lg.logon_dependent = {}
           /\ \A s \in deny_only_sids :
                 \/ s = LocalAccountAndAdmin
                 \/ is_uac_filtered_group(s) /\ s \in MembershipSids(in.memberships) \cup lg.sids
           /\ uac_filter_certain => in.localAccount
           /\ lg.anonymous_everyone = IF in.user = AnonymousLogon
                                      THEN anonymous_everyone(in.anonymousPolicy) ELSE "None"
<1> DEFINE an == IF in.user = AnonymousLogon THEN anonymous_everyone(in.anonymousPolicy) ELSE "None"
           gr == expand_local_groups_with(in.user, in.history, in.memberships,
                                          in.table.groups, in.context, an)
<1>1. gr.certain \cup gr.logon_dependent \subseteq {g.sid : g \in in.table.groups}
  BY DEF expand_local_groups_with
<1>2. gr.certain \cap gr.logon_dependent = {}
  <2>1. \A g, h \in in.table.groups : g.sid = h.sid => g = h
    BY DEF IsInput
  <2> QED
    BY <2>1 DEF expand_local_groups_with
<1> HIDE DEF an, gr
<1>3. ASSUME NEW loc
      PROVE  \A s \in uac_filtered_token_groups(in.memberships, loc, in.localAccount, in.context) :
                 \/ s = LocalAccountAndAdmin
                 \/ is_uac_filtered_group(s) /\ s \in MembershipSids(in.memberships) \cup loc
  BY DEF uac_filtered_token_groups, uac_filtered_groups
<1>4. CASE in.table.readable
  <2>1. lg.sids = gr.certain /\ lg.logon_dependent = gr.logon_dependent /\ lg.anonymous_everyone = an
    BY <1>4 DEF collect_local_groups_on, gr, an
  <2>2. lg.uac_filtered \subseteq uac_filtered_token_groups(in.memberships, gr.certain, in.localAccount, in.context)
    BY <1>4 DEF collect_local_groups_on, gr, an
  <2>3. lg.remote_uac = "Filtered" => in.localAccount
    BY <1>4 DEF collect_local_groups_on
  <2> QED
    BY <1>1, <1>2, <1>3, <2>1, <2>2, <2>3 DEF deny_only_sids, uac_filter_certain, an
<1>5. CASE ~ in.table.readable
  <2>1. /\ lg.sids = {} /\ lg.logon_dependent = {} /\ lg.anonymous_everyone = an
        /\ lg.uac_filtered = uac_filtered_token_groups(in.memberships, {}, in.localAccount, in.context)
        /\ lg.remote_uac = "Unknown"
    BY <1>5 DEF collect_local_groups_on, an
  <2> QED
    BY <1>3, <2>1 DEF deny_only_sids, uac_filter_certain, an
<1> QED
  BY <1>4, <1>5

\* uncertain_ace_reason and logon_dependent_bounds ask the same question: every ACE that
\* moves a bound has a step that names it, and a step that calls an ACE open moves one.
LEMMA NamedBounds == BoundsAreNamed
<1> SUFFICES ASSUME NEW i \in DOMAIN in.dacl
             PROVE  /\ UncertainAce(in.dacl[i]) => AceEffect(i) # "NoStep"
                    /\ AceEffect(i) = "Uncertain" => UncertainAce(in.dacl[i])
  BY DEF BoundsAreNamed
<1> DEFINE ace == in.dacl[i]
<1>1. ASSUME UncertainAce(ace) PROVE AceEffect(i) # "NoStep"
  <2>1. CASE ace_matches(ace)
    BY <2>1 DEF AceEffect
  <2>2. CASE ~ ace_matches(ace)
    <3>1. \/ uncertain_ace_reason(ace) # "None"
          \/ uac_filter_certain /\ ace.kind = "Allow" /\ ace_applies_to_current_object(ace) /\ ace.sid \in deny_only_sids
      BY <1>1 DEF UncertainAce, uncertain_ace_reason, ace_applies_to_current_object
    <3> QED
      BY <2>2, <3>1 DEF AceEffect
  <2> QED
    BY <2>1, <2>2
<1>2. ASSUME AceEffect(i) = "Uncertain" PROVE UncertainAce(ace)
  <2>1. /\ ~ ace_matches(ace) /\ uncertain_ace_reason(ace) # "None"
        /\ ~ (/\ uac_filter_certain /\ ace.kind = "Allow" /\ ace_applies_to_current_object(ace)
              /\ ace.sid \in deny_only_sids)
    BY <1>2 DEF AceEffect
  <2>2. ~ ace.inheritOnly /\ ace.sid \notin match_sids
    BY <2>1 DEF uncertain_ace_reason
  <2>3. \/ ace.kind = "Allow" /\ ace.sid \in deny_only_sids
        \/ ace.sid \in logon_dependent_groups
        \/ is_logon_dependent_for(ace.sid, in.context, match_sids)
        \/ uncertain_owner /\ ace.sid = OwnerRights
    BY <2>1 DEF uncertain_ace_reason
  <2> QED
    BY <2>1, <2>2, <2>3 DEF UncertainAce, ace_applies_to_current_object
<1> QED
  BY <1>1, <1>2

\* A set of numbers has a smallest one.
LEMMA SmallestOf ==
    ASSUME NEW T, T \subseteq Nat, T # {}
    PROVE  \E x \in T : \A y \in T : x <= y
<1> DEFINE R == OpToRel(<, Nat)
<1>1. IsWellFoundedOn(R, Nat)
  BY NatLessThanWellFounded
<1>2. \A x, y \in Nat : y < x => <<y, x>> \in R
  BY DEF OpToRel
<1> HIDE DEF R
<1>3. PICK x \in T : \A y \in T : ~ (<<y, x>> \in R)
  BY <1>1, WFMin
<1>4. \A y \in T : ~ (y < x)
  BY <1>2, <1>3
<1> QED
  BY <1>4

\* A set that holds 0 and with a number below m the next one holds all numbers up to m.
LEMMA UpTo ==
    ASSUME NEW m \in Nat, NEW T, 0 \in T, \A k \in 0 .. m - 1 : k \in T => k + 1 \in T
    PROVE  \A k \in 0 .. m : k \in T
<1> DEFINE F == {k \in 0 .. m : k \notin T}
<1> SUFFICES ASSUME F # {} PROVE FALSE
  OBVIOUS
<1>0. F \subseteq Nat
  OBVIOUS
<1>1. PICK x \in F : \A y \in F : x <= y
  <2> HIDE DEF F
  <2> QED
    BY <1>0, SmallestOf
<1>2. x \in 0 .. m /\ x \notin T /\ x # 0
  BY <1>1
<1>3. x - 1 \in 0 .. m - 1 /\ x - 1 \in 0 .. m /\ (x - 1) + 1 = x
  BY <1>2
<1>4. x - 1 \in F
  BY <1>2, <1>3
<1> QED
  BY <1>1, <1>2, <1>4

\* The bits the share ACEs before and including ACE i name for the account.
ShareNamed(i) ==
    UNION {expand_generic_rights(in.share.aces[k].mask) :
               k \in {j \in 1 .. i : Applies("shareShown", in.share.aces[j])}}

\* share_ace_decisions: the bits its recursion has decided up to an ACE.
LEMMA ShareBitsAre ==
    ASSUME IsInput(in)
    PROVE  \A i \in 0 .. Len(in.share.aces) : share_bits[i] = ShareNamed(i)
<1> DEFINE n == Len(in.share.aces)
           own(k) == IF Applies("shareShown", in.share.aces[k])
                     THEN expand_generic_rights(in.share.aces[k].mask) ELSE {}
           Def(f) == [k \in 0 .. n |-> IF k = 0 THEN {} ELSE f[k - 1] \cup own(k)]
           W == [k \in 0 .. n |-> ShareNamed(k)]
           B == CHOOSE f : f = Def(f)
<1>0. n \in Nat
  BY DEF IsInput
<1>1. ShareNamed(0) = {}
  BY DEF ShareNamed
<1>2. ASSUME NEW k \in 1 .. n PROVE ShareNamed(k) = ShareNamed(k - 1) \cup own(k)
  <2>1. \A j : j \in 1 .. k <=> j \in 1 .. k - 1 \/ j = k
    BY <1>0
  <2> QED
    BY <2>1 DEF ShareNamed
<1> HIDE DEF own
<1>3. W = Def(W)
  <2>1. ASSUME NEW k \in 0 .. n, k # 0 PROVE ShareNamed(k) = W[k - 1] \cup own(k)
    <3>1. k \in 1 .. n /\ k - 1 \in 0 .. n
      BY <1>0, <2>1
    <3>2. W[k - 1] = ShareNamed(k - 1)
      BY <3>1
    <3> QED
      BY <1>2, <3>1, <3>2
  <2> HIDE DEF n
  <2>2. \A k \in 0 .. n : ShareNamed(k) = IF k = 0 THEN {} ELSE W[k - 1] \cup own(k)
    BY <1>1, <2>1
  <2> QED
    BY <2>2
<1>4. B = Def(B)
  <2> HIDE DEF Def
  <2> QED
    BY <1>3
<1>5. share_bits = B
  BY DEF share_bits, own
<1> HIDE DEF B
<1>6. B[0] = {} /\ \A k \in 1 .. n : B[k] = B[k - 1] \cup own(k)
  BY <1>0, <1>4
<1>7. \A k \in 0 .. n : B[k] = ShareNamed(k)
  <2> DEFINE T == {k \in 0 .. n : B[k] = ShareNamed(k)}
  <2>1. 0 \in T
    BY <1>0, <1>1, <1>6
  <2>2. ASSUME NEW k \in 0 .. n - 1, k \in T PROVE k + 1 \in T
    <3>1. k + 1 \in 1 .. n /\ (k + 1) - 1 = k /\ k + 1 \in 0 .. n
      BY <1>0
    <3>2. B[k + 1] = B[k] \cup own(k + 1)
      BY <1>6, <3>1
    <3>3. ShareNamed(k + 1) = ShareNamed(k) \cup own(k + 1)
      BY <1>2, <3>1
    <3> QED
      BY <2>2, <3>1, <3>2, <3>3
  <2> HIDE DEF T
  <2>3. \A k \in 0 .. n : k \in T
    BY <1>0, <2>1, <2>2, UpTo
  <2> QED
    BY <2>3 DEF T
<1> QED
  BY <1>5, <1>7

\* What one share ACE decides: the bits it names that no applicable ACE before it names.
LEMMA ShareDecidedIs ==
    ASSUME IsInput(in), NEW i \in DOMAIN in.share.aces
    PROVE  ShareDecided(i) =
               {r \in expand_generic_rights(in.share.aces[i].mask) :
                    Applies("shareShown", in.share.aces[i]) /\ \A k \in 1 .. i - 1 : ~ Decides("shareShown", k, r)}
<1>1. i \in 1 .. Len(in.share.aces) /\ i \in Nat /\ i - 1 \in 0 .. Len(in.share.aces)
  BY DEF IsInput
<1>2. share_bits[i] = ShareNamed(i) /\ share_bits[i - 1] = ShareNamed(i - 1)
  BY <1>1, ShareBitsAre
<1>3. \A r : r \in ShareNamed(i - 1) <=> \E k \in 1 .. i - 1 : Decides("shareShown", k, r)
  BY DEF ShareNamed, Decides, Dacl, ShareWalks
<1>4. \A r : r \in ShareNamed(i) <=>
               \/ r \in ShareNamed(i - 1)
               \/ Applies("shareShown", in.share.aces[i]) /\ r \in expand_generic_rights(in.share.aces[i].mask)
  <2>1. \A j : j \in 1 .. i <=> j \in 1 .. i - 1 \/ j = i
    BY <1>1
  <2> QED
    BY <2>1 DEF ShareNamed
<1> QED
  BY <1>2, <1>3, <1>4 DEF ShareDecided

----------------------------------------------------------------------------
\* A finished evaluation, with everything the invariants know of it.
Evaluated == TypeOK /\ EvaluationInv /\ ResultInv /\ pc = "done"

\* The bits of an ACE a finished shown walk decided are those it decided first, and an ACE
\* that decided one is shown as decisive.
LEMMA NtfsDecided ==
    ASSUME Evaluated, ~ in.nullDacl, NEW i \in DOMAIN in.dacl
    PROVE  /\ decided[i] = FirstDecidedBy(i)
           /\ decided[i] # {} <=> AceEffect(i) = "Decided"
           /\ in.dacl[i].kind = "Allow" /\ decided[i] # {} => decided[i] \subseteq granted["ntfsShown"]
<1>1. ProvenanceIsExact /\ IsInput(in)
  BY ProvenanceExact DEF Evaluated, TypeOK
<1>2. decided[i] = FirstDecidedBy(i)
  BY <1>1 DEF ProvenanceIsExact, Evaluated
<1>3. in.dacl[i] \in Ace
  BY <1>1 DEF IsInput
<1>4. in.dacl[i].sid \in Sid /\ in.dacl[i].kind \in {"Allow", "Deny"}
  BY <1>3 DEF Ace, Kinds
<1>5. Applies("ntfsShown", in.dacl[i]) => ace_matches(in.dacl[i]) /\ ace_applies_to_current_object(in.dacl[i])
  BY <1>4 DEF Applies, ace_matches, allow_matches, deny_matches, Certain, ShareWalks
<1>6. decided[i] # {} <=> AceEffect(i) = "Decided"
  <2>1. decided[i] # {} => Applies("ntfsShown", in.dacl[i])
    BY <1>2 DEF FirstDecidedBy
  <2>2. AceEffect(i) = "Decided" => decided[i] # {}
    BY DEF AceEffect
  <2> QED
    BY <1>5, <2>1, <2>2 DEF AceEffect
<1>7. ASSUME in.dacl[i].kind = "Allow", NEW r \in decided[i] PROVE r \in granted["ntfsShown"]
  <2>1. r \in contributions[in.dacl[i].sid]
    BY <1>1, <1>2, <1>4, <1>7 DEF ProvenanceIsExact, Evaluated
  <2> QED
    BY <1>1, <1>4, <2>1 DEF ProvenanceIsExact, Evaluated
<1> QED
  BY <1>2, <1>6, <1>7

\* The decided Allow bits of the NTFS ACEs add up to the mask that is shown.
LEMMA NtfsBitsAdd ==
    ASSUME Evaluated, ~ in.nullDacl
    PROVE  Bits("Ntfs") = granted["ntfsShown"]
<1>1. \A r : r \in Bits("Ntfs") <=>
             \E i \in DOMAIN in.dacl : AceEffect(i) = "Decided" /\ in.dacl[i].kind = "Allow" /\ r \in decided[i]
  <2>1. ASSUME NEW r, r \in Bits("Ntfs")
        PROVE  \E i \in DOMAIN in.dacl : AceEffect(i) = "Decided" /\ in.dacl[i].kind = "Allow" /\ r \in decided[i]
    <3>1. PICK o \in outcomes : o.layer = "Ntfs" /\ o.effect = "Decided" /\ o.ace.kind = "Allow" /\ r \in o.bits
      BY <2>1 DEF Bits
    <3>2. o \notin share_ace_outcomes
      BY <3>1 DEF share_ace_outcomes
    <3> QED
      BY <3>1, <3>2 DEF outcomes, NtfsOutcomes
  <2>2. ASSUME NEW r, NEW i \in DOMAIN in.dacl, AceEffect(i) = "Decided", in.dacl[i].kind = "Allow", r \in decided[i]
        PROVE  r \in Bits("Ntfs")
    <3> DEFINE o == [layer |-> "Ntfs", index |-> i, ace |-> in.dacl[i], effect |-> AceEffect(i), bits |-> decided[i]]
    <3>1. o \in NtfsOutcomes
      BY <2>2 DEF NtfsOutcomes
    <3>2. o \in outcomes /\ o.layer = "Ntfs" /\ o.effect = "Decided" /\ o.ace.kind = "Allow" /\ r \in o.bits
      BY <2>2, <3>1 DEF outcomes
    <3> QED
      BY <3>2 DEF Bits
  <2> QED
    BY <2>1, <2>2
<1>2. \A r \in granted["ntfsShown"] : \E i \in DOMAIN in.dacl : in.dacl[i].kind = "Allow" /\ r \in FirstDecidedBy(i)
  BY ProvenanceExact DEF ProvenanceIsExact, Evaluated
<1> QED
  BY <1>1, <1>2, NtfsDecided

\* share_ace_decisions gives every bit of the shown share mask to the first ACE that decides
\* it, and to none that only repeats it.
LEMMA ShareBitsAdd ==
    ASSUME Evaluated
    PROVE  Bits("Share") = granted["shareShown"]
<1> DEFINE w == "shareShown"
           aces == in.share.aces
           Won(r) == \E i \in DOMAIN aces : aces[i].kind = "Allow" /\ r \in ShareDecided(i)
<1>0. /\ IsInput(in) /\ WalkInv(w) /\ Walked(w) /\ Dacl(w) = aces /\ ShareInv
      /\ Len(aces) \in Nat /\ DOMAIN aces = 1 .. Len(aces)
  BY DEF Evaluated, TypeOK, IsInput, EvaluationInv, ResultInv, Walks, ShareWalks, Walked, Dacl
<1>1. \A i \in DOMAIN aces : \A r \in ShareDecided(i) :
         Applies(w, aces[i]) /\ r \in expand_generic_rights(aces[i].mask)
             /\ \A k \in 1 .. i - 1 : ~ Decides(w, k, r)
  BY <1>0, ShareDecidedIs
<1>2. \A r : r \in Bits("Share") <=> Won(r)
  <2>1. ASSUME NEW r, r \in Bits("Share") PROVE Won(r)
    <3>1. PICK o \in outcomes : o.layer = "Share" /\ o.effect = "Decided" /\ o.ace.kind = "Allow" /\ r \in o.bits
      BY <2>1 DEF Bits
    <3>2. o \notin NtfsOutcomes
      BY <3>1 DEF NtfsOutcomes
    <3> QED
      BY <3>1, <3>2 DEF outcomes, share_ace_outcomes
  <2>2. ASSUME NEW r, NEW i \in DOMAIN aces, aces[i].kind = "Allow", r \in ShareDecided(i)
        PROVE  r \in Bits("Share")
    <3> DEFINE o == [layer |-> "Share", index |-> i, ace |-> in.share.aces[i], effect |-> ShareEffect(i),
                     bits |-> ShareDecided(i)]
    <3>1. ShareEffect(i) = "Decided"
      BY <1>1, <2>2 DEF ShareEffect
    <3>2. o \in share_ace_outcomes
      BY <3>1 DEF share_ace_outcomes
    <3>3. o \in outcomes /\ o.layer = "Share" /\ o.effect = "Decided" /\ o.ace.kind = "Allow" /\ r \in o.bits
      BY <2>2, <3>1, <3>2 DEF outcomes
    <3> QED
      BY <3>3 DEF Bits
  <2> QED
    BY <2>1, <2>2
<1>3. CASE aces = <<>>
  <2>1. Len(aces) = 0 /\ pos[w] \in Nat /\ pos[w] <= 1
    BY <1>0, <1>3 DEF WalkInv, Evaluated, TypeOK, Walks, ShareWalks
  <2>2. \A k \in 1 .. pos[w] - 1 : FALSE
    BY <2>1
  <2>3. granted[w] = {}
    BY <1>0, <2>2 DEF WalkInv
  <2>4. \A r : ~ Won(r)
    BY <1>0, <2>1
  <2> QED
    BY <1>2, <2>3, <2>4
<1>4. CASE aces # <<>>
  <2>1. Complete(w)
    BY <1>0, <1>4 DEF ShareInv, IsInput, Evaluated
  <2>2. pos[w] - 1 = Len(aces)
    BY <1>0, <2>1 DEF Complete
  <2>3. /\ granted[w] \cap denied[w] = {}
        /\ \A k \in DOMAIN aces : \A r \in Rights : Decides(w, k, r) => r \in granted[w] \cup denied[w]
        /\ \A r \in granted[w] : \E k \in DOMAIN aces :
              AllowsAt(w, k, r) /\ \A m \in 1 .. k - 1 : ~ DeniesAt(w, m, r)
        /\ \A r \in denied[w] : \E k \in DOMAIN aces :
              DeniesAt(w, k, r) /\ \A m \in 1 .. k - 1 : ~ AllowsAt(w, m, r)
    BY <1>0, <2>2 DEF WalkInv
  <2>4. ASSUME NEW r, Won(r) PROVE r \in granted[w]
    <3>1. PICK i \in DOMAIN aces : aces[i].kind = "Allow" /\ r \in ShareDecided(i)
      BY <2>4
    <3>2. AllowsAt(w, i, r) /\ Decides(w, i, r) /\ \A k \in 1 .. i - 1 : ~ DeniesAt(w, k, r)
      BY <1>0, <1>1, <3>1 DEF AllowsAt, Decides, DeniesAt
    <3>3. aces[i] \in Ace
      BY <1>0 DEF IsInput
    <3>4. r \in Rights
      BY <1>1, <3>1, <3>3, ExpandTyped DEF Ace
    <3>5. ASSUME r \in denied[w] PROVE FALSE
      <4>1. PICK j \in DOMAIN aces : DeniesAt(w, j, r) /\ \A m \in 1 .. j - 1 : ~ AllowsAt(w, m, r)
        BY <2>3, <3>5
      <4>2. j # i
        BY <3>2, <4>1 DEF AllowsAt, DeniesAt
      <4>3. j \in 1 .. i - 1 \/ i \in 1 .. j - 1
        BY <1>0, <4>2
      <4> QED
        BY <3>2, <4>1, <4>3
    <3> QED
      BY <2>3, <3>2, <3>4, <3>5
  <2>5. ASSUME NEW r \in granted[w] PROVE Won(r)
    <3>1. PICK k \in DOMAIN aces : AllowsAt(w, k, r) /\ \A m \in 1 .. k - 1 : ~ DeniesAt(w, m, r)
      BY <2>3
    <3> DEFINE T == {i \in DOMAIN aces : Decides(w, i, r)}
    <3>2. T \subseteq Nat /\ k \in T
      BY <1>0, <3>1 DEF AllowsAt
    <3> HIDE DEF T
    <3>3. PICK x \in T : \A y \in T : x <= y
      BY <3>2, SmallestOf
    <3>4. x \in DOMAIN aces /\ Decides(w, x, r) /\ x \in Nat /\ x <= k
      BY <1>0, <3>2, <3>3 DEF T
    <3>5. \A m \in 1 .. x - 1 : ~ Decides(w, m, r)
      <4> SUFFICES ASSUME NEW m \in 1 .. x - 1, Decides(w, m, r) PROVE FALSE
        OBVIOUS
      <4>1. m \in DOMAIN aces /\ ~ (x <= m)
        BY <1>0, <3>4
      <4> QED
        BY <3>3, <4>1 DEF T
    <3>6. r \in ShareDecided(x)
      BY <1>0, <3>4, <3>5, ShareDecidedIs DEF Decides
    <3>7. ~ DeniesAt(w, x, r)
      <4>1. x = k \/ x \in 1 .. k - 1
        BY <1>0, <3>4
      <4> QED
        BY <3>1, <4>1 DEF AllowsAt, DeniesAt
    <3>8. aces[x] \in Ace
      BY <1>0, <3>4 DEF IsInput
    <3>9. aces[x].kind \in {"Allow", "Deny"}
      BY <3>8 DEF Ace, Kinds
    <3> QED
      BY <1>0, <3>4, <3>6, <3>7, <3>9 DEF DeniesAt
  <2> QED
    BY <1>2, <2>4, <2>5
<1> QED
  BY <1>3, <1>4

----------------------------------------------------------------------------
\* An ACE that decided something is one whose trustee the walks match.
LEMMA DecidedMatches ==
    ASSUME Evaluated, NEW o \in outcomes, o.effect = "Decided"
    PROVE  /\ o.ace.sid \in match_sids \cup deny_only_sids
           /\ o.layer = "Ntfs" =>
                 o.index \in DOMAIN in.dacl /\ o.ace = in.dacl[o.index]
                     /\ decided[o.index] # {} /\ ace_matches(o.ace) /\ ~ o.ace.inheritOnly
<1>1. CASE o \in NtfsOutcomes
  <2>1. PICK i \in DOMAIN in.dacl :
          o = [layer |-> "Ntfs", index |-> i, ace |-> in.dacl[i], effect |-> AceEffect(i), bits |-> decided[i]]
    BY <1>1 DEF NtfsOutcomes
  <2>2. AceEffect(i) = "Decided" /\ o.ace = in.dacl[i] /\ o.index = i
    BY <2>1
  <2>3. ace_matches(in.dacl[i]) /\ ~ in.dacl[i].inheritOnly /\ decided[i] # {}
    BY <2>2 DEF AceEffect, ace_applies_to_current_object
  <2> QED
    BY <2>2, <2>3 DEF ace_matches
<1>2. CASE o \in share_ace_outcomes
  <2>1. PICK i \in DOMAIN in.share.aces :
          o = [layer |-> "Share", index |-> i, ace |-> in.share.aces[i], effect |-> ShareEffect(i),
               bits |-> ShareDecided(i)]
    BY <1>2 DEF share_ace_outcomes
  <2>2. Applies("shareShown", in.share.aces[i]) /\ o.ace = in.share.aces[i] /\ o.layer = "Share"
    BY <2>1 DEF ShareEffect
  <2>3. o.ace.sid \in share_token.enabled \cup deny_only_sids
    BY <2>2 DEF Applies, allow_matches, deny_matches, Certain, ShareWalks
  <2> QED
    BY <2>2, <2>3, ShareTokenSmaller DEF match_sids
<1> QED
  BY <1>1, <1>2 DEF outcomes

\* The edges into an ACE that is drawn, from the box of its trustee.
LEMMA EdgesDrawn ==
    ASSUME NEW o \in Drawn, o.effect = "Decided", SidNode(o.ace.sid) \in SidNodes,
           o.layer = "Ntfs" /\ o.ace.sid # in.user => group_decisive(o.ace.sid),
           NEW d, SidNode(o.ace.sid) = IF d THEN <<"direct">> ELSE <<"group", o.ace.sid>>,
           d \in BOOLEAN, d <=> o.ace.sid = in.user
    PROVE  Leads(o)
<1> DEFINE n == SidNode(o.ace.sid)
           e == [from |-> <<"account">>, to |-> n, strong |-> leads_strongly(n), look |-> box_look(n)]
           f == [from |-> n, to |-> AceNode(o),
                 strong |-> o.effect = "Decided" /\ (o.ace.sid = in.user \/ group_decisive(o.ace.sid)),
                 look |-> effect_look(o)]
<1>1. e \in AccountEdges
  BY DEF AccountEdges
<1>2. f \in AceEdges
  BY DEF AceEdges
<1>3. o.layer = "Ntfs" => f.strong
  BY DEF SidNode
<1>4. o.layer = "Ntfs" => e.strong
  <2>1. CASE d
    BY <2>1 DEF leads_strongly
  <2>2. CASE ~ d
    <3>1. n = <<"group", o.ace.sid>>
      BY <2>2
    <3>2. n # <<"direct">> /\ n[2] = o.ace.sid
      BY <3>1
    <3> HIDE DEF n
    <3> QED
      BY <2>2, <3>2 DEF leads_strongly
  <2> QED
    BY <2>1, <2>2
<1>5. e.from = <<"account">> /\ e.to = f.from /\ f.to = AceNode(o)
  OBVIOUS
<1> HIDE DEF e, f
<1>6. e \in permission_graph /\ f \in permission_graph
  BY <1>1, <1>2 DEF permission_graph
<1> QED
  BY <1>3, <1>4, <1>5, <1>6 DEF Leads

\* Every decided bit has its route: the trustee of a deciding ACE has a box, reached from
\* the account, unless it is held deny-only without being a membership.
LEMMA DecidedLeads ==
    ASSUME Evaluated, NEW o \in Drawn, o.effect = "Decided",
           o.ace.sid \notin deny_only_sids \ {g.sid : g \in merged}
    PROVE  Leads(o)
<1> DEFINE s == o.ace.sid
<1>1. o \in outcomes
  BY DEF Drawn
<1>2. in_trace_token(s)
  BY <1>1, DecidedMatches DEF in_trace_token
<1>3. o.layer = "Ntfs" => group_decisive(s)
  <2> SUFFICES ASSUME o.layer = "Ntfs" PROVE s \in decisive
    BY <1>2 DEF group_decisive
  <2>1. o.index \in DOMAIN in.dacl /\ o.ace = in.dacl[o.index] /\ decided[o.index] # {}
        /\ ace_matches(in.dacl[o.index]) /\ ~ in.dacl[o.index].inheritOnly
    BY <1>1, DecidedMatches
  <2> QED
    BY <2>1 DEF decisive
<1>4. SidNode(s) \in SidNodes
  <2>1. CASE s = in.user
    BY <2>1 DEF SidNode, SidNodes
  <2>2. CASE s # in.user
    <3>1. GroupState(s) # "None"
      BY <1>2 DEF GroupState, in_trace_token
    <3> DEFINE g == [sid |-> s, state |-> GroupState(s), decisive |-> group_decisive(s)]
    <3>2. s \in {p.ace.sid : p \in outcomes}
      BY <1>1
    <3>3. g \in trace_groups
      BY <2>2, <3>1, <3>2 DEF trace_groups
    <3>4. g.sid = s
      OBVIOUS
    <3> HIDE DEF g
    <3> QED
      BY <2>2, <3>3, <3>4 DEF SidNode, SidNodes
  <2> QED
    BY <2>1, <2>2
<1>5. PICK d : d = (s = in.user)
  OBVIOUS
<1> QED
  BY <1>3, <1>4, <1>5, EdgesDrawn DEF SidNode

----------------------------------------------------------------------------
\* The shown masks are access checks for the SIDs the two tokens of the engine hold.
LEMMA ShownMasks ==
    ASSUME Evaluated
    PROVE  /\ ~ in.nullDacl => granted["ntfsShown"] = Accessible(in.dacl, match_sids, match_sids \cup deny_only_sids)
           /\ in.share.kind = "Acl" => granted["shareShown"] =
                Accessible(in.share.aces, share_token.enabled, share_token.enabled \cup deny_only_sids)
<1>1. /\ {"ntfsShown", "shareShown"} \subseteq Walks /\ Walked("shareShown")
      /\ Dacl("ntfsShown") = in.dacl /\ Dacl("shareShown") = in.share.aces
      /\ allow_matches("ntfsShown") = match_sids
      /\ deny_matches("ntfsShown") = match_sids \cup deny_only_sids
      /\ allow_matches("shareShown") = share_token.enabled
      /\ deny_matches("shareShown") = share_token.enabled \cup deny_only_sids
  BY DEF Walks, ShareWalks, NtfsWalks, Walked, Dacl, allow_matches, deny_matches, Certain, Undecided
<1>2. ASSUME ~ in.nullDacl PROVE Complete("ntfsShown") /\ Walked("ntfsShown")
  BY <1>2 DEF Evaluated, EvaluationInv, StageInv, Walked
<1>3. in.share.kind = "Acl" => Complete("shareShown")
  BY DEF Evaluated, ResultInv, ShareInv
<1>4. TypeOK /\ WalkInv("ntfsShown") /\ WalkInv("shareShown")
  BY <1>1 DEF Evaluated, EvaluationInv
<1>5. \A w \in Walks : WalkInv(w) /\ Walked(w) /\ Complete(w) =>
         granted[w] = Accessible(Dacl(w), allow_matches(w), deny_matches(w))
  BY <1>4, CompleteWalk
<1>6. ASSUME ~ in.nullDacl
      PROVE  granted["ntfsShown"] = Accessible(in.dacl, match_sids, match_sids \cup deny_only_sids)
  BY <1>1, <1>2, <1>4, <1>5, <1>6
<1>7. ASSUME in.share.kind = "Acl"
      PROVE  granted["shareShown"] =
                Accessible(in.share.aces, share_token.enabled, share_token.enabled \cup deny_only_sids)
  BY <1>1, <1>3, <1>4, <1>5, <1>7
<1> QED
  BY <1>6, <1>7

\* Only the trustees of the ACEs matter to an access check.
LEMMA SameTrustees ==
    ASSUME NEW dacl, NEW a1, NEW d1, NEW a2, NEW d2,
           \A k \in DOMAIN dacl : 1 .. k - 1 \subseteq DOMAIN dacl,
           \A k \in DOMAIN dacl : dacl[k].kind = "Allow" /\ ~ dacl[k].inheritOnly =>
               (dacl[k].sid \in a1 <=> dacl[k].sid \in a2),
           \A k \in DOMAIN dacl : dacl[k].kind = "Deny" /\ ~ dacl[k].inheritOnly =>
               (dacl[k].sid \in d1 <=> dacl[k].sid \in d2)
    PROVE  Accessible(dacl, a1, d1) = Accessible(dacl, a2, d2)
<1>1. Accessible(dacl, a1, d1) \subseteq Accessible(dacl, a2, d2)
  BY AccessibleMonotone
<1>2. Accessible(dacl, a2, d2) \subseteq Accessible(dacl, a1, d1)
  BY AccessibleMonotone
<1> QED
  BY <1>1, <1>2

\* A membership is left out of a row only if it is named nowhere, under its SID or under
\* one of its historical SIDs: leaving it out takes no named SID away.
LEMMA NamedAreKept ==
    ASSUME NEW s \in named, NEW X
    PROVE  s \in Without(X) <=> s \in X
<1>1. \A g \in not_listed : g.sid \notin named /\ g.history \cap named = {}
  BY DEF not_listed, is_named
<1>2. \A g \in not_listed : s \notin {g.sid} \cup g.history
  BY <1>1
<1> QED
  BY <1>2 DEF Without

\* ADR 0087: with the memberships a row does not list taken out of the token, the ACEs and
\* the owner rule decide as before.
LEMMA UnlistedIrrelevant == Evaluated => UnlistedIsIrrelevant
<1> SUFFICES ASSUME Evaluated PROVE UnlistedIsIrrelevant
  OBVIOUS
<1>1. IsInput(in)
  BY DEF Evaluated, TypeOK
<1>2. \A k \in DOMAIN in.dacl : in.dacl[k].sid \in named
  BY DEF named
<1>3. ASSUME ~ in.nullDacl
      PROVE  granted["ntfsShown"] = Accessible(in.dacl, Without(match_sids), Without(match_sids) \cup deny_only_sids)
  <2>1. \A k \in DOMAIN in.dacl : in.dacl[k].sid \in match_sids <=> in.dacl[k].sid \in Without(match_sids)
    BY <1>2, NamedAreKept
  <2>2. Accessible(in.dacl, match_sids, match_sids \cup deny_only_sids)
          = Accessible(in.dacl, Without(match_sids), Without(match_sids) \cup deny_only_sids)
    BY <1>1, <2>1, DaclIsSequence, SameTrustees
  <2> QED
    BY <1>3, <2>2, ShownMasks
<1>4. ASSUME in.share.kind = "Acl"
      PROVE  granted["shareShown"] = Accessible(in.share.aces, Without(share_token.enabled),
                                                Without(share_token.enabled) \cup deny_only_sids)
  <2> DEFINE en == share_token.enabled
  <2>1. ASSUME NEW k \in DOMAIN in.share.aces, in.share.aces[k].sid \in en, in.share.aces[k].kind \in Kinds
        PROVE  in.share.aces[k].sid \in named
    <3>1. Applies("shareShown", in.share.aces[k])
      BY <2>1 DEF Applies, allow_matches, deny_matches, Certain, ShareWalks
    <3>2. ShareEffect(k) # "NoStep"
      BY <3>1 DEF ShareEffect
    <3> DEFINE o == [layer |-> "Share", index |-> k, ace |-> in.share.aces[k], effect |-> ShareEffect(k),
                     bits |-> ShareDecided(k)]
    <3>3. o \in share_ace_outcomes
      BY <3>2 DEF share_ace_outcomes
    <3>4. o.ace.sid = in.share.aces[k].sid
      OBVIOUS
    <3> HIDE DEF o
    <3> QED
      BY <3>3, <3>4 DEF named
  <2>2. \A k \in DOMAIN in.share.aces : in.share.aces[k].kind \in Kinds =>
           (in.share.aces[k].sid \in en <=> in.share.aces[k].sid \in Without(en))
    <3>1. Without(en) \subseteq en
      BY DEF Without
    <3> QED
      BY <2>1, <3>1, NamedAreKept
  <2> HIDE DEF en
  <2>3. Accessible(in.share.aces, en, en \cup deny_only_sids)
          = Accessible(in.share.aces, Without(en), Without(en) \cup deny_only_sids)
    BY <1>1, <2>2, ShareAclIsSequence, SameTrustees DEF Kinds
  <2> QED
    BY <1>4, <2>3, ShownMasks DEF en
<1>5. user_is_owner <=> in.owner \in Without(user_sids)
  <2>1. in.owner \in named
    BY DEF named
  <2> QED
    BY <2>1, NamedAreKept DEF user_is_owner
<1> QED
  BY <1>3, <1>4, <1>5 DEF UnlistedIsIrrelevant

----------------------------------------------------------------------------
\* access_context_step: the well-knowns it says the token has are in the token the engine
\* evaluates, those it says are absent or open are not.
LEMMA ContextStepAgrees ==
    ASSUME Evaluated
    PROVE  /\ access_context_step.has \subseteq user_sids
           /\ (access_context_step.lacks \cup access_context_step.may) \cap user_sids = {}
<1> DEFINE build == build_token_sids_with_context(in.user, in.history, in.memberships, lg.sids, in.context)
           absent == identity_absent_well_knowns(in.user)
           open == uncertain_well_knowns_with(in.user, lg.anonymous_everyone)
           gets == anonymous_gets_everyone(in.user, lg.anonymous_everyone)
           gone == absent \cup (IF in.user = AnonymousLogon /\ open = {} /\ ~ gets THEN {Everyone} ELSE {})
<1>1. IsInput(in) /\ lg = collect_local_groups_on(in)
  BY DEF Evaluated, TypeOK, EvaluationInv, StageInv
<1>2. \A s \in WellKnowns \ {LocalAccountAndAdmin} : s \notin lg.uac_filtered /\ s # CryptographicOperators
  BY <1>1, GroupsCollected, SidsApart DEF deny_only_sids
<1>3. /\ {Everyone, AuthenticatedUsers, NetworkLogon, InteractiveLogon} \subseteq WellKnowns \ {LocalAccountAndAdmin}
      /\ Everyone # AuthenticatedUsers /\ AnonymousLogon # Everyone /\ AnonymousLogon # AuthenticatedUsers
      /\ ContextWellKnowns(in.context) \cap {Everyone, AuthenticatedUsers} = {}
  BY DEF WellKnowns, Everyone, AuthenticatedUsers, AnonymousLogon, NetworkLogon, InteractiveLogon, LocalAccountAndAdmin,
         ContextWellKnowns
<1>4. WellKnowns \cap lg.sids = {}
  BY <1>1, GroupsCollected DEF IsInput
<1>5. \A s \in WellKnowns \ {LocalAccountAndAdmin} :
         s \in user_sids <=> s \in build \/ (gets /\ s = Everyone)
  <2>1. user_sids = ((build \ lg.uac_filtered) \cup (IF gets THEN {Everyone} ELSE {})) \ {CryptographicOperators}
    BY DEF user_sids, TokenGroups
  <2> HIDE DEF build, gets
  <2> QED
    BY <1>2, <1>3, <2>1
<1>6. \A s : s \in build <=> \/ s \in {in.user} \cup in.history \cup MembershipSids(in.memberships) \cup lg.sids
                             \/ s \in {Everyone, AuthenticatedUsers} \ (identity_uncertain_well_knowns(in.user) \cup absent)
                             \/ s \in ContextWellKnowns(in.context)
  BY DEF build_token_sids_with_context
<1> HIDE DEF build
<1>7. access_context_step =
        [has   |-> ({Everyone, AuthenticatedUsers} \ (gone \cup open))
                      \cup (IF in.context = "RemoteSmb" THEN {NetworkLogon} ELSE {})
                      \cup (IF in.context = "LocalInteractive" THEN {InteractiveLogon} ELSE {}),
         lacks |-> gone, may |-> open]
  BY DEF access_context_step
<1>8. in.user # AnonymousLogon => open = {} /\ ~ gets /\ identity_uncertain_well_knowns(in.user) = {}
  BY DEF uncertain_well_knowns_with, anonymous_gets_everyone, identity_uncertain_well_knowns
<1>9. in.user = AnonymousLogon =>
        /\ identity_uncertain_well_knowns(in.user) = {Everyone} /\ absent = {AuthenticatedUsers}
        /\ open = IF lg.anonymous_everyone = "None" THEN {Everyone} ELSE {}
        /\ gets <=> lg.anonymous_everyone = "True"
        /\ Everyone \notin in.history \cup MembershipSids(in.memberships)
  BY <1>1 DEF uncertain_well_knowns_with, anonymous_gets_everyone, identity_uncertain_well_knowns,
              identity_absent_well_knowns, IsInput
<1>10. AuthenticatedUsers \in absent =>
         AuthenticatedUsers \notin {in.user} \cup in.history \cup MembershipSids(in.memberships)
  <2>1. AuthenticatedUsers \notin GuestAccounts
    BY <1>3, SidAssumption
  <2> QED
    BY <1>1, <1>3, <2>1 DEF identity_absent_well_knowns, IsInput
<1>11. absent \subseteq {AuthenticatedUsers} /\ open \subseteq {Everyone}
  BY DEF identity_absent_well_knowns, uncertain_well_knowns_with, identity_uncertain_well_knowns
<1> HIDE DEF absent, open, gets
<1>12. ASSUME NEW s \in access_context_step.has PROVE s \in user_sids
  <2>1. CASE s \in {NetworkLogon, InteractiveLogon}
    <3>1. s \notin {Everyone, AuthenticatedUsers}
      BY <2>1 DEF NetworkLogon, InteractiveLogon, Everyone, AuthenticatedUsers
    <3>2. \/ in.context = "RemoteSmb" /\ s = NetworkLogon
          \/ in.context = "LocalInteractive" /\ s = InteractiveLogon
      BY <1>7, <1>12, <3>1
    <3>3. s \in ContextWellKnowns(in.context)
      BY <3>2 DEF ContextWellKnowns
    <3> QED
      BY <1>3, <1>5, <1>6, <2>1, <3>3
  <2>2. CASE s \in {Everyone, AuthenticatedUsers} \ (gone \cup open)
    <3>1. CASE in.user = AnonymousLogon
      <4>1. s = Everyone /\ Everyone \notin open
        BY <1>9, <2>2, <3>1
      <4>2. gets
        BY <1>9, <2>2, <3>1, <4>1
      <4> QED
        BY <1>3, <1>5, <4>1, <4>2
    <3>2. CASE in.user # AnonymousLogon
      BY <1>3, <1>5, <1>6, <1>8, <2>2, <3>2
    <3> QED
      BY <3>1, <3>2
  <2> QED
    BY <1>7, <1>12, <2>1, <2>2
<1>13. ASSUME NEW s \in gone \cup open PROVE s \notin user_sids
  <2>1. CASE s = AuthenticatedUsers
    <3>1. AuthenticatedUsers \in absent
      BY <1>3, <1>11, <1>13, <2>1
    <3> QED
      BY <1>3, <1>4, <1>5, <1>6, <1>10, <2>1, <3>1
  <2>2. CASE s = Everyone
    <3>1. in.user = AnonymousLogon /\ ~ gets
      BY <1>3, <1>8, <1>9, <1>11, <1>13, <2>2
    <3> QED
      BY <1>3, <1>4, <1>5, <1>6, <1>9, <2>2, <3>1
  <2> QED
    BY <1>11, <1>13, <2>1, <2>2
<1> QED
  BY <1>7, <1>12, <1>13

\* The aggregation step names as taken away by Deny exactly what the Allow ACEs of the
\* account would give without any Deny, and do not give with them.
LEMMA DenyStepAgrees ==
    ASSUME Evaluated, ~ in.nullDacl
    PROVE  taken_away = (Accessible(in.dacl, match_sids, {})
                            \ Accessible(in.dacl, match_sids, match_sids \cup deny_only_sids)) \ owner_implicit_bits
<1> DEFINE w == "ntfsShown"
           all == Accessible(in.dacl, match_sids, {})
<1>1. /\ IsInput(in) /\ Complete(w) /\ WalkInv(w) /\ Walked(w) /\ w \in Walks /\ Dacl(w) = in.dacl
      /\ Len(in.dacl) \in Nat /\ DOMAIN in.dacl = 1 .. Len(in.dacl)
      /\ denied[w] \subseteq Rights
  BY DEF Evaluated, TypeOK, IsInput, EvaluationInv, StageInv, Walked, Walks, NtfsWalks, ShareWalks, Dacl
<1>2. \A i \in DOMAIN in.dacl : in.dacl[i].sid \in Sid /\ in.dacl[i].kind \in Kinds
          /\ expand_generic_rights(in.dacl[i].mask) \subseteq Rights
  <2> SUFFICES ASSUME NEW i \in DOMAIN in.dacl
               PROVE  in.dacl[i].sid \in Sid /\ in.dacl[i].kind \in Kinds
                        /\ expand_generic_rights(in.dacl[i].mask) \subseteq Rights
    OBVIOUS
  <2>1. in.dacl[i] \in Ace
    BY <1>1 DEF IsInput
  <2> QED
    BY <2>1, ExpandTyped DEF Ace
<1>3. allow_union = all
  <2>1. \A i \in DOMAIN in.dacl : in.dacl[i].kind = "Allow" => (ace_matches(in.dacl[i]) <=> in.dacl[i].sid \in match_sids)
    BY DEF ace_matches
  <2>2. \A r : r \in allow_union <=> \E i \in DOMAIN in.dacl :
            in.dacl[i].kind = "Allow" /\ ~ in.dacl[i].inheritOnly /\ in.dacl[i].sid \in match_sids
                /\ r \in expand_generic_rights(in.dacl[i].mask)
    BY <2>1 DEF allow_union
  <2> QED
    BY <1>2, <2>2 DEF Accessible
<1>4. \A r \in all : r \in Rights /\ r \in granted[w] \cup denied[w]
  <2> SUFFICES ASSUME NEW r \in all PROVE r \in Rights /\ r \in granted[w] \cup denied[w]
    OBVIOUS
  <2>1. PICK i \in DOMAIN in.dacl : /\ in.dacl[i].kind = "Allow" /\ ~ in.dacl[i].inheritOnly
                                    /\ in.dacl[i].sid \in match_sids
                                    /\ r \in expand_generic_rights(in.dacl[i].mask)
    BY DEF Accessible
  <2>2. r \in Rights
    BY DEF Accessible
  <2>3. Decides(w, i, r)
    BY <1>1, <2>1 DEF Decides, Applies, ace_applies_to_current_object, allow_matches, Certain, ShareWalks
  <2>4. i \in 1 .. pos[w] - 1
    BY <1>1 DEF Complete
  <2> QED
    BY <1>1, <2>2, <2>3, <2>4 DEF WalkInv
<1>5. granted[w] \cap denied[w] = {}
  BY <1>1 DEF WalkInv
<1>6. granted[w] = Accessible(in.dacl, match_sids, match_sids \cup deny_only_sids)
  BY ShownMasks
<1> HIDE DEF all
<1>7. taken_away = (denied[w] \ owner_implicit_bits) \cap all
  BY <1>3 DEF taken_away, denied_for_display
<1>8. taken_away = (all \ granted[w]) \ owner_implicit_bits
  BY <1>4, <1>5, <1>7
<1> QED
  BY <1>6, <1>8 DEF all

\* No group User Account Control filters is one whose presence depends on the logon.
LEMMA FilteredNotLogonDependent ==
    \A s : is_uac_filtered_group(s) => \A c : ~ is_logon_dependent_sid(s, c)
<1>1. UacDomainGroups \cap (AlwaysLogonDependent \cup LocalLogonSids \cup ContextSids) = {}
  BY SidAssumption
<1>2. UacBuiltinGroups \cap (AlwaysLogonDependent \cup LocalLogonSids \cup ContextSids) = {}
  BY DEF UacBuiltinGroups, AlwaysLogonDependent, LocalLogonSids, ContextSids, Administrators, ThisOrganization,
         OtherOrganization, LocalAccountAndAdmin, NetworkLogon, InteractiveLogon
<1> QED
  BY <1>1, <1>2 DEF is_uac_filtered_group, is_logon_dependent_sid

\* Where the explanation says that the DACL is empty or that none of its ACEs applies, no
\* ACE granted or bounded anything, an Allow for S-1-5-114 in a filtered token excepted.
LEMMA DaclStepAgrees ==
    ASSUME Evaluated, DaclStep \in {"EmptyDacl", "NoAceApplies"}
    PROVE  granted["ntfsShown"] = {} /\ uncertain \subseteq {LocalAccountAndAdmin}
<1>1. IsInput(in) /\ lg = collect_local_groups_on(in) /\ ~ in.nullDacl
  BY DEF Evaluated, TypeOK, EvaluationInv, StageInv, DaclStep
<1>2. \A i \in DOMAIN in.dacl : AceEffect(i) \in {"NoStep", "NotApplied"}
  <2> SUFFICES ASSUME NEW i \in DOMAIN in.dacl, AceEffect(i) # "NoStep" PROVE AceEffect(i) = "NotApplied"
    OBVIOUS
  <2> DEFINE o == [layer |-> "Ntfs", index |-> i, ace |-> in.dacl[i], effect |-> AceEffect(i), bits |-> decided[i]]
  <2>1. o \in NtfsOutcomes /\ o.effect = AceEffect(i)
    BY DEF NtfsOutcomes
  <2>2. in.dacl # <<>>
    OBVIOUS
  <2> HIDE DEF o
  <2>3. AceEffect(i) \notin {"InheritOnly", "NoEffect", "Decided", "Uncertain"}
    BY <1>1, <2>1, <2>2 DEF DaclStep
  <2> QED
    BY <2>3 DEF AceEffect
<1>3. granted["ntfsShown"] = {}
  <2>1. \A i \in DOMAIN in.dacl : decided[i] = {}
    BY <1>1, <1>2, NtfsDecided
  <2>2. \A r \in granted["ntfsShown"] : \E i \in DOMAIN in.dacl : r \in decided[i]
    BY <1>1, ProvenanceExact DEF ProvenanceIsExact, Evaluated
  <2> QED
    BY <2>1, <2>2
<1>4. ASSUME NEW i \in DOMAIN in.dacl, UncertainAce(in.dacl[i]), in.dacl[i].sid # LocalAccountAndAdmin
      PROVE  FALSE
  <2> DEFINE s == in.dacl[i].sid
  <2>1. AceEffect(i) = "NotApplied"
    BY <1>2, <1>4, NamedBounds DEF BoundsAreNamed
  <2>2. uac_filter_certain /\ s \in deny_only_sids
    BY <2>1 DEF AceEffect
  <2>3. /\ is_uac_filtered_group(s) /\ s \in MembershipSids(in.memberships) \cup lg.sids
        /\ in.localAccount
    BY <1>1, <1>4, <2>2, GroupsCollected
  <2>4. ~ is_logon_dependent_for(s, in.context, match_sids)
    BY <2>3, FilteredNotLogonDependent DEF is_logon_dependent_for
  <2>5. s \notin lg.logon_dependent
    <3>1. s \in lg.logon_dependent => s \notin lg.sids /\ \E g \in in.table.groups : g.sid = s
      BY <1>1, GroupsCollected
    <3>2. \A g \in in.table.groups : g.sid \notin MembershipSids(in.memberships)
      BY <1>1, <2>3 DEF IsInput
    <3> QED
      BY <2>3, <3>1, <3>2
  <2>6. s # CryptographicOperators /\ s # Everyone
    BY <2>3, SidsApart DEF WellKnowns
  <2>7. s \notin logon_dependent_groups
    BY <2>5, <2>6 DEF logon_dependent_groups, uncertain_well_knowns_with, identity_uncertain_well_knowns
  <2> QED
    BY <1>4, <2>2, <2>4, <2>7 DEF UncertainAce, uncertain_owner
<1> QED
  BY <1>3, <1>4 DEF uncertain

\* The owner is certainly the account, or certainly not, unless it is a group that may be filtered.
LEMMA OwnerStepMeans ==
    ASSUME Evaluated
    PROVE  /\ OwnerStep = "Implicit" => user_is_owner /\ ~ has_owner_rights_ace
           /\ OwnerStep = "Suppressed" => user_is_owner /\ has_owner_rights_ace
           /\ OwnerStep = "NoStep" => ~ user_is_owner /\ ~ uncertain_owner
           /\ OwnerStep = "Uncertain" => uncertain_owner
           /\ uncertain_owner => ~ user_is_owner
<1>1. owner_implicit_bits = {} <=> ~ (user_is_owner /\ ~ has_owner_rights_ace)
  BY DEF owner_implicit_bits
<1>2. in.owner \in lg.uac_filtered => in.owner \notin user_sids
  <2> SUFFICES ASSUME in.owner \in lg.uac_filtered, in.owner \in user_sids PROVE FALSE
    OBVIOUS
  <2>1. in.owner = Everyone
    BY DEF user_sids, TokenGroups
  <2>2. IsInput(in) /\ lg = collect_local_groups_on(in)
    BY DEF Evaluated, TypeOK, EvaluationInv, StageInv
  <2>3. is_uac_filtered_group(in.owner) \/ in.owner = LocalAccountAndAdmin
    BY <2>2, GroupsCollected DEF deny_only_sids
  <2> QED
    BY <2>1, <2>3, SidsApart DEF WellKnowns, Everyone, LocalAccountAndAdmin
<1>3. uncertain_owner => ~ user_is_owner
  BY <1>2 DEF uncertain_owner, user_is_owner, deny_only_sids
<1> QED
  BY <1>1, <1>3 DEF OwnerStep, owner_rights_ace_present

\* The owner step tells of every possible token what the implicit owner grant does there.
LEMMA OwnerStepAgrees == Evaluated => OwnerStepIsTrue
<1> SUFFICES ASSUME Evaluated, TokenKnown, OwnerKnown, NEW w \in PossibleWorlds
             PROVE  /\ OwnerStep = "Implicit" => OwnerGrant(w)
                    /\ OwnerStep \in {"Suppressed", "NoStep"} => ~ OwnerGrant(w)
                    /\ OwnerStep = "Suppressed" => RealOwner(w)
                    /\ OwnerStep = "Uncertain" /\ ~ has_owner_rights_ace => (OwnerGrant(w) <=> ~ w.filtered)
  BY DEF OwnerStepIsTrue
<1>1. IsInput(in) /\ lg = collect_local_groups_on(in)
  BY DEF Evaluated, TypeOK, EvaluationInv, StageInv
<1>2. /\ user_is_owner => RealOwner(w)
      /\ RealOwner(w) => user_is_owner \/ uncertain_owner
  BY <1>1, OwnerCovered
<1>3. uncertain_owner => (RealOwner(w) <=> ~ w.filtered)
  BY <1>1, FilteredOwner
<1> QED
  BY <1>2, <1>3, OwnerStepMeans DEF OwnerGrant

\* The texts of the explanation are true of the evaluation.
LEMMA TextsAgree == Evaluated => StepsAgree
<1> SUFFICES ASSUME Evaluated PROVE StepsAgree
  OBVIOUS
<1>1. ASSUME result_node.look = "Plain", OwnerKnown, NEW w \in PossibleWorlds, NEW s \in RealShares(w)
      PROVE  RealEffective(w, s) = result_node.rights
  <2>1. result.uncertainty = {}
    BY <1>1 DEF result_node, ValueLook, effective_determinable
  <2>2. RealEffective(w, s) = result.effective
    BY <1>1, <2>1, ExactResult DEF Evaluated
  <2>3. in.selectiveAuth \in {"None", "Allowed", "Denied", "Unknown"}
    BY DEF Evaluated, TypeOK, IsInput
  <2>4. logon_node = "Denied" <=> in.selectiveAuth = "Denied"
    BY <2>3 DEF logon_node
  <2>5. in.selectiveAuth = "Denied" => result.effective = {}
    BY ResultParts DEF Evaluated
  <2> QED
    BY <2>2, <2>4, <2>5 DEF result_node
<1>2. OwnerStep \in {"Suppressed", "NoStep"} => upper_owner_bits = {}
  BY OwnerStepMeans DEF upper_owner_bits, owner_implicit_bits
<1> QED
  BY <1>1, <1>2, ContextStepAgrees, DenyStepAgrees, DaclStepAgrees, OwnerStepAgrees DEF StepsAgree

\* build_explanation, trace_groups and permission_graph_with, for every request: every ACE
\* that bounds the result is named, every decided bit leads back to the account, a membership
\* that is not listed cannot matter, and the steps on the logon, the Deny ACEs, the DACL and the
\* owner are true of the evaluation: what the owner step says of the implicit grant holds in every
\* possible world, unless it says UNCERTAIN while an OWNER RIGHTS ACE is in the DACL.
THEOREM ExplanationIsTrueAlways == Spec => []ExplanationIsTrue
<1>1. Evaluated => RoutesLead
  BY DecidedLeads, NtfsBitsAdd, ShareBitsAdd DEF RoutesLead
<1>2. Evaluated => BoundsAreNamed /\ RoutesLead /\ UnlistedIsIrrelevant /\ StepsAgree
  BY <1>1, NamedBounds, UnlistedIrrelevant, TextsAgree
<1>3. TypeOK /\ EvaluationInv /\ ResultInv => ExplanationIsTrue
  BY <1>2 DEF ExplanationIsTrue, Evaluated
<1> QED
  BY <1>3, ResultInvariant, PTL
============================================================================
