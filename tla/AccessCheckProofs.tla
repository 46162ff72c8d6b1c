-------------------------- MODULE AccessCheckProofs --------------------------
(***************************************************************************)
(* Every walk of the evaluation is a Windows access check, and the bounds  *)
(* the engine reports contain the rights of every token Windows may build. *)
(***************************************************************************)
EXTENDS PermissionEngineProofs

\* What a walk matches depends on the request and the collected local groups only.
LEMMA MatchUnchanged ==
    ASSUME in' = in, lg' = lg
    PROVE  /\ uncertain' = uncertain /\ share_uncertain' = share_uncertain
           /\ upper_owner_bits' = upper_owner_bits
           /\ owner_implicit_bits' = owner_implicit_bits
           /\ \A w : Dacl(w)' = Dacl(w)
           /\ \A w, ace : Applies(w, ace)' <=> Applies(w, ace)
<1>1. TokenGroups' = TokenGroups
  BY DEF TokenGroups
<1>2. user_sids' = user_sids /\ (crypto_operators_uncertain' <=> crypto_operators_uncertain)
  BY <1>1 DEF user_sids, crypto_operators_uncertain
<1>3. (user_is_owner' <=> user_is_owner) /\ (has_owner_rights_ace' <=> has_owner_rights_ace)
  BY <1>2 DEF user_is_owner, has_owner_rights_ace
<1>4. match_sids' = match_sids
  BY <1>2, <1>3 DEF match_sids
<1>5. /\ deny_only_sids' = deny_only_sids
      /\ uac_filter_certain' <=> uac_filter_certain
      /\ uncertain_owner' <=> uncertain_owner
  BY DEF deny_only_sids, uac_filter_certain, uncertain_owner
<1>6. logon_dependent_groups' = logon_dependent_groups
  BY <1>2 DEF logon_dependent_groups
<1>7. owner_implicit_bits' = owner_implicit_bits /\ upper_owner_bits' = upper_owner_bits
  BY <1>3, <1>5 DEF owner_implicit_bits, upper_owner_bits
<1>8. \A ace : UncertainAce(ace)' <=> UncertainAce(ace)
  BY <1>4, <1>5, <1>6 DEF UncertainAce
<1>9. uncertain' = uncertain
  BY <1>8 DEF uncertain
<1>10. share_token' = share_token
  BY DEF share_token, ShareEnabledGroups, ShareUncertainGroups, PolicyDecidesEveryone
<1>11. \A ace : UncertainShareAce(ace)' <=> UncertainShareAce(ace)
  BY <1>5, <1>10 DEF UncertainShareAce
<1>12. share_uncertain' = share_uncertain
  BY <1>11 DEF share_uncertain
<1>13. \A w : Certain(w)' = Certain(w) /\ Undecided(w)' = Undecided(w)
  BY <1>4, <1>9, <1>10, <1>12 DEF Certain, Undecided
<1>14. \A w : allow_matches(w)' = allow_matches(w) /\ deny_matches(w)' = deny_matches(w)
  BY <1>5, <1>13 DEF allow_matches, deny_matches
<1>15. \A w, ace : Applies(w, ace)' <=> Applies(w, ace)
  BY <1>14 DEF Applies
<1>16. \A w : Dacl(w)' = Dacl(w)
  BY DEF Dacl
<1> QED
  BY <1>7, <1>9, <1>12, <1>15, <1>16

\* So do the decisions of its ACEs.
LEMMA DecisionsUnchanged ==
    ASSUME in' = in, lg' = lg
    PROVE  \A w, k, r : /\ Decides(w, k, r)' <=> Decides(w, k, r)
                        /\ AllowsAt(w, k, r)' <=> AllowsAt(w, k, r)
                        /\ DeniesAt(w, k, r)' <=> DeniesAt(w, k, r)
<1>1. /\ \A w : Dacl(w)' = Dacl(w)
      /\ \A w, ace : Applies(w, ace)' <=> Applies(w, ace)
  BY MatchUnchanged
<1>2. \A w, k, r : Decides(w, k, r)' <=> Decides(w, k, r)
  BY <1>1 DEF Decides
<1> QED
  BY <1>1, <1>2 DEF AllowsAt, DeniesAt

\* A walk that does not move keeps its invariant.
LEMMA WalkKept ==
    ASSUME in' = in, lg' = lg, NEW v \in Walks, WalkInv(v),
           pos[v]' = pos[v], granted[v]' = granted[v], denied[v]' = denied[v]
    PROVE  WalkInv(v)'
<1>1. Dacl(v)' = Dacl(v)
  BY MatchUnchanged
<1>2. Walked(v)' <=> Walked(v)
  BY DEF Walked
<1> QED
  BY <1>1, <1>2, DecisionsUnchanged DEF WalkInv

\* One ACE: the decisions of the ACEs before it stay, its own undecided bits are added.
LEMMA WalkStep ==
    ASSUME TypeOK, NEW w \in Walks, WalkAce(w), WalkInv(w)
    PROVE  WalkInv(w)'
<1> DEFINE n    == pos[w]
           ace  == Dacl(w)[n]
           bits == NewBits(w, ace)
           G    == granted[w]
           D    == denied[w]
<1>1. in' = in /\ lg' = lg /\ pos[w]' = n + 1 /\ n \in Nat \ {0} /\ n <= Len(Dacl(w))
  BY DEF WalkAce, TypeOK
<1>2. /\ granted[w]' = IF ace.kind = "Allow" THEN G \cup bits ELSE G
      /\ denied[w]' = IF ace.kind = "Deny" THEN D \cup bits ELSE D
  BY DEF WalkAce, TypeOK
<1>3. ace \in Ace /\ (ace.kind = "Allow" \/ ace.kind = "Deny")
  BY <1>1, AceTyped DEF TypeOK, Ace, Kinds
<1>4. \A r : r \in bits <=> Decides(w, n, r) /\ r \notin G /\ r \notin D
  BY DEF NewBits, Decides
<1>5. Dacl(w)' = Dacl(w) /\ (Walked(w)' <=> Walked(w)) /\ Len(Dacl(w)) \in Nat
  BY <1>1, MatchUnchanged DEF Walked, TypeOK, IsInput, Dacl
<1>6. \A k, r : /\ Decides(w, k, r)' <=> Decides(w, k, r)
                /\ AllowsAt(w, k, r)' <=> AllowsAt(w, k, r)
                /\ DeniesAt(w, k, r)' <=> DeniesAt(w, k, r)
  BY <1>1, DecisionsUnchanged
<1>7. pos[w]' <= Len(Dacl(w))' + 1
  BY <1>1, <1>5
<1>8. G \subseteq Rights /\ D \subseteq Rights
  BY DEF TypeOK
<1>9. \A k \in 1 .. n : k \in 1 .. n - 1 \/ k = n
  BY <1>1
<1>10. \A k, r : (AllowsAt(w, k, r) => Decides(w, k, r)) /\ (DeniesAt(w, k, r) => Decides(w, k, r))
                 /\ ~ (AllowsAt(w, k, r) /\ DeniesAt(w, k, r))
  BY DEF AllowsAt, DeniesAt
<1>11. \A r \in bits : (ace.kind = "Allow" => AllowsAt(w, n, r)) /\ (ace.kind = "Deny" => DeniesAt(w, n, r))
  BY <1>4 DEF AllowsAt, DeniesAt
<1>12. \A r \in bits : r \in Rights
  BY <1>3, <1>4, ExpandTyped DEF Decides, Ace
<1> HIDE DEF ace, bits
<1>13. ASSUME Walked(w)
       PROVE  /\ granted[w]' \cap denied[w]' = {}
              /\ \A k \in 1 .. n : \A r \in Rights : Decides(w, k, r) => r \in granted[w]' \cup denied[w]'
              /\ \A r \in granted[w]' : \E k \in 1 .. n :
                    AllowsAt(w, k, r) /\ \A m \in 1 .. k - 1 : ~ DeniesAt(w, m, r)
              /\ \A r \in denied[w]' : \E k \in 1 .. n :
                    DeniesAt(w, k, r) /\ \A m \in 1 .. k - 1 : ~ AllowsAt(w, m, r)
  <2>1. G \cap D = {} /\ \A k \in 1 .. n - 1 : \A r \in Rights : Decides(w, k, r) => r \in G \cup D
    BY <1>13 DEF WalkInv
  <2>2. /\ \A r \in G : \E k \in 1 .. n - 1 : AllowsAt(w, k, r) /\ \A m \in 1 .. k - 1 : ~ DeniesAt(w, m, r)
        /\ \A r \in D : \E k \in 1 .. n - 1 : DeniesAt(w, k, r) /\ \A m \in 1 .. k - 1 : ~ AllowsAt(w, m, r)
    BY <1>13 DEF WalkInv
  <2>3. \A r \in bits : \A m \in 1 .. n - 1 : ~ Decides(w, m, r)
    BY <1>4, <1>12, <2>1
  <2>4. granted[w]' \cap denied[w]' = {}
    BY <1>2, <1>4, <2>1
  <2>5. \A k \in 1 .. n : \A r \in Rights : Decides(w, k, r) => r \in granted[w]' \cup denied[w]'
    BY <1>2, <1>3, <1>4, <1>9, <2>1
  <2>6. ASSUME NEW r \in granted[w]'
        PROVE  \E k \in 1 .. n : AllowsAt(w, k, r) /\ \A m \in 1 .. k - 1 : ~ DeniesAt(w, m, r)
    <3>1. CASE r \in G
      BY <1>1, <2>2, <3>1
    <3>2. CASE r \in bits /\ ace.kind = "Allow"
      BY <1>1, <1>10, <1>11, <2>3, <3>2
    <3> QED
      BY <1>2, <2>6, <3>1, <3>2
  <2>7. ASSUME NEW r \in denied[w]'
        PROVE  \E k \in 1 .. n : DeniesAt(w, k, r) /\ \A m \in 1 .. k - 1 : ~ AllowsAt(w, m, r)
    <3>1. CASE r \in D
      BY <1>1, <2>2, <3>1
    <3>2. CASE r \in bits /\ ace.kind = "Deny"
      BY <1>1, <1>10, <1>11, <2>3, <3>2
    <3> QED
      BY <1>2, <2>7, <3>1, <3>2
  <2> QED
    BY <2>4, <2>5, <2>6, <2>7
<1>14. pos[w]' - 1 = n
  BY <1>1
<1> QED
  BY <1>5, <1>6, <1>7, <1>13, <1>14 DEF WalkInv

----------------------------------------------------------------------------
\* Before the local groups are collected no walk has begun.
LEMMA EvaluationInit == Init => EvaluationInv
<1> SUFFICES ASSUME Init PROVE EvaluationInv
  OBVIOUS
<1>1. IsInput(in)
  BY InputsAssumption DEF Init
<1>2. \A w \in Walks : pos[w] = 1 /\ granted[w] = {} /\ denied[w] = {}
  BY DEF Init
<1>3. \A w \in Walks : Len(Dacl(w)) \in Nat
  BY <1>1 DEF IsInput, Dacl
<1>4. \A w \in Walks : WalkInv(w)
  BY <1>2, <1>3 DEF WalkInv
<1>5. StageInv
  BY <1>2 DEF Init, StageInv, ShareWalks
<1> QED
  BY <1>4, <1>5 DEF EvaluationInv

\* Steps that walk no ACE leave every walk alone.
LEMMA OtherStep ==
    ASSUME EvaluationInv, in' = in, lg' = lg, pos' = pos, denied' = denied,
           \A v \in Walks : granted[v]' = granted[v] \/ ~ Walked(v)
    PROVE  \A v \in Walks : WalkInv(v)'
<1> SUFFICES ASSUME NEW v \in Walks PROVE WalkInv(v)'
  OBVIOUS
<1>1. WalkInv(v)
  BY DEF EvaluationInv
<1>2. CASE granted[v]' = granted[v]
  BY <1>1, <1>2, WalkKept
<1>3. CASE ~ Walked(v)
  <2>1. Dacl(v)' = Dacl(v)
    BY MatchUnchanged
  <2>2. ~ Walked(v)'
    BY <1>3 DEF Walked
  <2> QED
    BY <1>1, <2>1, <2>2 DEF WalkInv
<1> QED
  BY <1>2, <1>3

\* A finished walk has looked at every ACE.
LEMMA FinishedComplete ==
    ASSUME TypeOK, NEW w \in Walks, WalkInv(w), WalkFinished(w)
    PROVE  Complete(w)
<1>1. Len(Dacl(w)) \in Nat /\ pos[w] \in Nat
  BY DEF TypeOK, IsInput, Dacl
<1> QED
  BY <1>1 DEF WalkInv, WalkFinished, Complete

\* Every stage keeps the invariant: one step per action of evaluate and its callers.
LEMMA EvaluationStep == TypeOK /\ EvaluationInv /\ [Next]_vars => EvaluationInv'
<1> SUFFICES ASSUME TypeOK, EvaluationInv, [Next]_vars PROVE EvaluationInv'
  OBVIOUS
<1> USE DEF EvaluationInv
<1>1. CASE CollectLocalGroups
  <2>1. \A w \in Walks : pos[w] = 1 /\ granted[w] = {} /\ denied[w] = {}
    BY <1>1 DEF CollectLocalGroups, StageInv
  <2>2. in' = in /\ pos' = pos /\ granted' = granted /\ denied' = denied /\ bounds' = bounds
    BY <1>1 DEF CollectLocalGroups, walkVars
  <2>3. \A w \in Walks : Len(Dacl(w))' \in Nat
    BY <2>2 DEF TypeOK, IsInput, Dacl
  <2>4. \A w \in Walks : WalkInv(w)'
    BY <2>1, <2>2, <2>3 DEF WalkInv
  <2>5. pc' = "share" /\ lg' = collect_local_groups_on(in) /\ bounds = NoBounds
    BY <1>1 DEF CollectLocalGroups, StageInv
  <2>6. (collect_local_groups_on(in))' = collect_local_groups_on(in)
    BY <2>2
  <2>7. StageInv'
    BY <2>2, <2>5, <2>6 DEF StageInv, NoBounds
  <2> QED
    BY <2>4, <2>7
<1>2. ASSUME NEW w \in Walks, WalkAce(w) PROVE EvaluationInv'
  <2>1. in' = in /\ lg' = lg /\ pc' = pc /\ bounds' = bounds /\ result' = result /\ pc = w
    BY <1>2 DEF WalkAce
  <2>2. \A v \in Walks \ {w} : pos[v]' = pos[v] /\ granted[v]' = granted[v] /\ denied[v]' = denied[v]
    BY <1>2 DEF WalkAce, TypeOK
  <2>3. \A v \in Walks : WalkInv(v)'
    <3>1. WalkInv(w)'
      BY <1>2, WalkStep
    <3>2. \A v \in Walks \ {w} : WalkInv(v)'
      BY <2>1, <2>2, WalkKept
    <3> QED
      BY <3>1, <3>2
  <2>4. \A v : Dacl(v)' = Dacl(v)
    BY <2>1, MatchUnchanged
  <2>5. (collect_local_groups_on(in))' = collect_local_groups_on(in)
    BY <2>1
  <2>6. pc \notin {"local", "combine", "done"}
    BY <2>1 DEF Walks, ShareWalks, NtfsWalks
  <2>7. StageInv'
    BY <2>1, <2>2, <2>4, <2>5, <2>6 DEF StageInv, Complete, NoBounds, Walks, NtfsWalks
  <2> QED
    BY <2>3, <2>7
<1>3. CASE ResolveShare \/ ShareShownDone \/ ShareMaxDone \/ ShareMinDone
  <2>1. in' = in /\ lg' = lg /\ pos' = pos /\ granted' = granted /\ denied' = denied /\ bounds' = bounds
    BY <1>3 DEF ResolveShare, ShareShownDone, ShareMaxDone, ShareMinDone, walkVars
  <2>2. pc # "local" /\ pc \notin {"combine", "done"} /\ pc' \in {"ntfs"} \cup ShareWalks
    BY <1>3 DEF ResolveShare, ShareShownDone, ShareMaxDone, ShareMinDone, WalkFinished, ShareWalks
  <2>3. \A v \in Walks : WalkInv(v)'
    BY <2>1, OtherStep
  <2>4. (collect_local_groups_on(in))' = collect_local_groups_on(in)
    BY <2>1
  <2>5. StageInv'
    BY <2>1, <2>2, <2>4 DEF StageInv, ShareWalks, NoBounds
  <2> QED
    BY <2>3, <2>5
<1>4. CASE StartNtfs
  <2>1. in' = in /\ lg' = lg /\ pos' = pos /\ denied' = denied /\ bounds' = bounds /\ pc = "ntfs"
    BY <1>4 DEF StartNtfs
  <2>2. \A v \in Walks : granted[v]' = granted[v] \/ ~ Walked(v)
    BY <1>4 DEF StartNtfs, Walked, TypeOK
  <2>3. \A v \in Walks : WalkInv(v)'
    BY <2>1, <2>2, OtherStep
  <2>4. (collect_local_groups_on(in))' = collect_local_groups_on(in)
    BY <2>1
  <2>5. \/ in.nullDacl /\ pc' = "combine" /\ granted["ntfsShown"]' = FullControl
        \/ ~ in.nullDacl /\ pc' = "ntfsShown"
    BY <1>4 DEF StartNtfs, TypeOK, Walks, NtfsWalks
  <2>6. StageInv'
    BY <2>1, <2>4, <2>5 DEF StageInv, NoBounds
  <2> QED
    BY <2>3, <2>6
<1>5. CASE NtfsShownDone \/ NtfsMaxDone \/ NtfsMinDone
  <2>1. in' = in /\ lg' = lg /\ pos' = pos /\ granted' = granted /\ denied' = denied
    BY <1>5 DEF NtfsShownDone, NtfsMaxDone, NtfsMinDone, walkVars
  <2>2. \A v \in Walks : WalkInv(v)'
    BY <2>1, OtherStep
  <2>3. (collect_local_groups_on(in))' = collect_local_groups_on(in)
    BY <2>1
  <2>4. /\ uncertain' = uncertain
        /\ upper_owner_bits' = upper_owner_bits /\ owner_implicit_bits' = owner_implicit_bits
        /\ \A v : Dacl(v)' = Dacl(v)
    BY <2>1, MatchUnchanged
  <2>5. NtfsMinimum' = NtfsMinimum /\ NtfsMaximum' = NtfsMaximum
    BY <2>1, <2>4 DEF NtfsMinimum, NtfsMaximum
  <2>6. \A v : Complete(v)' <=> Complete(v)
    BY <2>1, <2>4 DEF Complete
  <2>7. CASE NtfsShownDone
    <3>1. Complete("ntfsShown")
      BY <2>7, FinishedComplete DEF NtfsShownDone, Walks, NtfsWalks
    <3>2. pc = "ntfsShown" /\ bounds' = bounds
      BY <2>7 DEF NtfsShownDone, WalkFinished
    <3>3. \/ uncertain = {} /\ upper_owner_bits = owner_implicit_bits /\ pc' = "combine"
          \/ pc' = "ntfsMax"
      BY <2>7 DEF NtfsShownDone
    <3>4. StageInv'
      BY <2>1, <2>3, <2>4, <2>6, <3>1, <3>2, <3>3 DEF StageInv, NoBounds
    <3> QED
      BY <2>2, <3>4
  <2>8. CASE NtfsMaxDone
    <3>1. Complete("ntfsMax")
      BY <2>8, FinishedComplete DEF NtfsMaxDone, Walks, NtfsWalks
    <3>2. pc = "ntfsMax" /\ bounds' = bounds /\ pc' = "ntfsMin"
      BY <2>8 DEF NtfsMaxDone, WalkFinished
    <3>3. StageInv'
      BY <2>1, <2>3, <2>6, <3>1, <3>2 DEF StageInv, NoBounds
    <3> QED
      BY <2>2, <3>3
  <2>9. CASE NtfsMinDone
    <3>1. Complete("ntfsMin")
      BY <2>9, FinishedComplete DEF NtfsMinDone, Walks, NtfsWalks
    <3>2. pc = "ntfsMin" /\ pc' = "combine"
      BY <2>9 DEF NtfsMinDone, WalkFinished
    <3>3. bounds' = IF NtfsMinimum = NtfsMaximum THEN NoBounds
                    ELSE [known |-> TRUE, min |-> NtfsMinimum, max |-> NtfsMaximum]
      BY <2>9 DEF NtfsMinDone, NtfsMinimum, NtfsMaximum
    <3>4. /\ lg = collect_local_groups_on(in) /\ ~ in.nullDacl
          /\ Complete("ntfsShown") /\ Complete("ntfsMax")
      BY <3>2 DEF StageInv
    <3>5. StageInv'
      BY <2>1, <2>3, <2>5, <2>6, <3>1, <3>2, <3>3, <3>4 DEF StageInv, NoBounds
    <3> QED
      BY <2>2, <3>5
  <2> QED
    BY <1>5, <2>7, <2>8, <2>9
<1>6. CASE Combine
  <2>1. /\ in' = in /\ lg' = lg /\ pos' = pos /\ granted' = granted /\ denied' = denied
        /\ bounds' = bounds /\ pc = "combine" /\ pc' = "done"
        /\ result'.ntfs = granted["ntfsShown"] \cup owner_implicit_bits
    BY <1>6 DEF Combine, CombinedResult, walkVars
  <2>2. \A v \in Walks : WalkInv(v)'
    BY <2>1, OtherStep
  <2>3. (collect_local_groups_on(in))' = collect_local_groups_on(in)
    BY <2>1
  <2>4. /\ uncertain' = uncertain
        /\ upper_owner_bits' = upper_owner_bits /\ owner_implicit_bits' = owner_implicit_bits
        /\ \A v : Dacl(v)' = Dacl(v)
    BY <2>1, MatchUnchanged
  <2>5. NtfsMinimum' = NtfsMinimum /\ NtfsMaximum' = NtfsMaximum
    BY <2>1, <2>4 DEF NtfsMinimum, NtfsMaximum
  <2>6. \A v : Complete(v)' <=> Complete(v)
    BY <2>1, <2>4 DEF Complete
  <2>7. StageInv'
    BY <2>1, <2>3, <2>4, <2>5, <2>6 DEF StageInv, NoBounds
  <2> QED
    BY <2>2, <2>7
<1>7. CASE Finished \/ UNCHANGED vars
  <2>1. /\ in' = in /\ lg' = lg /\ pos' = pos /\ granted' = granted /\ denied' = denied
        /\ bounds' = bounds /\ pc' = pc /\ result' = result
    BY <1>7 DEF Finished, vars
  <2>2. \A v \in Walks : WalkInv(v)'
    BY <2>1, OtherStep
  <2>3. (collect_local_groups_on(in))' = collect_local_groups_on(in)
    BY <2>1
  <2>4. /\ uncertain' = uncertain
        /\ upper_owner_bits' = upper_owner_bits /\ owner_implicit_bits' = owner_implicit_bits
        /\ \A v : Dacl(v)' = Dacl(v)
    BY <2>1, MatchUnchanged
  <2>5. NtfsMinimum' = NtfsMinimum /\ NtfsMaximum' = NtfsMaximum
    BY <2>1, <2>4 DEF NtfsMinimum, NtfsMaximum
  <2>6. \A v : Complete(v)' <=> Complete(v)
    BY <2>1, <2>4 DEF Complete
  <2>7. StageInv'
    BY <2>1, <2>3, <2>4, <2>5, <2>6 DEF StageInv, NoBounds
  <2> QED
    BY <2>2, <2>7
<1> QED
  BY <1>1, <1>2, <1>3, <1>4, <1>5, <1>6, <1>7 DEF Next

\* The strengthening all results below rest on.
LEMMA EvaluationInvariant == Spec => [](TypeOK /\ EvaluationInv)
  BY TypeCorrect, EvaluationInit, EvaluationStep, PTL DEF Spec

----------------------------------------------------------------------------
\* An ACE applies to a walk when it is effective and its trustee is matched.
LEMMA AppliesToTrustee ==
    ASSUME IsInput(in), NEW w \in Walks, NEW k \in DOMAIN Dacl(w)
    PROVE  /\ Dacl(w)[k].kind = "Allow" =>
                (Applies(w, Dacl(w)[k]) <=>
                    ~ Dacl(w)[k].inheritOnly /\ Dacl(w)[k].sid \in allow_matches(w))
           /\ Dacl(w)[k].kind = "Deny" =>
                (Applies(w, Dacl(w)[k]) <=>
                    ~ Dacl(w)[k].inheritOnly /\ Dacl(w)[k].sid \in deny_matches(w))
<1>1. w \in ShareWalks => ~ Dacl(w)[k].inheritOnly
  BY DEF IsInput, Dacl
<1> QED
  BY <1>1 DEF Applies, ace_applies_to_current_object

\* A walk over the whole DACL has granted exactly what an access check grants.
LEMMA CompleteWalk ==
    ASSUME TypeOK, NEW w \in Walks, WalkInv(w), Walked(w), Complete(w)
    PROVE  granted[w] = Accessible(Dacl(w), allow_matches(w), deny_matches(w))
<1> DEFINE d == Dacl(w)
           A == allow_matches(w)
           D == deny_matches(w)
           Grant(r) == \E k \in DOMAIN d : AllowsAt(w, k, r) /\ \A m \in 1 .. k - 1 : ~ DeniesAt(w, m, r)
<1>1. Len(d) \in Nat /\ DOMAIN d = 1 .. Len(d) /\ pos[w] - 1 = Len(d) /\ IsInput(in)
  BY DEF TypeOK, IsInput, Dacl, Complete
<1>3. \A r : r \in Accessible(d, A, D) <=> r \in Rights /\ Grant(r)
  <2>1. \A k \in DOMAIN d : \A r : AllowsAt(w, k, r) <=>
            /\ d[k].kind = "Allow" /\ ~ d[k].inheritOnly /\ d[k].sid \in A
            /\ r \in expand_generic_rights(d[k].mask)
    BY <1>1, AppliesToTrustee DEF AllowsAt, Decides
  <2>2. \A k \in DOMAIN d : \A r : DeniesAt(w, k, r) <=>
            /\ d[k].kind = "Deny" /\ ~ d[k].inheritOnly /\ d[k].sid \in D
            /\ r \in expand_generic_rights(d[k].mask)
    BY <1>1, AppliesToTrustee DEF DeniesAt, Decides
  <2>3. \A k \in DOMAIN d : 1 .. k - 1 \subseteq DOMAIN d
    BY <1>1
  <2> HIDE DEF d, A, D
  <2> QED
    BY <2>1, <2>2, <2>3 DEF Accessible
<1>4. granted[w] \subseteq Rights
  BY DEF TypeOK
<1>5. ASSUME NEW r \in granted[w] PROVE Grant(r)
  <2>1. \E k \in 1 .. pos[w] - 1 : AllowsAt(w, k, r) /\ \A m \in 1 .. k - 1 : ~ DeniesAt(w, m, r)
    BY DEF WalkInv
  <2> HIDE DEF d
  <2> QED
    BY <1>1, <2>1
<1>6. ASSUME NEW r \in Rights, Grant(r) PROVE r \in granted[w]
  <2>1. PICK k \in DOMAIN d : AllowsAt(w, k, r) /\ \A m \in 1 .. k - 1 : ~ DeniesAt(w, m, r)
    BY <1>6
  <2>2. r \in granted[w] \cup denied[w]
    BY <1>1, <2>1 DEF WalkInv, AllowsAt
  <2>3. ASSUME r \in denied[w] PROVE FALSE
    <3>1. PICK j \in DOMAIN d : DeniesAt(w, j, r) /\ \A m \in 1 .. j - 1 : ~ AllowsAt(w, m, r)
      BY <1>1, <2>3 DEF WalkInv
    <3>2. j # k
      BY <2>1, <3>1 DEF AllowsAt, DeniesAt
    <3>3. j \in 1 .. k - 1 \/ k \in 1 .. j - 1
      BY <1>1, <3>2
    <3> QED
      BY <2>1, <3>1, <3>3
  <2> QED
    BY <2>2, <2>3
<1> HIDE DEF d, A, D, Grant
<1>7. granted[w] = Accessible(d, A, D)
  BY <1>3, <1>4, <1>5, <1>6
<1> QED
  BY <1>7 DEF d, A, D

\* The shown walk, the bounds and the share walks each compute an access check: no
\* order of ACEs makes walk_dacl_stored_order, walk_granted_with or share_walk drift.
THEOREM WalksAreAccessChecksAlways == Spec => []WalksAreAccessChecks
<1>1. TypeOK /\ EvaluationInv => WalksAreAccessChecks
  BY CompleteWalk DEF EvaluationInv, WalksAreAccessChecks
<1> QED
  BY <1>1, EvaluationInvariant, PTL

\* More Allow trustees and fewer Deny trustees never take a right away.
LEMMA AccessibleMonotone ==
    ASSUME NEW dacl, NEW a1, NEW d1, NEW a2, NEW d2,
           \A k \in DOMAIN dacl : 1 .. k - 1 \subseteq DOMAIN dacl,
           \A k \in DOMAIN dacl : dacl[k].kind = "Allow" /\ ~ dacl[k].inheritOnly =>
               (dacl[k].sid \in a1 => dacl[k].sid \in a2),
           \A k \in DOMAIN dacl : dacl[k].kind = "Deny" /\ ~ dacl[k].inheritOnly =>
               (dacl[k].sid \in d2 => dacl[k].sid \in d1)
    PROVE  Accessible(dacl, a1, d1) \subseteq Accessible(dacl, a2, d2)
<1> SUFFICES ASSUME NEW r \in Accessible(dacl, a1, d1) PROVE r \in Accessible(dacl, a2, d2)
  OBVIOUS
<1>1. PICK k \in DOMAIN dacl :
        /\ dacl[k].kind = "Allow" /\ ~ dacl[k].inheritOnly /\ dacl[k].sid \in a1
        /\ r \in expand_generic_rights(dacl[k].mask)
        /\ \A j \in 1 .. k - 1 :
             ~ /\ dacl[j].kind = "Deny" /\ ~ dacl[j].inheritOnly /\ dacl[j].sid \in d1
               /\ r \in expand_generic_rights(dacl[j].mask)
  BY DEF Accessible
<1>2. \A j \in 1 .. k - 1 :
        ~ /\ dacl[j].kind = "Deny" /\ ~ dacl[j].inheritOnly /\ dacl[j].sid \in d2
          /\ r \in expand_generic_rights(dacl[j].mask)
  BY <1>1
<1> QED
  BY <1>1, <1>2 DEF Accessible

----------------------------------------------------------------------------
\* The token Stars computes against the tokens Windows may build.  The two lists of
\* local groups, and what the target's policies decided.
LEMMA LocalGroupsCollected ==
    ASSUME IsInput(in), lg = collect_local_groups_on(in), TokenKnown, NEW w \in PossibleWorlds
    PROVE  /\ lg.sids \subseteq RealLocalGroups(w)
           /\ RealLocalGroups(w) \subseteq lg.sids \cup lg.logon_dependent
           /\ lg.anonymous_everyone = IF in.user = AnonymousLogon
                                      THEN anonymous_everyone(in.anonymousPolicy) ELSE "None"
<1> DEFINE an    == IF in.user = AnonymousLogon THEN anonymous_everyone(in.anonymousPolicy) ELSE "None"
           token == build_token_sids_with_context(in.user, in.history, in.memberships, {}, in.context)
                      \cup (IF anonymous_gets_everyone(in.user, an) THEN {Everyone} ELSE {})
           Sure(g)  == g.members \cap token # {}
           Maybe2(g) == \E s \in g.members \ token :
                            \/ is_logon_dependent_for(s, in.context, token)
                            \/ s \in uncertain_well_knowns_with(in.user, an)
<1>1. Possible(w) /\ w.logon \subseteq PossibleLogonSids
  BY DEF PossibleWorlds, Worlds
<1>2. in.table.readable
  BY DEF TokenKnown, collect_local_groups_on
<1>3. /\ lg.sids = {g.sid : g \in {h \in in.table.groups : Sure(h)}}
      /\ lg.logon_dependent = {g.sid : g \in {h \in in.table.groups : ~ Sure(h) /\ Maybe2(h)}}
      /\ lg.anonymous_everyone = an
  BY <1>2 DEF collect_local_groups_on, expand_local_groups_with
<1>4. an = "True" <=> in.user = AnonymousLogon /\ in.anonymousPolicy = "1"
  BY DEF anonymous_everyone
<1>5. an = "None" /\ in.user = AnonymousLogon <=> in.user = AnonymousLogon /\ in.anonymousPolicy = "Other"
  BY DEF anonymous_everyone
<1>6. in.anonymousPolicy \in Policy
  BY DEF IsInput
<1> DEFINE base == {in.user} \cup in.history \cup MembershipSids(in.memberships) \cup ContextWellKnowns(in.context)
<1>7. \A s : s \in token <=>
        \/ s \in base
        \/ s = Everyone /\ (in.user # AnonymousLogon \/ an = "True")
        \/ s = AuthenticatedUsers /\ in.user # AnonymousLogon /\ in.user \notin GuestAccounts
  BY <1>4 DEF build_token_sids_with_context, identity_uncertain_well_knowns, identity_absent_well_knowns,
         anonymous_gets_everyone, Everyone, AuthenticatedUsers
<1>8. \A s : s \in RealBase(w) <=>
        \/ s \in base \/ s \in w.logon
        \/ s = Everyone /\ w.everyone
        \/ s = AuthenticatedUsers /\ in.user # AnonymousLogon /\ in.user \notin GuestAccounts
  BY DEF RealBase
<1> HIDE DEF base, token, an
<1>9. token \subseteq RealBase(w)
  BY <1>1, <1>4, <1>7, <1>8 DEF Possible
<1>10. \A s \in RealBase(w) \ token :
        \/ is_logon_dependent_for(s, in.context, token)
        \/ s \in uncertain_well_knowns_with(in.user, an)
  <2> SUFFICES ASSUME NEW s \in RealBase(w), s \notin token
               PROVE  \/ is_logon_dependent_for(s, in.context, token)
                      \/ s \in uncertain_well_knowns_with(in.user, an)
    OBVIOUS
  <2>1. CASE s \in w.logon
    <3>1. is_logon_dependent_sid(s, in.context)
      BY <1>1, <2>1 DEF PossibleLogonSids
    <3>2. ~ {ThisOrganization, OtherOrganization} \subseteq RealBase(w)
      BY <1>1 DEF Possible
    <3> QED
      BY <1>9, <3>1, <3>2 DEF is_logon_dependent_for
  <2>2. CASE s = Everyone /\ w.everyone
    <3>1. in.user = AnonymousLogon /\ an # "True"
      BY <1>7, <2>2
    <3>2. in.anonymousPolicy = "Other"
      BY <1>1, <1>4, <1>6, <2>2, <3>1 DEF Possible, Policy
    <3> QED
      BY <1>5, <2>2, <3>1, <3>2 DEF uncertain_well_knowns_with, identity_uncertain_well_knowns
  <2> QED
    BY <1>7, <1>8, <2>1, <2>2
<1>11. lg.sids \subseteq RealLocalGroups(w)
  BY <1>3, <1>9 DEF RealLocalGroups
<1>12. RealLocalGroups(w) \subseteq lg.sids \cup lg.logon_dependent
  <2> SUFFICES ASSUME NEW g \in in.table.groups, g.members \cap RealBase(w) # {}
               PROVE  g.sid \in lg.sids \cup lg.logon_dependent
    BY DEF RealLocalGroups
  <2>1. Sure(g) \/ Maybe2(g)
    BY <1>10
  <2> QED
    BY <1>3, <2>1
<1> QED
  BY <1>3, <1>11, <1>12 DEF an

\* User Account Control: what is filtered for certain, and what may be.
LEMMA FilteredGroups ==
    ASSUME IsInput(in), lg = collect_local_groups_on(in), TokenKnown, NEW w \in PossibleWorlds
    PROVE  /\ \A s \in lg.uac_filtered :
                 \/ s \in MembershipSids(in.memberships) \cup lg.sids /\ is_uac_filtered_group(s)
                 \/ /\ s = LocalAccountAndAdmin /\ in.localAccount
                    /\ Administrators \in MembershipSids(in.memberships) \cup lg.sids
           /\ w.filtered => \A s \in MembershipSids(in.memberships) \cup lg.sids :
                 is_uac_filtered_group(s) => s \in lg.uac_filtered
           /\ lg.remote_uac = "Filtered" => w.filtered
<1> DEFINE groups == MembershipSids(in.memberships) \cup lg.sids
           fi == uac_filtered_groups(groups, in.localAccount, in.context)
           re == IF ~ in.localAccount \/ fi = {} THEN "Unknown"
                 ELSE IF in.context = "RemoteSmb"
                 THEN remote_uac_filtering(in.builtinAdmin, in.lua, in.latfp, in.fat)
                 ELSE IF in.context = "LocalInteractive"
                 THEN local_uac_filtering(in.builtinAdmin, in.lua, in.fat)
                 ELSE "Unknown"
<1>1. UacDecided(w)
  BY DEF PossibleWorlds, Possible
<1>2. in.table.readable
  BY DEF TokenKnown, collect_local_groups_on
<1>3. lg.remote_uac = re /\ lg.uac_filtered = IF re = "NotFiltered" THEN {} ELSE fi
  BY <1>2 DEF collect_local_groups_on, uac_filtered_token_groups
<1>4. {in.lua, in.latfp, in.fat} \subseteq Policy
  BY DEF IsInput
<1>5. re = "Filtered" => w.filtered
  BY <1>1, <1>4 DEF remote_uac_filtering, local_uac_filtering, UacDecided, Policy
<1>6. re = "NotFiltered" => ~ w.filtered
  BY <1>1, <1>4 DEF remote_uac_filtering, local_uac_filtering, UacDecided, Policy
<1>7. in.context = "RemoteSmb" /\ ~ in.localAccount => ~ w.filtered
  BY <1>1 DEF UacDecided
<1>8. /\ \A s \in fi : \/ s \in groups /\ is_uac_filtered_group(s)
                       \/ s = LocalAccountAndAdmin /\ in.localAccount /\ Administrators \in groups
      /\ ~ (in.context = "RemoteSmb" /\ ~ in.localAccount) =>
           \A s \in groups : is_uac_filtered_group(s) => s \in fi
  BY DEF uac_filtered_groups
<1> HIDE DEF re, fi
<1> QED
  BY <1>3, <1>5, <1>6, <1>7, <1>8

\* The well-known SIDs are told apart from each other and from every filtered group.
LEMMA SidsApart ==
    /\ \A s \in WellKnowns : ~ is_uac_filtered_group(s) /\ s # CryptographicOperators
    /\ ~ is_uac_filtered_group(CryptographicOperators)
    /\ \A c : ~ is_logon_dependent_sid(CryptographicOperators, c)
    /\ \A c : is_logon_dependent_sid(LocalAccountAndAdmin, c)
  BY SidAssumption DEF WellKnowns, is_uac_filtered_group, UacBuiltinGroups, is_logon_dependent_sid,
     AlwaysLogonDependent, LocalLogonSids, ContextSids, Everyone, AuthenticatedUsers, AnonymousLogon,
     NetworkLogon, InteractiveLogon, ThisOrganization, OtherOrganization, OwnerRights,
     LocalAccountAndAdmin, Administrators, CryptographicOperators

\* The members of the engine's token, source by source.
LEMMA TokenSources ==
    ASSUME IsInput(in), lg = collect_local_groups_on(in), TokenKnown, NEW w \in PossibleWorlds
    PROVE  LET known == {in.user} \cup in.history \cup MembershipSids(in.memberships)
                          \cup ContextWellKnowns(in.context)
           IN  /\ \A s : s \in TokenGroups =>
                     \/ s \notin lg.uac_filtered /\ s \in known \cup lg.sids
                     \/ s = Everyone /\ w.everyone
                     \/ s = AuthenticatedUsers /\ in.user # AnonymousLogon /\ in.user \notin GuestAccounts
               /\ (known \cup lg.sids) \ lg.uac_filtered \subseteq TokenGroups
               /\ w.everyone => Everyone \in TokenGroups
                                \/ Everyone \in uncertain_well_knowns_with(in.user, lg.anonymous_everyone)
               /\ in.user # AnonymousLogon /\ in.user \notin GuestAccounts
                     => AuthenticatedUsers \in TokenGroups
<1>1. Possible(w) /\ w.everyone \in BOOLEAN
  BY DEF PossibleWorlds, Worlds
<1>2. lg.anonymous_everyone = IF in.user = AnonymousLogon
                              THEN anonymous_everyone(in.anonymousPolicy) ELSE "None"
  BY LocalGroupsCollected
<1>3. in.anonymousPolicy \in Policy
  BY DEF IsInput
<1>4. Everyone \notin lg.uac_filtered /\ AuthenticatedUsers \notin lg.uac_filtered
  <2>1. \A s \in lg.uac_filtered : is_uac_filtered_group(s) \/ s = LocalAccountAndAdmin
    BY FilteredGroups
  <2> QED
    BY <2>1, SidsApart DEF WellKnowns, Everyone, AuthenticatedUsers, LocalAccountAndAdmin
<1>5. lg.anonymous_everyone = "True" <=> in.user = AnonymousLogon /\ in.anonymousPolicy = "1"
  BY <1>2 DEF anonymous_everyone
<1>6. in.user = AnonymousLogon => (lg.anonymous_everyone = "None" <=> in.anonymousPolicy = "Other")
  BY <1>2 DEF anonymous_everyone
<1> DEFINE known == {in.user} \cup in.history \cup MembershipSids(in.memberships)
                      \cup ContextWellKnowns(in.context)
<1>7. \A s : s \in TokenGroups <=>
        \/ s \in known \cup lg.sids /\ s \notin lg.uac_filtered
        \/ s = Everyone /\ (in.user # AnonymousLogon \/ lg.anonymous_everyone = "True")
        \/ s = AuthenticatedUsers /\ in.user # AnonymousLogon /\ in.user \notin GuestAccounts
  BY <1>4, <1>5 DEF TokenGroups, build_token_sids_with_context, identity_uncertain_well_knowns,
     identity_absent_well_knowns, anonymous_gets_everyone, Everyone, AuthenticatedUsers
<1> HIDE DEF known
<1>8. (in.user # AnonymousLogon \/ lg.anonymous_everyone = "True") => w.everyone
  BY <1>1, <1>5 DEF Possible
<1>9. w.everyone => \/ in.user # AnonymousLogon \/ lg.anonymous_everyone = "True"
                    \/ Everyone \in uncertain_well_knowns_with(in.user, lg.anonymous_everyone)
  BY <1>1, <1>3, <1>5, <1>6 DEF Possible, Policy, uncertain_well_knowns_with, identity_uncertain_well_knowns
<1> QED
  BY <1>7, <1>8, <1>9 DEF known

\* Every SID the engine counts as enabled is enabled in every possible token.
LEMMA EnabledForSure ==
    ASSUME IsInput(in), lg = collect_local_groups_on(in), TokenKnown, NEW w \in PossibleWorlds
    PROVE  user_sids \subseteq RealEnabled(w)
<1> DEFINE mem == MembershipSids(in.memberships)
<1> SUFFICES ASSUME NEW s \in user_sids PROVE s \in RealEnabled(w)
  OBVIOUS
<1>1. s \in TokenGroups /\ s # CryptographicOperators
  BY DEF user_sids
<1>2. lg.sids \subseteq RealLocalGroups(w)
  BY LocalGroupsCollected
<1>3. \/ /\ s \notin lg.uac_filtered
         /\ s \in {in.user} \cup in.history \cup mem \cup ContextWellKnowns(in.context) \cup lg.sids
      \/ s = Everyone /\ w.everyone
      \/ s = AuthenticatedUsers /\ in.user # AnonymousLogon /\ in.user \notin GuestAccounts
  BY <1>1, TokenSources
<1>4. s \in RealToken(w)
  BY <1>2, <1>3 DEF RealToken, RealBase
<1>5. ~ is_uac_filtered_group(s) \/ s \notin RealGroups(w) \/ ~ w.filtered
  <2> SUFFICES ASSUME is_uac_filtered_group(s), s \in mem \cup RealLocalGroups(w), w.filtered
               PROVE  FALSE
    BY DEF RealGroups
  <2>1. s \notin WellKnowns
    BY SidsApart
  <2>2. s # Everyone /\ s # AuthenticatedUsers /\ s \notin ContextWellKnowns(in.context)
    BY <2>1 DEF WellKnowns, ContextWellKnowns
  <2>3. s \notin mem \cup lg.sids
    BY <1>3, <2>2, FilteredGroups
  <2>4. s \in {in.user} \cup in.history
    BY <1>3, <2>2, <2>3
  <2>5. \A g \in in.table.groups : g.sid # s
    BY <2>4 DEF IsInput
  <2> QED
    BY <2>3, <2>5 DEF RealLocalGroups
<1>6. s # LocalAccountAndAdmin
  <2>1. LocalAccountAndAdmin \notin lg.sids
    BY <1>2 DEF RealLocalGroups, IsInput, WellKnowns
  <2>2. LocalAccountAndAdmin \notin ContextWellKnowns(in.context)
    BY DEF ContextWellKnowns, LocalAccountAndAdmin, NetworkLogon, InteractiveLogon
  <2>3. LocalAccountAndAdmin \notin {in.user} \cup in.history \cup mem
    BY DEF IsInput
  <2> QED
    BY <1>3, <2>1, <2>2, <2>3 DEF LocalAccountAndAdmin, Everyone, AuthenticatedUsers
<1> QED
  BY <1>1, <1>4, <1>5, <1>6 DEF RealEnabled, RealDenyOnly

\* Every SID of a possible token is in the engine's token, or in one of its three
\* kinds of doubt: the logon, a logon-dependent group, User Account Control.
LEMMA NothingForgotten ==
    ASSUME IsInput(in), lg = collect_local_groups_on(in), TokenKnown, NEW w \in PossibleWorlds
    PROVE  \A s \in RealToken(w) :
               \/ s \in user_sids
               \/ s \in logon_dependent_groups
               \/ is_logon_dependent_for(s, in.context, user_sids)
               \/ s \in deny_only_sids
<1> DEFINE mem == MembershipSids(in.memberships)
<1> SUFFICES ASSUME NEW s \in RealToken(w), s \notin user_sids, s \notin deny_only_sids,
                    s \notin logon_dependent_groups
             PROVE  is_logon_dependent_for(s, in.context, user_sids)
  OBVIOUS
<1>1. s \notin TokenGroups
  BY DEF user_sids, logon_dependent_groups, crypto_operators_uncertain
<1>2. s \notin {in.user} \cup in.history \cup mem \cup ContextWellKnowns(in.context) \cup lg.sids
  BY <1>1, TokenSources DEF deny_only_sids
<1>3. RealLocalGroups(w) \subseteq lg.sids \cup lg.logon_dependent
  BY LocalGroupsCollected
<1>4. s \notin RealLocalGroups(w)
  BY <1>2, <1>3 DEF logon_dependent_groups
<1>5. ~ (s = Everyone /\ w.everyone)
      /\ ~ (s = AuthenticatedUsers /\ in.user # AnonymousLogon /\ in.user \notin GuestAccounts)
  BY <1>1, TokenSources DEF logon_dependent_groups
<1>6. s \in w.logon \/ s = LocalAccountAndAdmin
  BY <1>2, <1>4, <1>5 DEF RealToken, RealBase
<1>7. CASE s = LocalAccountAndAdmin
  BY <1>7, SidsApart DEF is_logon_dependent_for, LocalAccountAndAdmin, ThisOrganization, OtherOrganization
<1>8. CASE s \in w.logon
  <2>1. is_logon_dependent_sid(s, in.context)
    BY <1>8 DEF PossibleWorlds, Worlds, PossibleLogonSids
  <2>2. ~ {ThisOrganization, OtherOrganization} \subseteq RealBase(w) /\ s \in RealBase(w)
    BY <1>8 DEF PossibleWorlds, Possible, RealBase
  <2>3. ASSUME NEW o \in {ThisOrganization, OtherOrganization}, o \in user_sids
        PROVE  o \in RealBase(w)
    <3>1. o \in TokenGroups
      BY <2>3 DEF user_sids
    <3>2. o \notin lg.sids
      <4>1. lg.sids \subseteq RealLocalGroups(w)
        BY LocalGroupsCollected
      <4> QED
        BY <4>1 DEF RealLocalGroups, IsInput, WellKnowns
    <3> QED
      BY <3>1, <3>2, TokenSources DEF RealBase
  <2> QED
    BY <2>1, <2>2, <2>3 DEF is_logon_dependent_for
<1> QED
  BY <1>6, <1>7, <1>8

\* The groups User Account Control may filter are in every possible token, enabled or
\* deny-only, and only deny-only once the target's policies decided.
LEMMA DenyOnlyForSure ==
    ASSUME IsInput(in), lg = collect_local_groups_on(in), TokenKnown, NEW w \in PossibleWorlds
    PROVE  /\ deny_only_sids \subseteq RealEnabled(w) \cup RealDenyOnly(w)
           /\ uac_filter_certain => deny_only_sids \cap RealEnabled(w) = {}
<1> SUFFICES ASSUME NEW s \in lg.uac_filtered
             PROVE  /\ s \in RealEnabled(w) \cup RealDenyOnly(w)
                    /\ uac_filter_certain => s \notin RealEnabled(w)
  BY DEF deny_only_sids
<1>1. \/ s \in MembershipSids(in.memberships) \cup lg.sids /\ is_uac_filtered_group(s)
      \/ /\ s = LocalAccountAndAdmin /\ in.localAccount
         /\ Administrators \in MembershipSids(in.memberships) \cup lg.sids
  BY FilteredGroups
<1>2. lg.sids \subseteq RealLocalGroups(w)
  BY LocalGroupsCollected
<1>3. \/ s \in RealGroups(w) /\ is_uac_filtered_group(s)
      \/ s = LocalAccountAndAdmin /\ RealAdmin(w)
  BY <1>1, <1>2 DEF RealGroups, RealAdmin
<1>4. s # CryptographicOperators
  BY <1>1, SidsApart DEF WellKnowns
<1>5. s \in RealToken(w)
  BY <1>3 DEF RealToken, RealGroups, RealBase
<1>6. uac_filter_certain => w.filtered
  BY FilteredGroups DEF uac_filter_certain
<1>7. w.filtered => s \in RealDenyOnly(w)
  BY <1>3 DEF RealDenyOnly
<1> QED
  BY <1>4, <1>5, <1>6, <1>7 DEF RealEnabled

\* An owner that User Account Control may filter is the account exactly in the worlds that do
\* not filter.
LEMMA FilteredOwner ==
    ASSUME IsInput(in), lg = collect_local_groups_on(in), TokenKnown, uncertain_owner,
           NEW w \in PossibleWorlds
    PROVE  RealOwner(w) <=> ~ w.filtered
<1> DEFINE s == in.owner
<1>1. s \in lg.uac_filtered
  BY DEF uncertain_owner, deny_only_sids
<1>2. \/ s \in MembershipSids(in.memberships) \cup lg.sids /\ is_uac_filtered_group(s)
      \/ /\ s = LocalAccountAndAdmin /\ in.localAccount
         /\ Administrators \in MembershipSids(in.memberships) \cup lg.sids
  BY <1>1, FilteredGroups
<1>3. lg.sids \subseteq RealLocalGroups(w)
  BY LocalGroupsCollected
<1>4. \/ s \in RealGroups(w) /\ is_uac_filtered_group(s)
      \/ s = LocalAccountAndAdmin /\ RealAdmin(w)
  BY <1>2, <1>3 DEF RealGroups, RealAdmin
<1>5. s # CryptographicOperators
  BY <1>2, SidsApart DEF WellKnowns
<1>6. s \in RealToken(w)
  BY <1>4 DEF RealToken, RealGroups, RealBase
<1>7. w.filtered => s \in RealDenyOnly(w)
  BY <1>4 DEF RealDenyOnly
<1>8. ~ w.filtered => s \notin RealDenyOnly(w)
  BY <1>5 DEF RealDenyOnly
<1> QED
  BY <1>5, <1>6, <1>7, <1>8 DEF RealOwner, RealEnabled

\* A deny-only SID is still a SID of the token.
LEMMA DenyOnlyInToken ==
    ASSUME NEW w
    PROVE  RealDenyOnly(w) \subseteq RealToken(w)
  BY DEF RealDenyOnly, RealGroups, RealToken, RealBase

\* The owner of the object is the account in a possible token only if the engine counts
\* the account as owner, or leaves it open because of User Account Control.
LEMMA OwnerCovered ==
    ASSUME IsInput(in), lg = collect_local_groups_on(in), TokenKnown, OwnerKnown,
           NEW w \in PossibleWorlds
    PROVE  /\ user_is_owner => RealOwner(w)
           /\ RealOwner(w) => user_is_owner \/ uncertain_owner
<1>1. user_is_owner => RealOwner(w)
  BY EnabledForSure DEF user_is_owner, RealOwner
<1>2. ASSUME RealOwner(w) PROVE user_is_owner \/ uncertain_owner
  <2>1. in.owner \in RealToken(w) /\ in.owner \in RealEnabled(w)
    BY <1>2 DEF RealOwner, RealEnabled
  <2>2. in.owner \in user_sids \/ in.owner \in deny_only_sids
    BY <2>1, NothingForgotten DEF OwnerKnown
  <2> QED
    BY <2>1, <2>2, DenyOnlyForSure DEF user_is_owner, uncertain_owner
<1> QED
  BY <1>1, <1>2

\* The match sets of the three NTFS walks enclose those of every possible token, as far
\* as the ACEs of the object can tell.
LEMMA MatchesEnclose ==
    ASSUME IsInput(in), lg = collect_local_groups_on(in), TokenKnown, OwnerKnown,
           NEW w \in PossibleWorlds
    PROVE  /\ match_sids \subseteq RealMatch(w)
           /\ match_sids \cup deny_only_sids \subseteq RealMatch(w) \cup RealDenyOnly(w)
           /\ \A k \in DOMAIN in.dacl : ~ in.dacl[k].inheritOnly =>
                /\ in.dacl[k].kind = "Allow" /\ in.dacl[k].sid \in RealMatch(w) =>
                       in.dacl[k].sid \in match_sids \cup uncertain
                /\ in.dacl[k].kind = "Deny" /\ in.dacl[k].sid \in RealMatch(w) \cup RealDenyOnly(w) =>
                       in.dacl[k].sid \in match_sids \cup deny_only_sids \cup uncertain
<1>1. user_sids \subseteq RealEnabled(w)
  BY EnabledForSure
<1>2. match_sids \subseteq RealMatch(w)
  BY <1>1, OwnerCovered DEF match_sids, RealMatch
<1>3. match_sids \cup deny_only_sids \subseteq RealMatch(w) \cup RealDenyOnly(w)
  BY <1>2, DenyOnlyForSure DEF RealMatch
<1>4. \A s : is_logon_dependent_for(s, in.context, user_sids) => is_logon_dependent_for(s, in.context, match_sids)
  BY DEF is_logon_dependent_for, match_sids, OwnerRights, ThisOrganization, OtherOrganization
<1>5. ASSUME NEW k \in DOMAIN in.dacl, ~ in.dacl[k].inheritOnly,
             in.dacl[k].sid \notin match_sids \cup uncertain
      PROVE  /\ ~ (in.dacl[k].kind = "Allow" /\ in.dacl[k].sid \in RealMatch(w))
             /\ in.dacl[k].kind = "Deny" /\ in.dacl[k].sid \in RealMatch(w) \cup RealDenyOnly(w) =>
                    in.dacl[k].sid \in deny_only_sids
  <2> DEFINE s == in.dacl[k].sid
  <2>1. ~ UncertainAce(in.dacl[k])
    BY <1>5 DEF uncertain
  <2>2. /\ ~ is_logon_dependent_for(s, in.context, match_sids)
        /\ s \notin logon_dependent_groups
        /\ ~ (in.dacl[k].kind = "Allow" /\ s \in deny_only_sids /\ ~ uac_filter_certain)
        /\ ~ (uncertain_owner /\ s = OwnerRights)
    BY <1>5, <2>1 DEF UncertainAce, ace_applies_to_current_object
  <2>3. user_sids \subseteq match_sids /\ (user_is_owner => OwnerRights \in match_sids)
    BY DEF match_sids
  <2>4. s \in RealToken(w) => s \in deny_only_sids
    BY <1>4, <1>5, <2>2, <2>3, NothingForgotten
  <2>5. s = OwnerRights => ~ RealOwner(w)
    BY <1>5, <2>2, <2>3, OwnerCovered
  <2>6. RealDenyOnly(w) \subseteq RealToken(w) /\ RealEnabled(w) \subseteq RealToken(w)
    BY DenyOnlyInToken DEF RealEnabled
  <2>7. s \in RealMatch(w) => s \in RealEnabled(w)
    BY <2>5 DEF RealMatch
  <2>8. in.dacl[k].kind = "Allow" => s \notin RealEnabled(w)
    BY <2>2, <2>4, <2>6, DenyOnlyForSure
  <2> QED
    BY <2>4, <2>6, <2>7, <2>8
<1> QED
  BY <1>2, <1>3, <1>5

\* The DACL is a sequence: the ACEs before one of them are ACEs.
LEMMA DaclIsSequence ==
    ASSUME IsInput(in)
    PROVE  \A k \in DOMAIN in.dacl : 1 .. k - 1 \subseteq DOMAIN in.dacl
  BY DEF IsInput

\* The bounds of a finished result are those of the two bounding walks, also where the
\* engine returned no range and the shown mask stands for both.
LEMMA BoundsOfWalks ==
    ASSUME TypeOK, EvaluationInv, pc = "done", ~ in.nullDacl
    PROVE  /\ LowerBound = Accessible(in.dacl, match_sids, match_sids \cup deny_only_sids \cup uncertain)
                            \cup owner_implicit_bits
           /\ UpperBound = Accessible(in.dacl, match_sids \cup uncertain, match_sids \cup deny_only_sids)
                            \cup upper_owner_bits
<1> DEFINE shown == Accessible(in.dacl, match_sids, match_sids \cup deny_only_sids)
           max == Accessible(in.dacl, match_sids \cup uncertain, match_sids \cup deny_only_sids)
           min == Accessible(in.dacl, match_sids, match_sids \cup deny_only_sids \cup uncertain)
<1>1. /\ Dacl("ntfsShown") = in.dacl /\ Dacl("ntfsMax") = in.dacl /\ Dacl("ntfsMin") = in.dacl
      /\ {"ntfsShown", "ntfsMax", "ntfsMin"} \subseteq Walks
  BY DEF Dacl, Walks, ShareWalks, NtfsWalks
<1>2. /\ allow_matches("ntfsShown") = match_sids
      /\ deny_matches("ntfsShown") = match_sids \cup deny_only_sids
      /\ allow_matches("ntfsMax") = match_sids \cup uncertain
      /\ deny_matches("ntfsMax") = match_sids \cup deny_only_sids
      /\ allow_matches("ntfsMin") = match_sids
      /\ deny_matches("ntfsMin") = match_sids \cup deny_only_sids \cup uncertain
  BY DEF allow_matches, deny_matches, Certain, Undecided, ShareWalks
<1>3. \A w \in Walks : Complete(w) => granted[w] = Accessible(Dacl(w), allow_matches(w), deny_matches(w))
  BY CompleteWalk DEF EvaluationInv, Walked
<1>4. /\ Complete("ntfsShown") /\ result.ntfs = granted["ntfsShown"] \cup owner_implicit_bits
      /\ \/ uncertain = {} /\ upper_owner_bits = owner_implicit_bits /\ bounds = NoBounds
         \/ /\ Complete("ntfsMax") /\ Complete("ntfsMin")
            /\ bounds = IF NtfsMinimum = NtfsMaximum THEN NoBounds
                        ELSE [known |-> TRUE, min |-> NtfsMinimum, max |-> NtfsMaximum]
  BY DEF EvaluationInv, StageInv
<1>5. result.ntfs = shown \cup owner_implicit_bits
  BY <1>1, <1>2, <1>3, <1>4
<1>6. CASE uncertain = {} /\ upper_owner_bits = owner_implicit_bits /\ bounds = NoBounds
  <2>1. min = shown /\ max = shown
    BY <1>6
  <2> HIDE DEF min, max, shown
  <2>2. LowerBound = result.ntfs /\ UpperBound = result.ntfs
    BY <1>6 DEF LowerBound, UpperBound, NoBounds
  <2>3. LowerBound = min \cup owner_implicit_bits /\ UpperBound = max \cup upper_owner_bits
    BY <1>5, <1>6, <2>1, <2>2
  <2> QED
    BY <2>3 DEF min, max
<1>7. CASE /\ Complete("ntfsMax") /\ Complete("ntfsMin")
           /\ bounds = IF NtfsMinimum = NtfsMaximum THEN NoBounds
                       ELSE [known |-> TRUE, min |-> NtfsMinimum, max |-> NtfsMaximum]
  <2>1. granted["ntfsMax"] = max /\ granted["ntfsMin"] = min
    BY <1>1, <1>2, <1>3, <1>7
  <2>2. NtfsMaximum = max \cup upper_owner_bits /\ NtfsMinimum = min \cup owner_implicit_bits
    BY <2>1 DEF NtfsMaximum, NtfsMinimum
  <2>3. IsInput(in)
    BY DEF TypeOK
  <2>4. min \subseteq shown /\ shown \subseteq max
    BY <2>3, DaclIsSequence, AccessibleMonotone
  <2>5. owner_implicit_bits \subseteq upper_owner_bits
    BY DEF upper_owner_bits
  <2> HIDE DEF min, max, shown
  <2>6. CASE NtfsMinimum = NtfsMaximum
    <3>1. LowerBound = result.ntfs /\ UpperBound = result.ntfs
      BY <1>7, <2>6 DEF LowerBound, UpperBound, NoBounds
    <3> QED
      BY <1>5, <2>2, <2>4, <2>5, <2>6, <3>1 DEF min, max
  <2>7. CASE NtfsMinimum # NtfsMaximum
    BY <1>7, <2>2, <2>7 DEF LowerBound, UpperBound, min, max
  <2> QED
    BY <2>6, <2>7
<1> QED
  BY <1>4, <1>6, <1>7

\* A finished evaluation bounds the NTFS rights of every possible token.
LEMMA BoundsContain ==
    ASSUME TypeOK, EvaluationInv, pc = "done", TokenKnown, OwnerKnown, NEW w \in PossibleWorlds
    PROVE  LowerBound \subseteq RealNtfs(w) /\ RealNtfs(w) \subseteq UpperBound
<1>1. IsInput(in) /\ lg = collect_local_groups_on(in)
  BY DEF TypeOK, EvaluationInv, StageInv
<1>2. CASE in.nullDacl
  <2>1. result.ntfs = FullControl
    BY <1>2, RightsAssumption DEF EvaluationInv, StageInv, owner_implicit_bits
  <2>2. bounds = NoBounds
    BY <1>2 DEF EvaluationInv, StageInv
  <2> QED
    BY <1>2, <2>1, <2>2 DEF LowerBound, UpperBound, NoBounds, RealNtfs
<1>3. CASE ~ in.nullDacl
  <2> DEFINE real == Accessible(in.dacl, RealMatch(w), RealMatch(w) \cup RealDenyOnly(w))
             max == Accessible(in.dacl, match_sids \cup uncertain, match_sids \cup deny_only_sids)
             min == Accessible(in.dacl, match_sids, match_sids \cup deny_only_sids \cup uncertain)
  <2>1. min \subseteq real
    BY <1>1, DaclIsSequence, MatchesEnclose, AccessibleMonotone
  <2>2. real \subseteq max
    BY <1>1, DaclIsSequence, MatchesEnclose, AccessibleMonotone
  <2> DEFINE ob == IF RealOwner(w) /\ ~ has_owner_rights_ace THEN {ReadControl, WriteDac} ELSE {}
  <2>3. owner_implicit_bits \subseteq ob /\ ob \subseteq upper_owner_bits
    BY <1>1, OwnerCovered DEF owner_implicit_bits, upper_owner_bits
  <2>4. RealNtfs(w) = real \cup ob
    BY <1>3 DEF RealNtfs
  <2>5. LowerBound = min \cup owner_implicit_bits /\ UpperBound = max \cup upper_owner_bits
    BY <1>3, BoundsOfWalks
  <2> HIDE DEF real, max, min, ob
  <2> QED
    BY <2>1, <2>2, <2>3, <2>4, <2>5
<1> QED
  BY <1>2, <1>3

\* Whatever token Windows really builds - every logon SID, every filtering, every
\* anonymous policy the request leaves open - and whatever the DACL, the real NTFS
\* rights lie between the bounds logon_dependent_bounds reports.
THEOREM BoundsContainAccessCheckAlways == Spec => []BoundsContainAccessCheck
<1>1. TypeOK /\ EvaluationInv => BoundsContainAccessCheck
  BY BoundsContain DEF BoundsContainAccessCheck, WithinBounds
<1> QED
  BY <1>1, EvaluationInvariant, PTL
============================================================================
