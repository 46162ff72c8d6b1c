----------------------- MODULE PermissionEngineProofs -----------------------
(***************************************************************************)
(* What holds of the permission evaluation for every set of requests.      *)
(***************************************************************************)
EXTENDS AccessCheck, TLAPS

\* The local groups collected for a request are SIDs of the model.
LEMMA GroupsTyped ==
    ASSUME NEW i, IsInput(i)
    PROVE  collect_local_groups_on(i) \in GroupResolution
<1> DEFINE an == IF i.user = AnonymousLogon THEN anonymous_everyone(i.anonymousPolicy) ELSE "None"
           gr == expand_local_groups_with(i.user, i.history, i.memberships,
                                          i.table.groups, i.context, an)
<1>1. an \in Maybe
  BY DEF IsInput, anonymous_everyone, Maybe, Policy
<1>2. gr.certain \subseteq Sid /\ gr.logon_dependent \subseteq Sid
  BY DEF IsInput, expand_local_groups_with
<1>3. MembershipSids(i.memberships) \subseteq Sid
  BY DEF IsInput, MembershipSids
<1>4. ASSUME NEW loc \in SUBSET Sid
      PROVE  uac_filtered_token_groups(i.memberships, loc, i.localAccount, i.context)
               \subseteq Sid \cup {LocalAccountAndAdmin}
  BY <1>3 DEF uac_filtered_token_groups, uac_filtered_groups
<1>5. \A b, l, t, f : remote_uac_filtering(b, l, t, f) \in RemoteUac
                      /\ local_uac_filtering(b, l, f) \in RemoteUac
  BY DEF remote_uac_filtering, local_uac_filtering, RemoteUac
<1>6. i.table.gaps \in BOOLEAN /\ i.table.readable \in BOOLEAN
  BY DEF IsInput
<1> HIDE DEF an, gr
<1> DEFINE fi == uac_filtered_token_groups(i.memberships, gr.certain, i.localAccount, i.context)
           f0 == uac_filtered_token_groups(i.memberships, {}, i.localAccount, i.context)
           re == IF ~ i.localAccount \/ fi = {} THEN "Unknown"
                 ELSE IF i.context = "RemoteSmb"
                 THEN remote_uac_filtering(i.builtinAdmin, i.lua, i.latfp, i.fat)
                 ELSE IF i.context = "LocalInteractive"
                 THEN local_uac_filtering(i.builtinAdmin, i.lua, i.fat)
                 ELSE "Unknown"
<1>7. fi \subseteq Sid \cup {LocalAccountAndAdmin} /\ f0 \subseteq Sid \cup {LocalAccountAndAdmin}
  BY <1>2, <1>4
<1>8. re \in RemoteUac
  BY <1>5 DEF RemoteUac
<1>9. collect_local_groups_on(i) =
        IF i.table.readable
        THEN [sids               |-> gr.certain,
              logon_dependent    |-> gr.logon_dependent,
              uac_filtered       |-> IF re = "NotFiltered" THEN {} ELSE fi,
              remote_uac         |-> re,
              anonymous_everyone |-> an,
              available          |-> ~ i.table.gaps]
        ELSE [sids               |-> {},
              logon_dependent    |-> {},
              uac_filtered       |-> f0,
              remote_uac         |-> "Unknown",
              anonymous_everyone |-> an,
              available          |-> FALSE]
  BY DEF collect_local_groups_on, an, gr
<1> HIDE DEF fi, f0, re
<1> QED
  BY <1>1, <1>2, <1>6, <1>7, <1>8, <1>9 DEF GroupResolution, RemoteUac

\* Expanding the generic bits of an ACE leaves specific rights only.
LEMMA ExpandTyped ==
    ASSUME NEW m \in SUBSET (Rights \cup Generics)
    PROVE  expand_generic_rights(m) \subseteq Rights
  BY RightsAssumption DEF expand_generic_rights

\* The ACE a walk looks at.
LEMMA AceTyped ==
    ASSUME IsInput(in), NEW w \in Walks, pos[w] \in Nat \ {0}, pos[w] <= Len(Dacl(w))
    PROVE  Dacl(w)[pos[w]] \in Ace /\ pos[w] \in DOMAIN Dacl(w)
  BY DEF IsInput, Dacl

\* Owner bits are specific rights.
LEMMA OwnerBitsTyped ==
    owner_implicit_bits \subseteq Rights /\ upper_owner_bits \subseteq Rights
  BY RightsAssumption DEF owner_implicit_bits, upper_owner_bits

----------------------------------------------------------------------------
\* Every mask, status and marker of an analysis keeps its type, and no GENERIC_* bit
\* survives the expansion in mask.rs, whatever the requests are.
THEOREM TypeCorrect == Spec => []TypeOK
<1>1. Init => TypeOK
  <2> SUFFICES ASSUME Init PROVE TypeOK
    OBVIOUS
  <2>1. IsInput(in)
    BY InputsAssumption DEF Init
  <2>2. lg \in GroupResolution
    BY DEF Init, NoGroups, GroupResolution, RemoteUac, Maybe
  <2>3. /\ pos \in [Walks -> Nat \ {0}]
        /\ granted \in [Walks -> SUBSET Rights]
        /\ denied \in [Walks -> SUBSET Rights]
        /\ contributions \in [Sid -> SUBSET Rights]
        /\ decided \in [DOMAIN in.dacl -> SUBSET Rights]
    BY DEF Init
  <2>4. /\ pc \in Stages
        /\ share \in [status : {"NotApplicable", "Unrestricted", "Applied", "ReadFailed"},
                      unevaluated : BOOLEAN]
        /\ bounds \in [known : BOOLEAN, min : SUBSET Rights, max : SUBSET Rights]
        /\ result \in [ntfs : SUBSET Rights, share : SUBSET Rights, effective : SUBSET Rights,
                       uncertainty : SUBSET Layers, upper : SUBSET Rights, synchronizeGap : Gaps]
    BY DEF Init, Stages, NoBounds, NoResult, Gaps
  <2> QED
    BY <2>1, <2>2, <2>3, <2>4 DEF TypeOK
<1>2. TypeOK /\ [Next]_vars => TypeOK'
  <2> SUFFICES ASSUME TypeOK, [Next]_vars PROVE TypeOK'
    OBVIOUS
  <2>0. in' = in /\ IsInput(in)'
    <3>1. in' = in
      BY DEF Next, vars, CollectLocalGroups, ResolveShare, WalkAce, ShareShownDone, ShareMaxDone,
             ShareMinDone, StartNtfs, NtfsShownDone, NtfsMaxDone, NtfsMinDone, Combine, Finished
    <3> QED
      BY <3>1 DEF TypeOK, IsInput
  <2>1. CASE CollectLocalGroups
    <3>1. lg' \in GroupResolution
      BY <2>1, GroupsTyped DEF CollectLocalGroups, TypeOK
    <3> QED
      BY <2>0, <2>1, <3>1 DEF CollectLocalGroups, TypeOK, Stages, walkVars
  <2>2. CASE ResolveShare
    <3>1. in' = in /\ UNCHANGED <<lg, walkVars, bounds, result>>
      BY <2>2 DEF ResolveShare
    <3>2. pc' \in Stages
      BY <2>2 DEF ResolveShare, Stages, Walks, ShareWalks
    <3>3. share' \in [status : {"NotApplicable", "Unrestricted", "Applied", "ReadFailed"},
                      unevaluated : BOOLEAN]
      <4> DEFINE b == in.share.kind = "NullDacl" /\ in.share.unsupported
      <4>1. b \in BOOLEAN
        OBVIOUS
      <4>2. StatusWithoutAcl[in.share.kind] \in {"NotApplicable", "Unrestricted", "ReadFailed"}
            \/ in.share.kind = "Acl"
        BY DEF StatusWithoutAcl, TypeOK, IsInput
      <4>3. \/ share' = share
            \/ /\ in.share.kind # "Acl"
               /\ share' = [status |-> StatusWithoutAcl[in.share.kind], unevaluated |-> b]
        BY <2>2 DEF ResolveShare
      <4> HIDE DEF b
      <4> QED
        BY <4>1, <4>2, <4>3 DEF TypeOK
    <3> QED
      BY <2>0, <3>1, <3>2, <3>3 DEF TypeOK, walkVars
  <2>3. ASSUME NEW w \in Walks, WalkAce(w) PROVE TypeOK'
    <3> DEFINE ace == Dacl(w)[pos[w]]
    <3>1. ace \in Ace /\ pos[w] \in DOMAIN Dacl(w)
      BY <2>3, AceTyped DEF TypeOK, WalkAce
    <3>2. NewBits(w, ace) \subseteq Rights
      <4>1. ace.mask \in SUBSET (Rights \cup Generics)
        BY <3>1 DEF Ace
      <4> QED
        BY <4>1, ExpandTyped DEF NewBits
    <3>3. in' = in /\ UNCHANGED <<pc, lg, share, bounds, result>>
      BY <2>3 DEF WalkAce
    <3>4. pos' \in [Walks -> Nat \ {0}]
      BY <2>3 DEF WalkAce, TypeOK
    <3>5. granted' \in [Walks -> SUBSET Rights] /\ denied' \in [Walks -> SUBSET Rights]
      BY <2>3, <3>2 DEF WalkAce, TypeOK
    <3>6. ace.sid \in Sid
      BY <3>1 DEF Ace
    <3>7. contributions' \in [Sid -> SUBSET Rights]
      <4>1. \/ contributions' = contributions
            \/ contributions' = [contributions EXCEPT ![ace.sid] = @ \cup NewBits(w, ace)]
        BY <2>3 DEF WalkAce
      <4> HIDE DEF ace
      <4> QED
        BY <3>2, <3>6, <4>1 DEF TypeOK
    <3>8. decided' \in [DOMAIN in.dacl -> SUBSET Rights]
      BY <2>3, <3>1, <3>2 DEF WalkAce, TypeOK
    <3> QED
      BY <2>0, <3>3, <3>4, <3>5, <3>7, <3>8 DEF TypeOK
  <2>4. CASE ShareShownDone \/ ShareMaxDone \/ ShareMinDone
    <3>1. in' = in /\ UNCHANGED <<lg, walkVars, bounds, result>>
      BY <2>4 DEF ShareShownDone, ShareMaxDone, ShareMinDone
    <3>2. pc' \in Stages
      BY <2>4 DEF ShareShownDone, ShareMaxDone, ShareMinDone, Stages, Walks, ShareWalks
    <3>3. share' \in [status : {"NotApplicable", "Unrestricted", "Applied", "ReadFailed"},
                      unevaluated : BOOLEAN]
      <4> DEFINE b == in.share.unsupported \/ granted["shareMax"] # granted["shareMin"]
      <4>1. in.share.unsupported \in BOOLEAN
        BY DEF TypeOK, IsInput
      <4>2. \/ share' = share
            \/ share' = [status |-> "Applied", unevaluated |-> in.share.unsupported]
            \/ share' = [status |-> "Applied", unevaluated |-> b]
        BY <2>4 DEF ShareShownDone, ShareMaxDone, ShareMinDone
      <4>3. b \in BOOLEAN
        OBVIOUS
      <4> HIDE DEF b
      <4> QED
        BY <4>1, <4>2, <4>3 DEF TypeOK
    <3> QED
      BY <2>0, <3>1, <3>2, <3>3 DEF TypeOK, walkVars
  <2>5. CASE StartNtfs
    <3>1. granted' \in [Walks -> SUBSET Rights]
      BY <2>5, RightsAssumption DEF StartNtfs, TypeOK
    <3>2. pc' \in Stages
      BY <2>5 DEF StartNtfs, Stages, Walks, NtfsWalks
    <3> QED
      BY <2>0, <2>5, <3>1, <3>2 DEF StartNtfs, TypeOK
  <2>6. CASE NtfsShownDone \/ NtfsMaxDone
    <3>1. pc' \in Stages
      BY <2>6 DEF NtfsShownDone, NtfsMaxDone, Stages, Walks, NtfsWalks
    <3> QED
      BY <2>0, <2>6, <3>1 DEF NtfsShownDone, NtfsMaxDone, TypeOK, walkVars
  <2>7. CASE NtfsMinDone
    <3>1. bounds' \in [known : BOOLEAN, min : SUBSET Rights, max : SUBSET Rights]
      <4>1. granted["ntfsMax"] \subseteq Rights /\ granted["ntfsMin"] \subseteq Rights
        BY DEF TypeOK, Walks, NtfsWalks
      <4> QED
        BY <2>7, <4>1, OwnerBitsTyped DEF NtfsMinDone, NoBounds
    <3> QED
      BY <2>0, <2>7, <3>1 DEF NtfsMinDone, TypeOK, walkVars, Stages
  <2>8. CASE Combine
    <3> DEFINE ntfs == granted["ntfsShown"] \cup owner_implicit_bits
               raw  == IF share.status = "Applied" THEN ntfs \cap granted["shareShown"] ELSE ntfs
               unc  == PermissionUncertainty
                         \cup (IF in.selectiveAuth = "Unknown"
                                  /\ ~ (raw = {} /\ PermissionUncertainty = {})
                               THEN {"Logon"} ELSE {})
               eff  == IF in.selectiveAuth = "Denied" THEN {} ELSE raw
               gap  == IF in.selectiveAuth = "Denied" THEN "None"
                       ELSE synchronize_gap(ntfs, raw, unc)
    <3>1. ntfs \subseteq Rights /\ granted["shareShown"] \subseteq Rights
      BY OwnerBitsTyped DEF TypeOK, Walks, NtfsWalks, ShareWalks
    <3>2. unc \subseteq Layers
      BY DEF PermissionUncertainty, Layers
    <3>3. raw \subseteq Rights /\ eff \subseteq Rights
      BY <3>1
    <3>4. effective_upper_bound(ntfs, eff, unc) \subseteq Rights
      BY <3>1, <3>3 DEF effective_upper_bound, TypeOK
    <3>5. gap \in Gaps
      BY DEF synchronize_gap, Gaps
    <3>6. result' = [ntfs |-> ntfs, share |-> granted["shareShown"], effective |-> eff,
                     uncertainty |-> unc, upper |-> effective_upper_bound(ntfs, eff, unc),
                     synchronizeGap |-> gap]
      BY <2>8 DEF Combine, CombinedResult
    <3> HIDE DEF ntfs, raw, unc, eff, gap
    <3>7. result' \in [ntfs : SUBSET Rights, share : SUBSET Rights, effective : SUBSET Rights,
                       uncertainty : SUBSET Layers, upper : SUBSET Rights, synchronizeGap : Gaps]
      BY <3>1, <3>2, <3>3, <3>4, <3>5, <3>6
    <3> QED
      BY <2>0, <2>8, <3>7 DEF Combine, TypeOK, walkVars, Stages
  <2>9. CASE Finished \/ UNCHANGED vars
    BY <2>0, <2>9 DEF Finished, vars, TypeOK
  <2> QED
    BY <2>1, <2>2, <2>3, <2>4, <2>5, <2>6, <2>7, <2>8, <2>9 DEF Next
<1> QED
  BY <1>1, <1>2, PTL DEF Spec
============================================================================
