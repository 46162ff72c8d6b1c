----------------------- MODULE PrincipalResolverProofs -----------------------
(***************************************************************************)
(* Proofs about PrincipalResolver, for every number of groups, every       *)
(* directory and every environment.                                        *)
(***************************************************************************)
EXTENDS PrincipalResolver, FiniteSetTheorems, NaturalsInduction, TLAPS

----------------------------------------------------------------------------
(* What the steps leave alone.                                             *)

\* The groups read end in a result, or in the next stage of a trusted account.
LEMMA GroupsEnd ==
    ASSUME NEW m, NEW g, NEW t, GroupsFailed \/ GroupsRead(m, g, t)
    PROVE  /\ UNCHANGED <<env, dir, old, cached, check>>
           /\ \/ pc' = "crossing" /\ result' = result
              \/ pc' = "done" /\ result'.scope \in {"Unresolvable", "InsideConfiguredLdapBase"}
  BY DEF GroupsFailed, GroupsRead, Bare, Return, Goto, Nothing

\* A SID is called orphaned only by classify_unresolved, for the domain that was searched whole.
OrphanedStep ==
    \E ok \in BOOLEAN : pc = "classify" /\ classify_unresolved_sid(Configured, env, dir.dom[0], ok).rel = "WholeBase"

\* A step that reads moves the pipeline on, or returns something.
Moves(from, to) ==
    /\ pc \in from /\ UNCHANGED <<env, dir, old, check>>
    /\ \/ result' = result /\ pc' \in to
       \/ pc' \in {"target", "done"} /\ result'.scope \in Scopes \ {"Pending"}
          /\ (result'.scope = "OrphanedSid" => OrphanedStep)

\* Every step but a change of the directory and the check of the target moves the pipeline on.
LEMMA StepMoves ==
    ASSUME [Next]_vars
    PROVE  \/ Moves({"front"}, {"lookup", "entry", "sam"}) \/ Moves({"sam"}, {})
           \/ Moves({"lookup"}, {"fsp serving", "entry"})
           \/ (Moves({"lookup"}, {"lsa"}) /\ ~ search_by_sid(Configured, dir, 0))
           \/ Moves({"lsa"}, {"lsa serving", "classify"})
           \/ Moves({"fsp serving", "lsa serving", "classify"}, {"trusted account", "entry"})
           \/ Moves({"entry", "closure", "token"}, {"crossing", "closure", "token"})
           \/ Moves({"trusted account", "crossing", "resource"}, {"entry", "resource"})
           \/ CheckTarget \/ DirectoryChanges \/ UNCHANGED vars
<1> USE DEF Moves, Return, Goto, Bare, Error, Nothing, Scopes
<1>1. CASE FrontLdap
  BY <1>1 DEF FrontLdap, resolve_by_lsa_name, resolve_by_name
<1>2. CASE FrontServer
  <2>1. ASSUME NEW i, NEW l, NEW p, Return(local_account_principal(i, l, p), "done"), pc = "front"
        PROVE  Moves({"front"}, {"lookup", "entry", "sam"})
    <3>1. local_account_principal(i, l, p).scope = "InsideConfiguredLdapBase"
      BY DEF local_account_principal
    <3> QED
      BY <2>1, <3>1
  <2> QED
    BY <1>2, <2>1 DEF FrontServer, resolve_account_on_server
<1>3. CASE ResolveViaSam
  BY <1>3 DEF ResolveViaSam, sam_resolve_fallback, resolve_identity_via_sam
<1>4. CASE LookupBySid
  BY <1>4 DEF LookupBySid, HitStage
<1>5. CASE FallBackToLsa
  BY <1>5 DEF FallBackToLsa
<1>6. CASE ServingConnection
  BY <1>6 DEF ServingConnection
<1>7. CASE ClassifyUnresolved
  BY <1>7 DEF ClassifyUnresolved, unresolvable_reason, OrphanedStep
<1>8. CASE ReadEntry
  BY <1>8, GroupsEnd DEF ReadEntry
<1>9. CASE ReadClosure
  BY <1>9, GroupsEnd DEF ReadClosure
<1>10. CASE CrossCheck
  BY <1>10, GroupsEnd DEF CrossCheck
<1>11. CASE TrustedAccount
  BY <1>11 DEF TrustedAccount
<1>12. CASE Crossing
  BY <1>12 DEF Crossing
<1>13. CASE ResourceGroups
  BY <1>13 DEF ResourceGroups
<1>14. CASE TrustedResult
  BY <1>14 DEF TrustedResult
<1> QED
  BY <1>1, <1>2, <1>3, <1>4, <1>5, <1>6, <1>7, <1>8, <1>9, <1>10, <1>11, <1>12, <1>13, <1>14 DEF Next

\* How the directory changes.
LEMMA ChangeKeeps ==
    ASSUME DirInv, DirectoryChanges
    PROVE  /\ dir = old /\ old' = old /\ env' = env /\ pc' = pc /\ cached' = cached /\ work' = work
           /\ result' = result /\ check' = check /\ pc \notin {"front", "target", "done"}
           /\ IsDirectory(dir') /\ SameBut(dir', old) /\ dir'.dom = dir.dom /\ dir'.outside = dir.outside
           /\ dir.gone \cap {0} \subseteq dir'.gone /\ dir'.token = dir.token
<1>1. IsDirectory(dir) /\ dir = old /\ 0 \in Node
  BY CasesAssumption DEF DirInv, DirectoryChanges, Node
<1>2. ASSUME NEW g \in Group, dir' = [dir EXCEPT !.memberOf[0] = IF g \in @ THEN @ \ {g} ELSE @ \cup {g}]
      PROVE  /\ IsDirectory(dir') /\ SameBut(dir', old) /\ dir'.dom = dir.dom /\ dir'.outside = dir.outside
             /\ dir.gone \cap {0} \subseteq dir'.gone /\ dir'.token = dir.token
  <2> DEFINE m0 == IF g \in dir.memberOf[0] THEN dir.memberOf[0] \ {g} ELSE dir.memberOf[0] \cup {g}
             m  == [dir.memberOf EXCEPT ![0] = m0]
  <2>1. dir.memberOf \in [Node -> SUBSET Group]
    BY <1>1 DEF IsDirectory
  <2>2. m \in [Node -> SUBSET Group] /\ \A n \in Group : m[n] = dir.memberOf[n]
    <3>1. m0 \in SUBSET Group
      BY <1>1, <2>1
    <3>2. 0 \notin Group /\ Group \subseteq Node
      BY CasesAssumption DEF Group, Node
    <3> HIDE DEF m0
    <3> QED
      BY <1>1, <2>1, <3>1, <3>2
  <2>3. dir' = [dir EXCEPT !.memberOf = m]
    BY <1>2
  <2> HIDE DEF m
  <2>4. IsDirectory(dir')
    BY <1>1, <2>2, <2>3 DEF IsDirectory, PrimaryOf
  <2>5. SameBut(dir', old)
    BY <1>1, <2>2, <2>3 DEF IsDirectory, SameBut
  <2> QED
    BY <1>1, <2>3, <2>4, <2>5 DEF IsDirectory
<1>3. ASSUME dir' = [dir EXCEPT !.gone = {0}]
      PROVE  /\ IsDirectory(dir') /\ SameBut(dir', old) /\ dir'.dom = dir.dom /\ dir'.outside = dir.outside
             /\ dir.gone \cap {0} \subseteq dir'.gone /\ dir'.token = dir.token
  <2>1. IsDirectory(dir')
    BY <1>1, <1>3 DEF IsDirectory, PrimaryOf
  <2>2. SameBut(dir', old)
    BY <1>1, <1>3 DEF IsDirectory, SameBut
  <2> QED
    BY <1>1, <1>3, <2>1, <2>2 DEF IsDirectory
<1> QED
  BY <1>1, <1>2, <1>3 DEF DirectoryChanges

\* Only what is gone is missed by a search of a whole base.
LEMMA WholeBaseMisses ==
    ASSUME DirInv, env.whole, Visible(Configured, dir, 0), ~ search_by_sid(Configured, dir, 0)
    PROVE  0 \in dir.gone
<1>1. 0 \in Node
  BY CasesAssumption DEF Node
<1>2. ~ IsForeign(Configured, dir, 0)
  BY DEF Visible, IsForeign
<1>3. 0 \notin dir.outside
  BY <1>1 DEF DirInv
<1> QED
  BY <1>2, <1>3 DEF search_by_sid, InBase

\* What a relation to the whole base says.
LEMMA WholeBaseIsSearched ==
    ASSUME NEW ok \in BOOLEAN, classify_unresolved_sid(Configured, env, dir.dom[0], ok).rel = "WholeBase"
    PROVE  env.whole /\ Visible(Configured, dir, 0)
<1> DEFINE d == dir.dom[0]
<1>1. classify_with(Configured, env, d).rel = "WholeBase"
  BY DEF classify_unresolved_sid, Relation
<1>2. ASSUME NEW trusts, NEW view PROVE classify_against_trusts(d, trusts, view).rel # "WholeBase"
  BY DEF classify_against_trusts, Relation
<1> HIDE DEF d
<1>3. CASE Configured.gc
  <2>1. Configured.whole /\ Forest(d) = "own"
    BY <1>1, <1>2, <1>3 DEF classify_with
  <2> QED
    BY <1>3, <2>1 DEF Configured, Visible, Forest, d
<1>4. CASE ~ Configured.gc
  <2>1. d = Configured.dom /\ Configured.whole
    BY <1>1, <1>2, <1>4 DEF classify_with, Relation
  <2> QED
    BY <2>1 DEF Configured, Visible, d
<1> QED
  BY <1>3, <1>4

\* The directories stay what they are assumed to be, and what was missed stays missing.
LEMMA ResolveStep ==
    ASSUME ResolveInv, OrphanedIsProven, [Next]_vars
    PROVE  ResolveInv' /\ OrphanedIsProven'
<1> USE DEF ResolveInv
<1>1. CASE DirectoryChanges
  <2>1. /\ dir = old /\ old' = old /\ env' = env /\ pc' = pc /\ result' = result /\ check' = check
        /\ pc \notin {"front", "target", "done"}
        /\ IsDirectory(dir') /\ SameBut(dir', old) /\ dir'.dom = dir.dom /\ dir'.outside = dir.outside
        /\ dir.gone \cap {0} \subseteq dir'.gone
    BY <1>1, ChangeKeeps
  <2>2. Configured' = Configured /\ \A n : Visible(Configured, dir', n) = Visible(Configured, dir, n)
    BY <2>1 DEF Configured, Visible
  <2>3. DirInv'
    BY <2>1, <2>2 DEF DirInv
  <2>4. MissInv'
    BY <2>1, <2>2 DEF MissInv
  <2>5. UnderInv'
    BY <2>1 DEF UnderInv
  <2> QED
    BY <2>1, <2>3, <2>4, <2>5 DEF OrphanedIsProven
<1>2. ASSUME NEW from, NEW to, Moves(from, to), from \subseteq Under, to \subseteq Under \ {"front", "lsa"},
             to \cap {"lsa serving", "classify"} = {} \/ from = {"lsa"}
      PROVE  ResolveInv' /\ OrphanedIsProven'
  <2>1. /\ pc \in Under /\ UNCHANGED <<env, dir, old, check>> /\ pc' \in Stages \ {"front"}
        /\ pc' \in Under => result' = result
        /\ result' = result \/ (result'.scope = "OrphanedSid" => OrphanedStep)
    BY <1>2 DEF Moves, Under, Stages
  <2>2. Configured' = Configured
    BY <2>1 DEF Configured
  <2>3. DirInv'
    BY <2>1, <2>2 DEF DirInv
  <2>4. MissInv'
    <3>1. pc' \in {"lsa", "lsa serving", "classify"} => pc = "lsa"
      BY <1>2 DEF Moves
    <3> QED
      BY <2>1, <2>2, <3>1 DEF MissInv
  <2>5. UnderInv'
    BY <2>1 DEF UnderInv
  <2>6. OrphanedIsProven'
    <3>1. OrphanedStep => 0 \in dir.gone
      BY WholeBaseIsSearched DEF OrphanedStep, MissInv
    <3> QED
      BY <2>1, <3>1 DEF OrphanedIsProven
  <2> QED
    BY <2>3, <2>4, <2>5, <2>6
<1>3. CASE Moves({"lookup"}, {"lsa"}) /\ ~ search_by_sid(Configured, dir, 0)
  <2>1. /\ pc = "lookup" /\ UNCHANGED <<env, dir, old, check>>
        /\ \/ result' = result /\ pc' = "lsa"
           \/ pc' \in {"target", "done"} /\ result'.scope # "OrphanedSid"
    BY <1>3 DEF Moves, OrphanedStep
  <2>2. Configured' = Configured
    BY <2>1 DEF Configured
  <2>3. DirInv'
    BY <2>1, <2>2 DEF DirInv
  <2>4. MissInv'
    BY <1>3, <2>1, <2>2, WholeBaseMisses DEF MissInv
  <2>5. UnderInv'
    BY <2>1 DEF UnderInv, Under, Stages
  <2> QED
    BY <2>1, <2>3, <2>4, <2>5 DEF OrphanedIsProven
<1>4. CASE CheckTarget
  <2>1. /\ UNCHANGED <<env, dir, old, result>> /\ pc' = "done"
    BY <1>4 DEF CheckTarget
  <2>2. Configured' = Configured
    BY <2>1 DEF Configured
  <2> QED
    BY <2>1, <2>2 DEF DirInv, MissInv, UnderInv, Under, Stages, OrphanedIsProven
<1>5. CASE UNCHANGED vars
  BY <1>5 DEF vars, DirInv, MissInv, UnderInv, OrphanedIsProven, Configured
<1>6. CASE Moves({"front"}, {"lookup", "entry", "sam"})
  <2> DEFINE from == {"front"}
             to   == {"lookup", "entry", "sam"}
  <2>1. from \subseteq Under /\ to \subseteq Under \ {"front", "lsa"} /\ to \cap {"lsa serving", "classify"} = {}
    BY DEF Under, Stages
  <2>2. Moves(from, to)
    BY <1>6
  <2> HIDE DEF from, to
  <2> QED
    BY <1>2, <2>1, <2>2
<1>7. CASE Moves({"sam"}, {})
  <2> DEFINE from == {"sam"}
             to   == {}
  <2>1. from \subseteq Under /\ to \subseteq Under \ {"front", "lsa"} /\ to \cap {"lsa serving", "classify"} = {}
    BY DEF Under, Stages
  <2>2. Moves(from, to)
    BY <1>7
  <2> HIDE DEF from, to
  <2> QED
    BY <1>2, <2>1, <2>2
<1>8. CASE Moves({"lookup"}, {"fsp serving", "entry"})
  <2> DEFINE from == {"lookup"}
             to   == {"fsp serving", "entry"}
  <2>1. from \subseteq Under /\ to \subseteq Under \ {"front", "lsa"} /\ to \cap {"lsa serving", "classify"} = {}
    BY DEF Under, Stages
  <2>2. Moves(from, to)
    BY <1>8
  <2> HIDE DEF from, to
  <2> QED
    BY <1>2, <2>1, <2>2
<1>9. CASE Moves({"lsa"}, {"lsa serving", "classify"})
  <2> DEFINE from == {"lsa"}
             to   == {"lsa serving", "classify"}
  <2>1. from \subseteq Under /\ to \subseteq Under \ {"front", "lsa"} /\ from = {"lsa"}
    BY DEF Under, Stages
  <2>2. Moves(from, to)
    BY <1>9
  <2> HIDE DEF from, to
  <2> QED
    BY <1>2, <2>1, <2>2
<1>10. CASE Moves({"fsp serving", "lsa serving", "classify"}, {"trusted account", "entry"})
  <2> DEFINE from == {"fsp serving", "lsa serving", "classify"}
             to   == {"trusted account", "entry"}
  <2>1. from \subseteq Under /\ to \subseteq Under \ {"front", "lsa"} /\ to \cap {"lsa serving", "classify"} = {}
    BY DEF Under, Stages
  <2>2. Moves(from, to)
    BY <1>10
  <2> HIDE DEF from, to
  <2> QED
    BY <1>2, <2>1, <2>2
<1>11. CASE Moves({"entry", "closure", "token"}, {"crossing", "closure", "token"})
  <2> DEFINE from == {"entry", "closure", "token"}
             to   == {"crossing", "closure", "token"}
  <2>1. from \subseteq Under /\ to \subseteq Under \ {"front", "lsa"} /\ to \cap {"lsa serving", "classify"} = {}
    BY DEF Under, Stages
  <2>2. Moves(from, to)
    BY <1>11
  <2> HIDE DEF from, to
  <2> QED
    BY <1>2, <2>1, <2>2
<1>12. CASE Moves({"trusted account", "crossing", "resource"}, {"entry", "resource"})
  <2> DEFINE from == {"trusted account", "crossing", "resource"}
             to   == {"entry", "resource"}
  <2>1. from \subseteq Under /\ to \subseteq Under \ {"front", "lsa"} /\ to \cap {"lsa serving", "classify"} = {}
    BY DEF Under, Stages
  <2>2. Moves(from, to)
    BY <1>12
  <2> HIDE DEF from, to
  <2> QED
    BY <1>2, <2>1, <2>2
<1> QED
  BY <1>1, <1>3, <1>4, <1>5, <1>6, <1>7, <1>8, <1>9, <1>10, <1>11, <1>12, StepMoves

\* The resolution starts with a well-formed directory, and with nothing said.
LEMMA ResolveInit == Init => ResolveInv /\ OrphanedIsProven
<1> SUFFICES ASSUME Init PROVE ResolveInv /\ OrphanedIsProven
  OBVIOUS
<1>1. PICK c \in Cases : env = c.env /\ dir = c.dir
  BY DEF Init
<1>2. /\ IsDirectory(dir) /\ (dir.dom[0] = "server" => dir.memberOf[0] \subseteq dir.security)
      /\ env.whole => \A n \in Node : n \in dir.outside => ~ Visible([dom |-> "home", gc |-> env.gc, whole |-> TRUE], dir, n)
      /\ AreTrusts(env.trusts)
  BY <1>1, CasesAssumption
<1>3. env.whole => \A n \in Node : n \in dir.outside => ~ Visible(Configured, dir, n)
  BY <1>2 DEF Visible, Configured
<1>4. old = dir /\ pc = "front" /\ result = Nothing /\ check = "None"
  BY DEF Init
<1>5. SameBut(dir, old)
  BY <1>2, <1>4 DEF SameBut, IsDirectory
<1> QED
  BY <1>2, <1>3, <1>4, <1>5 DEF ResolveInv, DirInv, MissInv, UnderInv, Under, Stages, OrphanedIsProven, Nothing

\* An account is called orphaned only if it is gone, whatever timed out, lies outside the base,
\* belongs to another forest or is served by another connection, and whenever it was deleted:
\* the miss in the configured base proves it only where classify_with finds that base to be all
\* of the account's domain, and what was missed there stays gone.
THEOREM OrphanedIsProvenAlways == Spec => []OrphanedIsProven
<1>1. ResolveInv /\ OrphanedIsProven /\ [Next]_vars => ResolveInv' /\ OrphanedIsProven'
  BY ResolveStep
<1> QED
  BY <1>1, ResolveInit, PTL DEF Spec

----------------------------------------------------------------------------
(* Reachability: Layers and Reached.                                       *)

\* A set of numbers has a smallest one.
LEMMA SmallestOf ==
    ASSUME NEW T, T \subseteq Nat, T # {}
    PROVE  \E x \in T : \A y \in T : x <= y
<1> DEFINE R == OpToRel(<, Nat)
<1>1. IsWellFoundedOn(R, Nat)
  BY NatLessThanWellFounded
<1>2. \A x, y \in Nat : y < x => <<y, x>> \in R
  BY DEF OpToRel
<1> HIDE DEF R
<1>3. PICK x \in T : \A y \in T : ~ (<<y, x>> \in R)
  BY <1>1, WFMin
<1>4. \A y \in T : ~ (y < x)
  BY <1>2, <1>3
<1> QED
  BY <1>4

\* A set that holds 0 and with a number below m the next one holds all numbers up to m.
LEMMA UpTo ==
    ASSUME NEW m \in Nat, NEW T, 0 \in T, \A k \in 0 .. m - 1 : k \in T => k + 1 \in T
    PROVE  \A k \in 0 .. m : k \in T
<1> DEFINE F == {k \in 0 .. m : k \notin T}
<1> SUFFICES ASSUME F # {} PROVE FALSE
  OBVIOUS
<1>0. F \subseteq Nat
  OBVIOUS
<1>1. PICK x \in F : \A y \in F : x <= y
  <2> HIDE DEF F
  <2> QED
    BY <1>0, SmallestOf
<1>2. x \in 0 .. m /\ x \notin T /\ x # 0
  BY <1>1
<1>3. x - 1 \in 0 .. m - 1 /\ x - 1 \in 0 .. m /\ (x - 1) + 1 = x
  BY <1>2
<1>4. x - 1 \in F
  BY <1>2, <1>3
<1> QED
  BY <1>1, <1>2, <1>4

\* A function is iterated from a starting point as often as one likes.
Iterates(f, S, base, g, m) == f \in [0 .. m -> S] /\ f[0] = base /\ \A k \in 1 .. m : f[k] = g[f[k - 1]]
LEMMA IterateExists ==
    ASSUME NEW S, NEW base \in S, NEW g \in [S -> S], NEW m \in Nat
    PROVE  \E f : Iterates(f, S, base, g, m)
<1> DEFINE T == {i \in 0 .. m : \E f \in [0 .. i -> S] : f[0] = base /\ \A k \in 1 .. i : f[k] = g[f[k - 1]]}
<1>1. 0 \in T
  <2> DEFINE f == [k \in 0 .. 0 |-> base]
  <2>1. f \in [0 .. 0 -> S] /\ f[0] = base /\ \A k \in 1 .. 0 : f[k] = g[f[k - 1]]
    OBVIOUS
  <2> HIDE DEF f
  <2> QED
    BY <2>1
<1>2. ASSUME NEW i \in 0 .. m - 1, i \in T PROVE i + 1 \in T
  <2>1. PICK f \in [0 .. i -> S] : f[0] = base /\ \A k \in 1 .. i : f[k] = g[f[k - 1]]
    BY <1>2
  <2> DEFINE h == [k \in 0 .. i + 1 |-> IF k = i + 1 THEN g[f[i]] ELSE f[k]]
  <2>2. f[i] \in S /\ g[f[i]] \in S
    BY <2>1
  <2>3. /\ h \in [0 .. i + 1 -> S] /\ h[0] = f[0] /\ h[i + 1] = g[f[i]] /\ h[i] = f[i]
        /\ \A k \in 0 .. i : h[k] = f[k]
    BY <2>1, <2>2
  <2> HIDE DEF h
  <2>4. \A k \in 1 .. i + 1 : h[k] = g[h[k - 1]]
    <3> SUFFICES ASSUME NEW k \in 1 .. i + 1 PROVE h[k] = g[h[k - 1]]
      OBVIOUS
    <3>1. CASE k = i + 1
      BY <2>3, <3>1
    <3>2. CASE k # i + 1
      <4>1. k \in 1 .. i /\ k \in 0 .. i /\ k - 1 \in 0 .. i
        BY <3>2
      <4> QED
        BY <2>1, <2>3, <4>1
    <3> QED
      BY <3>1, <3>2
  <2>5. i + 1 \in 0 .. m
    OBVIOUS
  <2> QED
    BY <2>1, <2>3, <2>4, <2>5
<1> HIDE DEF T
<1>3. m \in T
  BY <1>1, <1>2, UpTo
<1> QED
  BY <1>3 DEF T, Iterates

\* One step along the edges.
After(edges, s) == s \cup UNION {edges[g] : g \in s}

\* Edges that stay within a set of groups.
StaysIn(X, from, edges) == X \subseteq Group /\ from \subseteq X /\ \A g \in X : edges[g] \subseteq X

\* Layers is what its recursion says.
LEMMA LayersAre ==
    ASSUME NEW X, NEW from, NEW edges, StaysIn(X, from, edges)
    PROVE  LET L == Layers(from, edges) IN
           /\ L \in [0 .. N -> SUBSET X] /\ L[0] = from
           /\ \A k \in 1 .. N : L[k] = After(edges, L[k - 1])
<1> DEFINE Def(f) == [k \in 0 .. N |-> IF k = 0 THEN from ELSE After(edges, f[k - 1])]
           L == CHOOSE f : f = Def(f)
           S == SUBSET X
           step == [s \in S |-> After(edges, s)]
<1>0. N \in Nat
  BY CasesAssumption
<1>1. step \in [S -> S] /\ from \in S
  BY DEF After, StaysIn
<1>2. \A s \in S : step[s] = After(edges, s)
  OBVIOUS
<1> HIDE DEF step
<1>3. PICK f \in [0 .. N -> S] : f[0] = from /\ \A k \in 1 .. N : f[k] = step[f[k - 1]]
  <2> HIDE DEF S
  <2>1. \E f : Iterates(f, S, from, step, N)
    BY <1>0, <1>1, IterateExists
  <2> QED
    BY <2>1 DEF Iterates
<1>4. f = Def(f)
  <2>1. \A k \in 1 .. N : f[k] = After(edges, f[k - 1])
    <3> SUFFICES ASSUME NEW k \in 1 .. N PROVE f[k] = After(edges, f[k - 1])
      OBVIOUS
    <3>1. f[k - 1] \in S
      BY <1>0, <1>3
    <3> QED
      BY <1>2, <1>3, <3>1
  <2>2. \A k \in 0 .. N : f[k] = IF k = 0 THEN from ELSE After(edges, f[k - 1])
    BY <1>0, <1>3, <2>1
  <2> QED
    BY <1>3, <2>2
<1>5. L = Def(L)
  <2> HIDE DEF Def
  <2> QED
    BY <1>4
<1>6. Layers(from, edges) = L
  BY DEF Layers, After
<1> HIDE DEF L
<1>7. L[0] = from /\ \A k \in 1 .. N : L[k] = After(edges, L[k - 1])
  BY <1>0, <1>5
<1>8. \A k \in 0 .. N : L[k] \in S
  <2> DEFINE T == {k \in 0 .. N : L[k] \in S}
  <2>1. 0 \in T
    BY <1>0, <1>1, <1>7
  <2>2. ASSUME NEW k \in 0 .. N - 1, k \in T PROVE k + 1 \in T
    <3>1. k + 1 \in 1 .. N /\ (k + 1) - 1 = k /\ L[k] \in S
      BY <1>0, <2>2
    <3>2. L[k + 1] = step[L[k]]
      BY <1>2, <1>7, <3>1
    <3> QED
      BY <1>0, <1>1, <3>1, <3>2
  <2> HIDE DEF T
  <2>3. \A k \in 0 .. N : k \in T
    BY <1>0, <2>1, <2>2, UpTo
  <2> QED
    BY <2>3 DEF T
<1>9. L \in [0 .. N -> S]
  <2>1. L = [k \in 0 .. N |-> L[k]]
    BY <1>5
  <2> QED
    BY <1>8, <2>1
<1> QED
  BY <1>6, <1>7, <1>9

\* What is reached stays reached.
LEMMA LayersGrow ==
    ASSUME NEW X, NEW from, NEW edges, StaysIn(X, from, edges),
           NEW i \in 0 .. N, NEW j \in 0 .. N, i <= j
    PROVE  Layers(from, edges)[i] \subseteq Layers(from, edges)[j]
<1> DEFINE L == Layers(from, edges)
           m == j - i
           T == {k \in 0 .. m : L[i] \subseteq L[i + k]}
<1>1. N \in Nat /\ m \in Nat /\ i + 0 = i /\ i + m = j
  BY CasesAssumption
<1>2. \A k \in 1 .. N : L[k] = After(edges, L[k - 1])
  BY LayersAre
<1> HIDE DEF L
<1>3. 0 \in T
  BY <1>1
<1>4. ASSUME NEW k \in 0 .. m - 1, k \in T PROVE k + 1 \in T
  <2>1. i + (k + 1) \in 1 .. N /\ (i + (k + 1)) - 1 = i + k /\ k + 1 \in 0 .. m
    BY <1>1
  <2>2. L[i + k] \subseteq L[i + (k + 1)]
    BY <1>2, <2>1 DEF After
  <2> QED
    BY <1>4, <2>1, <2>2
<1> HIDE DEF T, m
<1>5. m \in T
  BY <1>1, <1>3, <1>4, UpTo
<1> QED
  BY <1>1, <1>5 DEF T, L

\* As there are N groups, some layer adds nothing.
LEMMA LayersSettle ==
    ASSUME NEW X, NEW from, NEW edges, StaysIn(X, from, edges), from # {}
    PROVE  \E k \in 0 .. N - 1 : Layers(from, edges)[k + 1] = Layers(from, edges)[k]
<1> DEFINE L == Layers(from, edges)
<1>0. N \in Nat
  BY CasesAssumption
<1>1. L \in [0 .. N -> SUBSET X] /\ L[0] = from /\ X \subseteq Group
  BY LayersAre DEF StaysIn
<1>2. \A k \in 0 .. N - 1 : L[k] \subseteq L[k + 1]
  BY <1>0, LayersGrow
<1> HIDE DEF L
<1>3. IsFiniteSet(Group) /\ Cardinality(Group) = N
  BY <1>0, FS_Interval DEF Group
<1>4. \A k \in 0 .. N : L[k] \in SUBSET Group
  BY <1>1
<1>5. \A k \in 0 .. N : IsFiniteSet(L[k]) /\ Cardinality(L[k]) \in Nat /\ Cardinality(L[k]) <= N
  <2> SUFFICES ASSUME NEW k \in 0 .. N
               PROVE  IsFiniteSet(L[k]) /\ Cardinality(L[k]) \in Nat /\ Cardinality(L[k]) <= N
    OBVIOUS
  <2>1. IsFiniteSet(L[k]) /\ Cardinality(L[k]) <= Cardinality(Group)
    BY <1>3, <1>4, FS_Subset
  <2> QED
    BY <1>3, <2>1, FS_CardinalityType
<1> SUFFICES ASSUME \A k \in 0 .. N - 1 : L[k + 1] # L[k] PROVE FALSE
  BY DEF L
<1> DEFINE T == {k \in 0 .. N : Cardinality(L[k]) >= k + 1}
<1>6. 0 \in T
  <2>1. 0 \in 0 .. N
    BY <1>0
  <2>2. Cardinality(L[0]) # 0
    BY <1>1, <1>5, <2>1, FS_EmptySet
  <2> QED
    BY <1>5, <2>1, <2>2
<1>7. ASSUME NEW k \in 0 .. N - 1, k \in T PROVE k + 1 \in T
  <2>1. k \in 0 .. N /\ k + 1 \in 0 .. N
    BY <1>0
  <2>2. L[k] \in SUBSET L[k + 1] /\ L[k + 1] # L[k]
    BY <1>2
  <2>3. Cardinality(L[k]) <= Cardinality(L[k + 1]) /\ Cardinality(L[k + 1]) # Cardinality(L[k])
    BY <1>5, <2>1, <2>2, FS_Subset
  <2> QED
    BY <1>5, <1>7, <2>1, <2>3
<1> HIDE DEF T
<1>8. N \in T
  BY <1>0, <1>6, <1>7, UpTo
<1> QED
  BY <1>0, <1>5, <1>8 DEF T

\* Reached is the smallest set that holds the starting points and is closed under the edges.
LEMMA ReachedIs ==
    ASSUME NEW X, NEW from, NEW edges, StaysIn(X, from, edges)
    PROVE  LET R == Reached(from, edges) IN
           /\ from \subseteq R /\ R \subseteq X
           /\ \A g \in R : edges[g] \subseteq R
           /\ \A Y : from \subseteq Y /\ (\A g \in R \cap Y : edges[g] \subseteq Y) => R \subseteq Y
<1> DEFINE L == Layers(from, edges)
           R == Reached(from, edges)
<1>0. N \in Nat /\ 0 \in 0 .. N /\ N \in 0 .. N
  BY CasesAssumption
<1>1. L \in [0 .. N -> SUBSET X] /\ L[0] = from /\ \A k \in 1 .. N : L[k] = After(edges, L[k - 1])
  BY LayersAre
<1>2. \A k \in 0 .. N : L[k] \subseteq R
  BY <1>0, LayersGrow DEF Reached
<1>3. R = L[N]
  BY DEF Reached
<1> HIDE DEF L, R
<1>4. from \subseteq R /\ R \subseteq X
  BY <1>0, <1>1, <1>2, <1>3
<1>5. \A g \in R : edges[g] \subseteq R
  <2>1. CASE from = {}
    <3> DEFINE T == {k \in 0 .. N : L[k] = {}}
    <3>1. 0 \in T
      BY <1>0, <1>1, <2>1
    <3>2. ASSUME NEW k \in 0 .. N - 1, k \in T PROVE k + 1 \in T
      <4>1. k + 1 \in 1 .. N /\ (k + 1) - 1 = k /\ k + 1 \in 0 .. N
        BY <1>0
      <4>2. L[k + 1] = After(edges, L[k])
        BY <1>1, <4>1
      <4>3. L[k] = {}
        BY <3>2
      <4> QED
        BY <4>1, <4>2, <4>3 DEF After
    <3> HIDE DEF T
    <3>3. N \in T
      BY <1>0, <3>1, <3>2, UpTo
    <3> QED
      BY <1>3, <3>3 DEF T
  <2>2. CASE from # {}
    <3>1. PICK s \in 0 .. N - 1 : L[s + 1] = L[s]
      BY <2>2, LayersSettle DEF L
    <3>2. After(edges, L[s]) = L[s]
      <4>1. s + 1 \in 1 .. N /\ (s + 1) - 1 = s
        BY <1>0
      <4> QED
        BY <1>1, <3>1, <4>1
    <3> DEFINE m == N - s
               T == {k \in 0 .. m : L[s + k] = L[s]}
    <3>3. m \in Nat /\ s + 0 = s /\ s + m = N
      BY <1>0
    <3>4. 0 \in T
      BY <3>3
    <3>5. ASSUME NEW k \in 0 .. m - 1, k \in T PROVE k + 1 \in T
      <4>1. s + (k + 1) \in 1 .. N /\ (s + (k + 1)) - 1 = s + k /\ k + 1 \in 0 .. m
        BY <1>0, <3>3
      <4>2. L[s + (k + 1)] = After(edges, L[s + k])
        BY <1>1, <4>1
      <4> QED
        BY <3>2, <3>5, <4>1, <4>2
    <3> HIDE DEF T, m
    <3>6. m \in T
      BY <3>3, <3>4, <3>5, UpTo
    <3>7. R = L[s]
      BY <1>3, <3>3, <3>6 DEF T
    <3> QED
      BY <3>2, <3>7 DEF After
  <2> QED
    BY <2>1, <2>2
<1>6. ASSUME NEW Y, from \subseteq Y, \A g \in R \cap Y : edges[g] \subseteq Y PROVE R \subseteq Y
  <2> DEFINE T == {k \in 0 .. N : L[k] \subseteq Y}
  <2>1. 0 \in T
    BY <1>0, <1>1, <1>6
  <2>2. ASSUME NEW k \in 0 .. N - 1, k \in T PROVE k + 1 \in T
    <3>1. k + 1 \in 1 .. N /\ (k + 1) - 1 = k /\ k + 1 \in 0 .. N /\ k \in 0 .. N
      BY <1>0
    <3>2. L[k + 1] = After(edges, L[k])
      BY <1>1, <3>1
    <3>3. L[k] \subseteq Y /\ L[k] \subseteq R
      BY <1>2, <2>2, <3>1
    <3>4. After(edges, L[k]) \subseteq Y
      BY <1>6, <3>3 DEF After
    <3> QED
      BY <3>1, <3>2, <3>4
  <2> HIDE DEF T
  <2>3. N \in T
    BY <1>0, <2>1, <2>2, UpTo
  <2> QED
    BY <1>3, <2>3 DEF T
<1> QED
  BY <1>4, <1>5, <1>6 DEF R

----------------------------------------------------------------------------
(* Routes: dist, pred and chain_to.                                        *)

\* The number of hops, for the groups that are reached at all.
IsDist(d, closure, parents, seeds) ==
    /\ d \in [DOMAIN d -> Nat \ {0}]
    /\ DOMAIN d = Reached(seeds \cap closure, [g \in closure |-> closure \cap parents[g]])
    /\ \A g \in DOMAIN d : d[g] = 1 <=> g \in seeds
    /\ \A g \in DOMAIN d : d[g] # 1 => \E c \in DOMAIN d : g \in parents[c] /\ d[c] + 1 = d[g]
LEMMA DistIs ==
    ASSUME NEW closure \in SUBSET Group, NEW parents, NEW seeds
    PROVE  IsDist(dist(closure, parents, seeds), closure, parents, seeds)
<1> DEFINE edges == [g \in closure |-> closure \cap parents[g]]
           from  == seeds \cap closure
           L == Layers(from, edges)
           d == dist(closure, parents, seeds)
           In(g) == {k \in 0 .. N : g \in L[k]}
<1>0. N \in Nat /\ 0 \in 0 .. N /\ N \in 0 .. N
  BY CasesAssumption
<1>1. StaysIn(closure, from, edges)
  BY DEF StaysIn
<1>2. \A g \in closure : edges[g] = closure \cap parents[g]
  OBVIOUS
<1>3. d = [g \in L[N] |-> 1 + Min(In(g))] /\ L[N] = Reached(from, edges)
  BY DEF dist, Reached
<1> HIDE DEF edges
<1>4. L \in [0 .. N -> SUBSET closure] /\ L[0] = from /\ \A k \in 1 .. N : L[k] = After(edges, L[k - 1])
  <2> HIDE DEF from
  <2> QED
    BY <1>1, LayersAre
<1>5. \A k \in 0 .. N : L[k] \subseteq L[N]
  BY <1>0, <1>1, LayersGrow
<1> HIDE DEF L, d
<1>6. ASSUME NEW g \in L[N]
      PROVE  Min(In(g)) \in 0 .. N /\ g \in L[Min(In(g))] /\ \A k \in 0 .. N : g \in L[k] => Min(In(g)) <= k
  <2>1. In(g) \subseteq Nat /\ In(g) # {}
    BY <1>0, <1>6
  <2>2. \E x \in In(g) : \A y \in In(g) : x <= y
    <3> HIDE DEF In
    <3> QED
      BY <2>1, SmallestOf
  <2>3. Min(In(g)) \in In(g) /\ \A y \in In(g) : Min(In(g)) <= y
    <3> HIDE DEF In
    <3> QED
      BY <2>2 DEF Min
  <2> QED
    BY <2>3
<1> HIDE DEF In
<1>7. DOMAIN d = L[N] /\ \A g \in L[N] : d[g] = 1 + Min(In(g))
  BY <1>3
<1>8. d \in [DOMAIN d -> Nat \ {0}]
  <2>1. \A g \in DOMAIN d : d[g] \in Nat \ {0}
    BY <1>6, <1>7
  <2>2. d = [g \in DOMAIN d |-> d[g]]
    BY <1>3
  <2> QED
    BY <2>1, <2>2
<1>9. ASSUME NEW g \in L[N] PROVE d[g] = 1 <=> g \in seeds
  <2>1. g \in closure
    BY <1>0, <1>4
  <2>2. g \in seeds => Min(In(g)) = 0
    BY <1>0, <1>4, <1>6, <2>1
  <2>3. Min(In(g)) = 0 => g \in seeds
    BY <1>0, <1>4, <1>6
  <2> QED
    BY <1>6, <1>7, <2>2, <2>3
<1>10. ASSUME NEW g \in L[N], d[g] # 1 PROVE \E c \in L[N] : g \in parents[c] /\ d[c] + 1 = d[g]
  <2> DEFINE k == Min(In(g))
  <2>1. k \in 1 .. N /\ k - 1 \in 0 .. N /\ g \in L[k] /\ d[g] = k + 1
    BY <1>0, <1>6, <1>7, <1>10
  <2>2. g \notin L[k - 1]
    BY <1>6, <2>1
  <2> HIDE DEF k
  <2>3. PICK c \in L[k - 1] : g \in edges[c]
    BY <1>4, <2>1, <2>2 DEF After
  <2>4. c \in L[N] /\ c \in closure /\ g \in parents[c]
    BY <1>2, <1>4, <1>5, <2>1, <2>3
  <2> DEFINE j == Min(In(c))
  <2>5. j \in 0 .. N /\ c \in L[j] /\ j <= k - 1
    BY <1>6, <2>1, <2>3, <2>4
  <2> HIDE DEF j
  <2>6. j + 1 \in 1 .. N /\ (j + 1) - 1 = j /\ j + 1 \in 0 .. N
    BY <1>0, <2>1, <2>5
  <2>7. g \in L[j + 1]
    BY <1>4, <2>3, <2>5, <2>6 DEF After
  <2>8. k <= j + 1
    BY <1>6, <2>6, <2>7 DEF k
  <2>9. d[c] = 1 + j
    BY <1>7, <2>4 DEF j
  <2>10. d[c] + 1 = d[g]
    BY <2>1, <2>5, <2>8, <2>9
  <2> QED
    BY <2>4, <2>10
<1> QED
  BY <1>3, <1>7, <1>8, <1>9, <1>10 DEF IsDist, d, edges

\* Only groups of the set are reached, and none of them is the principal.
LEMMA DistWithin ==
    ASSUME NEW closure \in SUBSET Group, NEW parents, NEW seeds
    PROVE  DOMAIN dist(closure, parents, seeds) \subseteq closure /\ 0 \notin closure
<1> DEFINE edges == [g \in closure |-> closure \cap parents[g]]
           from  == seeds \cap closure
<1>1. StaysIn(closure, from, edges)
  BY DEF StaysIn
<1>2. DOMAIN dist(closure, parents, seeds) = Reached(from, edges)
  <2>1. IsDist(dist(closure, parents, seeds), closure, parents, seeds)
    BY DistIs
  <2> QED
    BY <2>1 DEF IsDist
<1>3. 0 \notin Group
  BY CasesAssumption DEF Group
<1> HIDE DEF edges, from
<1>4. Reached(from, edges) \subseteq closure
  BY <1>1, ReachedIs
<1> QED
  BY <1>2, <1>3, <1>4

\* The group before the last hop is one hop closer.
LEMMA PredIs ==
    ASSUME NEW closure \in SUBSET Group, NEW parents, NEW seeds,
           NEW g \in DOMAIN dist(closure, parents, seeds)
    PROVE  LET d == dist(closure, parents, seeds)
               p == pred(closure, parents, d, g)
           IN  /\ d[g] = 1 => p = 0
               /\ d[g] # 1 => p # 0 /\ p \in DOMAIN d /\ g \in parents[p] /\ d[p] + 1 = d[g]
<1> DEFINE d == dist(closure, parents, seeds)
           cand == {c \in children(closure, parents, g) \cap DOMAIN d : d[c] + 1 = d[g]}
<1>0. IsDist(d, closure, parents, seeds) /\ g \in DOMAIN d
  BY DistIs
<1>1. /\ d \in [DOMAIN d -> Nat \ {0}]
      /\ d[g] # 1 => \E c \in DOMAIN d : g \in parents[c] /\ d[c] + 1 = d[g]
  <2> HIDE DEF d
  <2> QED
    BY <1>0 DEF IsDist
<1>2. DOMAIN d \subseteq closure /\ 0 \notin closure /\ closure \subseteq Nat
  BY CasesAssumption, DistWithin DEF Group
<1> HIDE DEF d
<1> SUFFICES ASSUME d[g] # 1
             PROVE  LET p == Min(cand) IN p # 0 /\ p \in DOMAIN d /\ g \in parents[p] /\ d[p] + 1 = d[g]
  BY DEF pred, d
<1>3. cand \subseteq Nat /\ cand # {}
  BY <1>1, <1>2 DEF children
<1>4. Min(cand) \in cand
  <2> HIDE DEF cand
  <2>1. \E x \in cand : \A y \in cand : x <= y
    BY <1>3, SmallestOf
  <2> QED
    BY <2>1 DEF Min
<1> QED
  BY <1>2, <1>4 DEF children

\* A chain leads from a seed to its target, link by link, in as many hops as the distance says.
IsChain(c, d, parents, seeds, t) ==
    /\ c \in Seq(DOMAIN d) /\ Len(c) = d[t] /\ c[Len(c)] = t /\ c[1] \in seeds
    /\ \A i \in 1 .. Len(c) - 1 : c[i + 1] \in parents[c[i]]
LEMMA ChainIs ==
    ASSUME NEW closure \in SUBSET Group, NEW parents, NEW seeds,
           NEW t \in DOMAIN dist(closure, parents, seeds)
    PROVE  LET d == dist(closure, parents, seeds)
           IN  IsChain(chain_to(closure, parents, d, t), d, parents, seeds, t)
<1> DEFINE d == dist(closure, parents, seeds)
           D == DOMAIN d
           S == {s \in Seq(D) : s # <<>>}
           P(g) == pred(closure, parents, d, g)
           ext == [s \in S |-> IF P(Head(s)) = 0 THEN s ELSE <<P(Head(s))>> \o s]
           m == d[t]
           Def(f) == [k \in 0 .. m |-> IF k = 0 THEN <<t>>
                                       ELSE LET rest == f[k - 1]
                                                p    == P(Head(rest))
                                            IN  IF p = 0 THEN rest ELSE <<p>> \o rest]
           B == CHOOSE f : f = Def(f)
<1>1. d \in [D -> Nat \ {0}] /\ t \in D /\ \A g \in D : d[g] = 1 <=> g \in seeds
  BY DistIs DEF IsDist
<1>2. \A g \in D : /\ d[g] = 1 => P(g) = 0
                   /\ d[g] # 1 => P(g) # 0 /\ P(g) \in D /\ g \in parents[P(g)] /\ d[P(g)] + 1 = d[g]
  BY PredIs
<1>3. chain_to(closure, parents, d, t) = B[m]
  BY DEF chain_to
<1> HIDE DEF d, P
<1>4. m \in Nat \ {0}
  BY <1>1
<1>5. ext \in [S -> S] /\ <<t>> \in S
  <2>1. \A s \in S : (IF P(Head(s)) = 0 THEN s ELSE <<P(Head(s))>> \o s) \in S
    <3> SUFFICES ASSUME NEW s \in S PROVE (IF P(Head(s)) = 0 THEN s ELSE <<P(Head(s))>> \o s) \in S
      OBVIOUS
    <3>1. Head(s) \in D
      OBVIOUS
    <3>2. P(Head(s)) # 0 => P(Head(s)) \in D
      BY <1>2, <3>1
    <3> HIDE DEF D
    <3> QED
      BY <3>2
  <2> HIDE DEF D
  <2> QED
    BY <1>1, <2>1
<1>6. \A s \in S : ext[s] = IF P(Head(s)) = 0 THEN s ELSE <<P(Head(s))>> \o s
  OBVIOUS
<1> HIDE DEF ext, m
<1>7. PICK f \in [0 .. m -> S] : f[0] = <<t>> /\ \A k \in 1 .. m : f[k] = ext[f[k - 1]]
  <2> HIDE DEF S
  <2>1. \E f : Iterates(f, S, <<t>>, ext, m)
    BY <1>4, <1>5, IterateExists
  <2> QED
    BY <2>1 DEF Iterates
<1>8. f = Def(f)
  <2>1. \A k \in 0 .. m : k # 0 => f[k] = IF P(Head(f[k - 1])) = 0 THEN f[k - 1] ELSE <<P(Head(f[k - 1]))>> \o f[k - 1]
    <3> SUFFICES ASSUME NEW k \in 0 .. m, k # 0
                 PROVE f[k] = IF P(Head(f[k - 1])) = 0 THEN f[k - 1] ELSE <<P(Head(f[k - 1]))>> \o f[k - 1]
      OBVIOUS
    <3>1. k \in 1 .. m /\ k - 1 \in 0 .. m
      BY <1>4
    <3>2. f[k] = ext[f[k - 1]] /\ f[k - 1] \in S
      BY <1>7, <3>1
    <3> QED
      BY <1>6, <3>2
  <2>2. f = [k \in 0 .. m |-> f[k]]
    BY <1>7
  <2> HIDE DEF S
  <2> QED
    BY <1>4, <1>7, <2>1, <2>2
<1>9. B = Def(B)
  <2> HIDE DEF Def
  <2> QED
    BY <1>8
<1> HIDE DEF B
<1>10. B[0] = <<t>> /\ \A k \in 1 .. m : LET p == P(Head(B[k - 1]))
                                         IN  B[k] = IF p = 0 THEN B[k - 1] ELSE <<p>> \o B[k - 1]
  <2>1. \A k \in 0 .. m : B[k] = Def(B)[k]
    <3> HIDE DEF Def
    <3> QED
      BY <1>9
  <2>2. 0 \in 0 .. m /\ Def(B)[0] = <<t>>
    BY <1>4
  <2>3. ASSUME NEW k \in 1 .. m
        PROVE  k \in 0 .. m /\ Def(B)[k] = IF P(Head(B[k - 1])) = 0 THEN B[k - 1] ELSE <<P(Head(B[k - 1]))>> \o B[k - 1]
    BY <1>4
  <2> HIDE DEF Def
  <2> QED
    BY <2>1, <2>2, <2>3
<1> DEFINE Good(s, k) == /\ s \in Seq(D) /\ Len(s) = k + 1 /\ s[Len(s)] = t /\ d[s[1]] + k = m
                         /\ \A i \in 1 .. Len(s) - 1 : s[i + 1] \in parents[s[i]]
           q == m - 1
           T == {k \in 0 .. q : Good(B[k], k)}
<1> HIDE DEF D, Def
<1>11. q \in Nat /\ q \in 0 .. q
  BY <1>4
<1>12. 0 \in T
  <2>1. Good(<<t>>, 0)
    BY <1>1, <1>4 DEF m
  <2> HIDE DEF Good
  <2> QED
    BY <1>10, <1>11, <2>1
<1>13. ASSUME NEW k \in 0 .. q - 1, k \in T PROVE k + 1 \in T
  <2> DEFINE s == B[k]
             p == P(s[1])
  <2>1. Good(s, k) /\ k \in 0 .. q
    BY <1>13
  <2>2. s # <<>> /\ Head(s) = s[1] /\ s[1] \in D
    BY <2>1
  <2>3. d[s[1]] # 1
    <3>1. d[s[1]] \in Nat /\ d[s[1]] + k = m
      BY <1>1, <2>1, <2>2
    <3> HIDE DEF s
    <3> QED
      BY <1>4, <3>1 DEF q
  <2>4. p # 0 /\ p \in D /\ s[1] \in parents[p] /\ d[p] + 1 = d[s[1]]
    BY <1>2, <2>2, <2>3 DEF D
  <2>5. k + 1 \in 1 .. m /\ (k + 1) - 1 = k /\ k + 1 \in 0 .. q
    BY <1>4, <1>11
  <2>6. B[k + 1] = <<p>> \o s
    BY <1>10, <2>2, <2>4, <2>5
  <2> HIDE DEF s, p
  <2> DEFINE u == <<p>> \o s
  <2>7. u \in Seq(D) /\ Len(u) = Len(s) + 1 /\ u[1] = p /\ \A i \in 1 .. Len(s) : u[i + 1] = s[i]
    BY <2>1, <2>4
  <2> HIDE DEF u
  <2>8. \A i \in 1 .. Len(u) - 1 : u[i + 1] \in parents[u[i]]
    <3> SUFFICES ASSUME NEW i \in 1 .. Len(u) - 1 PROVE u[i + 1] \in parents[u[i]]
      OBVIOUS
    <3>1. CASE i = 1
      BY <2>1, <2>4, <2>7, <3>1
    <3>2. CASE i # 1
      <4>1. i - 1 \in 1 .. Len(s) - 1 /\ i - 1 \in 1 .. Len(s) /\ i \in 1 .. Len(s) /\ (i - 1) + 1 = i
        BY <2>1, <2>7, <3>2
      <4>2. u[i + 1] = s[i] /\ u[i] = s[i - 1]
        BY <2>7, <4>1
      <4>3. s[(i - 1) + 1] \in parents[s[i - 1]]
        BY <2>1, <4>1
      <4> QED
        BY <4>1, <4>2, <4>3
    <3> QED
      BY <3>1, <3>2
  <2>9. u[Len(u)] = t
    BY <2>1, <2>7
  <2>10. d[p] \in Nat /\ d[s[1]] \in Nat /\ m \in Nat
    BY <1>1, <1>4, <2>2, <2>4 DEF s
  <2>11. d[u[1]] + (k + 1) = m
    <3>1. d[s[1]] + k = m /\ d[p] + 1 = d[s[1]] /\ u[1] = p
      BY <2>1, <2>4, <2>7
    <3> HIDE DEF d, m, Good
    <3>2. (d[p] + 1) + k = m
      BY <3>1
    <3>3. k \in Nat
      BY <1>4 DEF q
    <3>4. \A a, b \in Nat : (a + 1) + b = a + (b + 1)
      OBVIOUS
    <3>5. d[p] + (k + 1) = (d[p] + 1) + k
      BY <2>10, <3>3, <3>4, Zenon
    <3> QED
      BY <3>1, <3>2, <3>5
  <2>12. Good(u, k + 1)
    BY <2>1, <2>7, <2>8, <2>9, <2>11
  <2> HIDE DEF Good
  <2> QED
    BY <2>5, <2>6, <2>12 DEF u
<1> HIDE DEF T, q
<1>14. q \in T
  BY <1>11, <1>12, <1>13, UpTo
<1>15. Good(B[q], q)
  BY <1>14 DEF T
<1> DEFINE s == B[q]
<1>16. s \in Seq(D) /\ s # <<>> /\ Head(s) = s[1] /\ s[1] \in D /\ d[s[1]] = 1 /\ Len(s) = m
  <2> HIDE DEF s
  <2>1. s \in Seq(D) /\ Len(s) = q + 1 /\ d[s[1]] + q = m
    BY <1>15 DEF s
  <2>2. Len(s) = m /\ s # <<>>
    BY <1>4, <2>1 DEF q
  <2>3. Head(s) = s[1] /\ s[1] \in D
    BY <1>4, <2>1, <2>2
  <2>4. d[s[1]] \in Nat
    BY <1>1, <2>3
  <2> QED
    BY <1>4, <2>1, <2>2, <2>3, <2>4 DEF q
<1>17. B[m] = s
  <2>1. m \in 1 .. m /\ m - 1 = q
    BY <1>4 DEF q
  <2>2. P(Head(s)) = 0
    BY <1>2, <1>16 DEF D
  <2> QED
    BY <1>10, <2>1, <2>2
<1>18. s[1] \in seeds
  BY <1>1, <1>16
<1> QED
  BY <1>3, <1>15, <1>16, <1>17, <1>18 DEF d, m, D, IsChain

----------------------------------------------------------------------------
(* What assemble_memberships is made of, for an account or a group n.      *)

PgOf(entry, d)            == IF entry.primary = "Found" THEN {d.primary} ELSE {}
FoundBy(conn, entry, d, n) == search_transitive_groups(conn, d, n) \cup PgOf(entry, d)
                              \cup UNION {search_transitive_groups(conn, d, p) : p \in PgOf(entry, d)}
ParentsOf(conn, d)        == [g \in Group |-> sorted_member_of(conn, d, g)]
SeedsOf(entry, d)         == entry.direct \cup PgOf(entry, d)
AllOf(conn, entry, d, n)  == FoundBy(conn, entry, d, n) \ ({n} \cup d.sidless)
LeftOut(conn, entry, d, n) == Excluded(AllOf(conn, entry, d, n), ParentsOf(conn, d), SeedsOf(entry, d), d)
ClosureOf(conn, entry, d, n) == AllOf(conn, entry, d, n) \ LeftOut(conn, entry, d, n)
BeyondOf(conn, entry, d, n) ==
    (entry.direct \cup UNION {ParentsOf(conn, d)[g] : g \in ClosureOf(conn, entry, d, n)})
    \ (ClosureOf(conn, entry, d, n) \cup LeftOut(conn, entry, d, n) \cup {n} \cup (FoundBy(conn, entry, d, n) \cap d.sidless))
HopsOf(conn, entry, d, n) == dist(ClosureOf(conn, entry, d, n), ParentsOf(conn, d), SeedsOf(entry, d))
KidsOf(conn, entry, d, n, g) == children(ClosureOf(conn, entry, d, n), ParentsOf(conn, d), g)
ChainOf(conn, entry, d, n, g) ==
    chain_to(ClosureOf(conn, entry, d, n), ParentsOf(conn, d), HopsOf(conn, entry, d, n), g)
HopOf(c) == IF Len(c) > 1 THEN {c[Len(c) - 1]} ELSE {}
PrimaryShown(conn, entry, d, n, g) == Membership(n, g, TRUE, <<n, g>>, "PrimaryGroup", TRUE, KidsOf(conn, entry, d, n, g))
RoutedShown(conn, entry, d, n, g) ==
    Membership(n, g, g \in entry.direct, <<n>> \o ChainOf(conn, entry, d, n, g), "DomainGroup", TRUE,
               KidsOf(conn, entry, d, n, g) \ HopOf(ChainOf(conn, entry, d, n, g)))
UnroutedShown(conn, entry, d, n, g) ==
    Membership(n, g, g \in entry.direct, <<n, g>>, "LdapMatchingRule", FALSE, KidsOf(conn, entry, d, n, g))
Shown(conn, entry, d, n, g) == IF g \in DOMAIN HopsOf(conn, entry, d, n) THEN RoutedShown(conn, entry, d, n, g)
                               ELSE UnroutedShown(conn, entry, d, n, g)

MembershipsOf(conn, entry, d, n) ==
    {PrimaryShown(conn, entry, d, n, g) : g \in PgOf(entry, d)}
    \cup {Shown(conn, entry, d, n, g) : g \in ClosureOf(conn, entry, d, n) \ PgOf(entry, d)}
GapsOf(conn, entry, d, n) ==
    (IF ClosureOf(conn, entry, d, n) \cap (d.untyped \ PgOf(entry, d)) # {} THEN {"groupType unreadable"} ELSE {})
    \cup (IF FoundBy(conn, entry, d, n) \cap d.sidless # {} THEN {"objectSid unreadable"} ELSE {})
    \cup (IF BeyondOf(conn, entry, d, n) # {} THEN {"groups outside the resolved set"} ELSE {})

\* The memberships and the gaps, in these terms.
LEMMA AssembledIs ==
    ASSUME NEW conn, NEW entry, NEW d, NEW n
    PROVE  LET a == assemble_memberships(conn, entry, d, n)
           IN  a.memberships = MembershipsOf(conn, entry, d, n) /\ a.gaps = GapsOf(conn, entry, d, n)
  BY DEF assemble_memberships, PgOf, FoundBy, ParentsOf, SeedsOf, AllOf, LeftOut, ClosureOf, BeyondOf, HopsOf, KidsOf,
         ChainOf, HopOf, PrimaryShown, RoutedShown, UnroutedShown, Shown, MembershipsOf, GapsOf

\* The transitive search finds groups.
LEMMA SearchFindsGroups ==
    ASSUME NEW conn, NEW d, IsDirectory(d), NEW n \in Node
    PROVE  search_transitive_groups(conn, d, n) \subseteq Group
<1> DEFINE here == [m \in Node |-> {g \in d.memberOf[m] : Listed(conn, d, g)}]
<1>1. Group \subseteq Node
  BY CasesAssumption DEF Group, Node
<1>2. \A m \in Node : here[m] \subseteq Group
  BY DEF IsDirectory
<1>3. search_transitive_groups(conn, d, n) \subseteq Reached(here[n], here)
  BY DEF search_transitive_groups
<1> HIDE DEF here
<1>4. StaysIn(Group, here[n], here)
  BY <1>1, <1>2 DEF StaysIn
<1>5. Reached(here[n], here) \subseteq Group
  BY <1>4, ReachedIs
<1> QED
  BY <1>3, <1>5

\* An entry as it is read: edges that were there, and a primary group only where there is one.
IsEntry(entry, d, o, n) ==
    /\ \A g \in entry.direct : g \in Group /\ (IsEdge(d, n, g) \/ IsEdge(o, n, g))
    /\ entry.primary = "Found" => n = 0 /\ d.primary # 0

\* The closure consists of groups that count, and every edge it goes along is one of the directory.
LEMMA ClosureIs ==
    ASSUME NEW conn, NEW entry, NEW d, NEW o, NEW n \in Node, IsDirectory(d), IsEntry(entry, d, o, n)
    PROVE  /\ FoundBy(conn, entry, d, n) \subseteq Group /\ PgOf(entry, d) \subseteq Group /\ PgOf(entry, d) \subseteq PrimaryOf(d)
           /\ ClosureOf(conn, entry, d, n) \subseteq Group
           /\ ClosureOf(conn, entry, d, n) \subseteq d.security \cup d.untyped
           /\ \A g \in Group : ParentsOf(conn, d)[g] \subseteq d.memberOf[g]
           /\ \A g \in SeedsOf(entry, d) : g \in Group /\ (IsEdge(d, n, g) \/ IsEdge(o, n, g))
<1>1. PgOf(entry, d) \subseteq Group /\ PgOf(entry, d) \subseteq PrimaryOf(d)
  BY CasesAssumption DEF PgOf, PrimaryOf, IsEntry, IsDirectory, Group, Node
<1>2. PgOf(entry, d) \subseteq Node
  BY <1>1, CasesAssumption DEF Group, Node
<1>3. FoundBy(conn, entry, d, n) \subseteq Group
  BY <1>1, <1>2, SearchFindsGroups DEF FoundBy
<1>4. ClosureOf(conn, entry, d, n) \subseteq FoundBy(conn, entry, d, n)
  BY DEF ClosureOf, AllOf
<1>5. ClosureOf(conn, entry, d, n) \subseteq d.security \cup d.untyped
  BY DEF ClosureOf, LeftOut, Excluded
<1>6. \A g \in Group : ParentsOf(conn, d)[g] \subseteq d.memberOf[g]
  BY DEF ParentsOf, sorted_member_of
<1>7. \A g \in SeedsOf(entry, d) : g \in Group /\ (IsEdge(d, n, g) \/ IsEdge(o, n, g))
  BY <1>1 DEF SeedsOf, PgOf, IsEntry, IsEdge
<1> QED
  BY <1>1, <1>3, <1>4, <1>5, <1>6, <1>7

\* The principal, then a chain.
LEMMA PathIs ==
    ASSUME NEW n \in Node, NEW c \in Seq(Group), c # <<>>
    PROVE  LET p == <<n>> \o c IN
           /\ p \in Seq(Node) /\ p # <<>> /\ Len(p) = Len(c) + 1 /\ p[1] = n /\ p[Len(p)] = c[Len(c)]
           /\ \A i \in 2 .. Len(p) : i - 1 \in 1 .. Len(c) /\ p[i] = c[i - 1]
<1>1. Group \subseteq Node
  BY CasesAssumption DEF Group, Node
<1>2. c \in Seq(Node)
  BY <1>1
<1>3. Len(c) \in Nat \ {0}
  OBVIOUS
<1> QED
  BY <1>2, <1>3

\* Every membership assembled has a route that exists, or is marked as one without.
LEMMA AssembledRoutes ==
    ASSUME NEW conn, NEW entry, NEW d, NEW o, NEW n \in Node, IsDirectory(d), IsEntry(entry, d, o, n)
    PROVE  \A m \in assemble_memberships(conn, entry, d, n).memberships : IsRoute(m, n, d, o)
<1> DEFINE pg == PgOf(entry, d)
           closure == ClosureOf(conn, entry, d, n)
           parents == ParentsOf(conn, d)
           seeds == SeedsOf(entry, d)
           hops == HopsOf(conn, entry, d, n)
<1>1. /\ pg \subseteq Group /\ pg \subseteq PrimaryOf(d) /\ closure \subseteq Group
      /\ closure \subseteq d.security \cup d.untyped
      /\ \A g \in Group : parents[g] \subseteq d.memberOf[g]
      /\ \A g \in seeds : g \in Group /\ (IsEdge(d, n, g) \/ IsEdge(o, n, g))
  BY ClosureIs
<1>2. hops = dist(closure, parents, seeds)
  BY DEF HopsOf
<1>3. Group \subseteq Node
  BY CasesAssumption DEF Group, Node
<1> HIDE DEF pg, closure, parents, seeds, hops
<1>4. ASSUME NEW g \in pg PROVE IsRoute(PrimaryShown(conn, entry, d, n, g), n, d, o)
  <2> DEFINE path == <<n, g>>
  <2>1. path \in Seq(Node) /\ path # <<>> /\ Len(path) = 2 /\ path[1] = n /\ path[2] = g
    BY <1>1, <1>3
  <2>2. IsEdge(d, n, g) \/ IsEdge(o, n, g)
    BY <1>1 DEF seeds, SeedsOf, pg
  <2> HIDE DEF path
  <2>3. \A i \in 1 .. 2 - 1 : IsEdge(d, path[i], path[i + 1]) \/ IsEdge(o, path[i], path[i + 1])
    BY <2>1, <2>2
  <2>4. \A i \in 2 .. 2 : path[i] \in d.security \cup d.untyped \cup PrimaryOf(d)
    BY <1>1, <2>1
  <2> QED
    BY <1>1, <2>1, <2>3, <2>4 DEF IsRoute, PrimaryShown, Membership, path
<1>5. ASSUME NEW g \in closure, g \in DOMAIN hops PROVE IsRoute(RoutedShown(conn, entry, d, n, g), n, d, o)
  <2> DEFINE c == ChainOf(conn, entry, d, n, g)
             path == <<n>> \o c
  <2>1. /\ c \in Seq(DOMAIN hops) /\ Len(c) = hops[g] /\ c[Len(c)] = g /\ c[1] \in seeds
        /\ \A i \in 1 .. Len(c) - 1 : c[i + 1] \in parents[c[i]]
    <3>1. c = chain_to(closure, parents, hops, g)
      BY DEF ChainOf, closure, parents, hops
    <3>2. g \in DOMAIN dist(closure, parents, seeds)
      BY <1>2, <1>5
    <3> HIDE DEF c
    <3>3. IsChain(c, hops, parents, seeds, g)
      BY <1>1, <1>2, <3>1, <3>2, ChainIs
    <3> QED
      BY <3>3 DEF IsChain
  <2>2. hops[g] \in Nat \ {0} /\ DOMAIN hops \subseteq closure /\ (hops[g] = 1 <=> g \in seeds)
    <3>1. IsDist(hops, closure, parents, seeds) /\ DOMAIN hops \subseteq closure
      BY <1>1, <1>2, DistIs, DistWithin
    <3> QED
      BY <1>5, <3>1 DEF IsDist
  <2> HIDE DEF c
  <2>3. c \in Seq(closure) /\ c \in Seq(Group) /\ c # <<>>
    BY <1>1, <2>1, <2>2
  <2>4. /\ path \in Seq(Node) /\ path # <<>> /\ Len(path) = Len(c) + 1 /\ path[1] = n /\ path[Len(path)] = g
        /\ \A i \in 2 .. Len(path) : i - 1 \in 1 .. Len(c) /\ path[i] = c[i - 1]
    BY <2>1, <2>3, PathIs
  <2>5. \A i \in 1 .. Len(c) : c[i] \in closure
    BY <2>3
  <2> HIDE DEF path
  <2>6. \A i \in 2 .. Len(path) : path[i] \in d.security \cup d.untyped \cup PrimaryOf(d)
    BY <1>1, <2>4, <2>5
  <2>7. ASSUME NEW i \in 1 .. Len(path) - 1
        PROVE  IsEdge(d, path[i], path[i + 1]) \/ IsEdge(o, path[i], path[i + 1])
    <3>0. Len(c) \in Nat \ {0} /\ Len(path) = Len(c) + 1
      BY <2>1, <2>2, <2>4
    <3>1. i + 1 \in 2 .. Len(path) /\ (i + 1) - 1 = i
      BY <3>0
    <3>2. path[i + 1] = c[i]
      BY <2>4, <3>1
    <3>3. CASE i = 1
      BY <1>1, <2>1, <2>4, <3>2, <3>3
    <3>4. CASE i # 1
      <4>1. i \in 2 .. Len(path) /\ i - 1 \in 1 .. Len(c) - 1 /\ (i - 1) + 1 = i /\ i - 1 \in 1 .. Len(c)
        BY <3>0, <3>4
      <4>2. path[i] = c[i - 1] /\ c[i] \in parents[c[i - 1]] /\ c[i - 1] \in Group
        BY <1>1, <2>1, <2>4, <2>5, <4>1
      <4> QED
        BY <1>1, <3>2, <4>2 DEF IsEdge
    <3> QED
      BY <3>3, <3>4
  <2>8. g \in entry.direct => Len(path) = 2
    BY <2>1, <2>2, <2>4 DEF seeds, SeedsOf
  <2> QED
    BY <1>1, <2>4, <2>6, <2>7, <2>8 DEF IsRoute, RoutedShown, Membership, path, c
<1>6. ASSUME NEW g \in closure PROVE IsRoute(UnroutedShown(conn, entry, d, n, g), n, d, o)
  <2>1. <<n, g>> \in Seq(Node) /\ Len(<<n, g>>) = 2 /\ <<n, g>>[1] = n /\ <<n, g>>[2] = g
    BY <1>1, <1>3
  <2> QED
    BY <1>1, <2>1 DEF IsRoute, UnroutedShown, Membership
<1>7. \A g \in closure : IsRoute(Shown(conn, entry, d, n, g), n, d, o)
  BY <1>5, <1>6 DEF Shown, hops
<1>8. assemble_memberships(conn, entry, d, n).memberships = MembershipsOf(conn, entry, d, n)
  BY AssembledIs
<1> QED
  BY <1>4, <1>7, <1>8 DEF MembershipsOf, pg, closure

----------------------------------------------------------------------------
(* The token of Windows.                                                   *)

\* The security groups of a scope a node is directly in.
Sec(d, scope, n) == (d.memberOf[n] \cap d.security) \cap scope

\* TokenFrom is the smallest set that has with each starting node, and with each of its groups,
\* their security groups in the scope.
IsToken(T, d, nodes, scope) ==
    /\ T \subseteq Group
    /\ \A n \in nodes \cup T : Sec(d, scope, n) \subseteq T
    /\ \A Y : (\A n \in nodes \cup (T \cap Y) : Sec(d, scope, n) \subseteq Y) => T \subseteq Y
LEMMA TokenFromIs ==
    ASSUME NEW d, IsDirectory(d), NEW nodes \in SUBSET Node, NEW scope
    PROVE  IsToken(TokenFrom(d, nodes, scope), d, nodes, scope)
<1> DEFINE sec  == [n \in Node |-> (d.memberOf[n] \cap d.security) \cap scope]
           from == UNION {sec[n] : n \in nodes}
           T    == Reached(from, sec)
<1>1. Group \subseteq Node
  BY CasesAssumption DEF Group, Node
<1>2. \A n \in Node : sec[n] = Sec(d, scope, n) /\ sec[n] \subseteq Group
  BY DEF Sec, IsDirectory
<1>3. TokenFrom(d, nodes, scope) = T
  BY DEF TokenFrom
<1> HIDE DEF sec
<1>4. StaysIn(Group, from, sec)
  BY <1>1, <1>2 DEF StaysIn
<1>5. \A n \in nodes : Sec(d, scope, n) \subseteq from
  BY <1>2
<1>6. ASSUME NEW Y, \A n \in nodes : Sec(d, scope, n) \subseteq Y PROVE from \subseteq Y
  BY <1>2, <1>6
<1> HIDE DEF from
<1>7. /\ from \subseteq T /\ T \subseteq Group /\ \A g \in T : sec[g] \subseteq T
      /\ \A Y : from \subseteq Y /\ (\A g \in T \cap Y : sec[g] \subseteq Y) => T \subseteq Y
  BY <1>4, ReachedIs
<1> HIDE DEF T
<1>8. \A n \in nodes \cup T : Sec(d, scope, n) \subseteq T
  BY <1>1, <1>2, <1>5, <1>7
<1>9. ASSUME NEW Y, \A n \in nodes \cup (T \cap Y) : Sec(d, scope, n) \subseteq Y PROVE T \subseteq Y
  <2>1. from \subseteq Y
    BY <1>6, <1>9
  <2>2. \A g \in T \cap Y : sec[g] \subseteq Y
    BY <1>1, <1>2, <1>7, <1>9
  <2> QED
    BY <1>7, <2>1, <2>2
<1> QED
  BY <1>3, <1>7, <1>8, <1>9 DEF IsToken

\* An account of the configured domain: the groups the domain controller lists for it are those a
\* logon there has.
LEMMA HomeTokenIsReal ==
    ASSUME IsDirectory(dir), dir.dom[0] = "home"
    PROVE  RealGroups({}) = TokenOf(Configured, dir, 0) /\ TokenOf(Configured, dir, 0) \subseteq Group
<1> DEFINE account  == [dom |-> dir.dom[0], gc |-> FALSE, whole |-> TRUE]
           scope    == {g \in Group : /\ Forest(dir.dom[g]) = Forest("home")
                                      /\ g \in dir.local => dir.dom[g] = "home"}
           homes    == {g \in Group : dir.dom[g] = "home"}
           P        == PrimaryOf(dir)
           R        == TokenFrom(dir, {0} \cup P, scope)
           T        == P \cup R
           crossing == T \ dir.local
           C        == TokenFrom(dir, {0} \cup crossing, homes)
<1>1. TokenOf(Configured, dir, 0) = T /\ TokenOf(account, dir, 0) = T
  BY DEF TokenOf, Configured
<1>2. P \subseteq Group /\ P \cap dir.local = {} /\ Group \subseteq Node /\ 0 \in Node
  BY CasesAssumption DEF PrimaryOf, IsDirectory, Group, Node
<1>3. {0} \cup P \in SUBSET Node
  BY <1>2
<1> HIDE DEF P
<1>4. IsToken(R, dir, {0} \cup P, scope)
  <2> HIDE DEF scope
  <2> QED
    BY <1>3, TokenFromIs
<1>5. R \subseteq Group /\ T \subseteq Group /\ dir.dom \in [Node -> Domains]
  BY <1>2, <1>4 DEF IsToken, IsDirectory
<1>6. RealGroups({}) = crossing \cup C
  <2>1. crossing = {g \in TokenOf(account, dir, 0) \ dir.local : dir.dom[g] \in PassesInto(dir.dom[0], {})}
    <3>1. PassesInto(dir.dom[0], {}) = Domains
      BY DEF PassesInto, Forest
    <3> QED
      BY <1>1, <1>2, <1>5, <3>1
  <2> QED
    BY <2>1 DEF RealGroups, GlobalAndUniversal
<1>7. {0} \cup crossing \in SUBSET Node
  BY <1>2, <1>5
<1>8. homes \subseteq scope /\ \A g \in scope : g \in dir.local => g \in homes
  OBVIOUS
<1> HIDE DEF R, scope, homes
<1>9. IsToken(C, dir, {0} \cup crossing, homes)
  <2> HIDE DEF crossing
  <2> QED
    BY <1>7, TokenFromIs
<1> HIDE DEF C
<1>10. \A n : Sec(dir, homes, n) \subseteq Sec(dir, scope, n)
  BY <1>8 DEF Sec
<1>11. \A n : \A g \in Sec(dir, scope, n) : g \in dir.local => g \in Sec(dir, homes, n)
  BY <1>8 DEF Sec
<1>12. \A n \in {0} \cup T : Sec(dir, scope, n) \subseteq R
  BY <1>4 DEF IsToken
<1>13. C \subseteq T
  <2>1. \A n \in ({0} \cup crossing) \cup (C \cap T) : Sec(dir, homes, n) \subseteq T
    BY <1>10, <1>12
  <2> QED
    BY <1>9, <2>1 DEF IsToken
<1>14. R \subseteq crossing \cup C
  <2> DEFINE Y == crossing \cup C
  <2>1. ASSUME NEW n \in ({0} \cup P) \cup (R \cap Y) PROVE Sec(dir, scope, n) \subseteq Y
    <3>1. n \in {0} \cup crossing \cup C
      BY <1>2
    <3>2. Sec(dir, scope, n) \subseteq T
      BY <1>12, <1>13, <3>1
    <3>3. Sec(dir, homes, n) \subseteq C
      BY <1>9, <3>1 DEF IsToken
    <3> QED
      BY <1>11, <3>2, <3>3
  <2> HIDE DEF Y
  <2> QED
    BY <1>4, <2>1 DEF IsToken, Y
<1>15. P \subseteq crossing
  BY <1>2
<1> QED
  BY <1>1, <1>5, <1>6, <1>13, <1>14, <1>15

----------------------------------------------------------------------------
(* An answer without a gap, read in a directory that stood still.          *)

\* A connection bound to the configured domain, an account of it, and nothing found missing.
NoGaps(conn, d) ==
    /\ conn.dom = "home" /\ ~ conn.gc /\ IsDirectory(d) /\ d.dom[0] = "home"
    /\ GapsOf(conn, Entry(conn, d, 0), d, 0) = {} /\ Entry(conn, d, 0).primary # "Missing"

\* What an entry holds is real.
LEMMA EntryIs ==
    ASSUME NEW conn, NEW d, IsDirectory(d), NEW n \in Node, NEW o
    PROVE  /\ IsEntry(Entry(conn, d, n), d, o, n)
           /\ Entry(conn, d, n).direct = sorted_member_of(conn, d, n)
           /\ Entry(conn, d, n).primary = resolve_primary_group(conn, d, n)
<1>1. d.memberOf[n] \subseteq Group
  BY DEF IsDirectory
<1> QED
  BY <1>1 DEF Entry, IsEntry, sorted_member_of, resolve_primary_group, IsEdge

\* Without gaps the primary group is in the closure, every group in it is a security group, and
\* the security groups a group of it is in, as far as there is a route to it, are in it as well.
LEMMA ClosedWithoutGaps ==
    ASSUME NEW conn, NEW d, NoGaps(conn, d)
    PROVE  LET e == Entry(conn, d, 0)
               closure == ClosureOf(conn, e, d, 0)
               parents == ParentsOf(conn, d)
               hops == HopsOf(conn, e, d, 0)
           IN  /\ PgOf(e, d) = PrimaryOf(d) /\ PgOf(e, d) \subseteq closure /\ PgOf(e, d) \subseteq DOMAIN hops
               /\ closure \subseteq Group /\ closure \subseteq d.security
               /\ \A g \in e.direct : g \in d.security => g \in closure
               /\ \A n \in DOMAIN hops : \A g \in parents[n] : g \in d.security => g \in closure
               /\ DOMAIN hops \subseteq closure
<1> DEFINE e == Entry(conn, d, 0)
           pg == PgOf(e, d)
           found == FoundBy(conn, e, d, 0)
           all == AllOf(conn, e, d, 0)
           out == LeftOut(conn, e, d, 0)
           closure == ClosureOf(conn, e, d, 0)
           parents == ParentsOf(conn, d)
           seeds == SeedsOf(e, d)
           cand == {g \in all : g \in d.security \/ g \in all \cap (d.untyped \ PrimaryOf(d))}
           safe == DOMAIN dist(cand, parents, seeds)
           full == DOMAIN dist(all, parents, seeds)
           hops == HopsOf(conn, e, d, 0)
<1>1. IsDirectory(d) /\ 0 \in Node /\ Group \subseteq Node /\ 0 \notin Group
  BY CasesAssumption DEF NoGaps, Group, Node
<1>2. IsEntry(e, d, d, 0) /\ e.primary = resolve_primary_group(conn, d, 0)
  BY <1>1, EntryIs
<1>3. /\ found \subseteq Group /\ pg \subseteq Group /\ pg \subseteq PrimaryOf(d) /\ closure \subseteq Group
      /\ \A g \in seeds : g \in Group
  BY <1>1, <1>2, ClosureIs
<1>4. pg = PrimaryOf(d)
  BY <1>2 DEF resolve_primary_group, NoGaps, PgOf, PrimaryOf, IsForeign
<1>5. /\ found \cap d.sidless = {} /\ closure \cap (d.untyped \ pg) = {}
      /\ BeyondOf(conn, e, d, 0) = {}
  BY DEF NoGaps, GapsOf
<1>6. /\ all = found \ ({0} \cup d.sidless) /\ closure = all \ out /\ pg \subseteq found
      /\ out = {g \in all : g \notin cand \/ (g \in full /\ g \notin safe)}
      /\ seeds = e.direct \cup pg /\ hops = dist(closure, parents, seeds)
  BY DEF AllOf, ClosureOf, FoundBy, LeftOut, Excluded, SeedsOf, HopsOf
<1>7. \A g \in e.direct \cup UNION {parents[n] : n \in closure} : g \in closure \cup out \cup {0}
  BY <1>5 DEF BeyondOf
<1>8. \A n \in Group : parents[n] \subseteq Group
  BY <1>1 DEF ParentsOf, sorted_member_of, IsDirectory
<1> HIDE DEF e, pg, found, all, out, closure, parents, seeds, full, hops
<1>9. cand \in SUBSET Group /\ closure \in SUBSET Group /\ closure \subseteq cand
  BY <1>3, <1>6
<1> DEFINE ec == [g \in cand |-> cand \cap parents[g]]
           fc == seeds \cap cand
           eh == [g \in closure |-> closure \cap parents[g]]
           fh == seeds \cap closure
           H  == DOMAIN hops
<1>10. safe = Reached(fc, ec) /\ H = Reached(fh, eh) /\ H \subseteq closure
  <2> HIDE DEF cand
  <2>1. IsDist(dist(cand, parents, seeds), cand, parents, seeds)
    BY <1>9, DistIs
  <2>2. IsDist(hops, closure, parents, seeds) /\ DOMAIN hops \subseteq closure
    BY <1>6, <1>9, DistIs, DistWithin
  <2> QED
    BY <2>1, <2>2 DEF IsDist
<1> HIDE DEF cand, safe, H
<1>11. StaysIn(cand, fc, ec) /\ StaysIn(closure, fh, eh)
  BY <1>9 DEF StaysIn
<1>12. (\A g \in cand : ec[g] = cand \cap parents[g]) /\ (\A g \in closure : eh[g] = closure \cap parents[g])
  OBVIOUS
<1> HIDE DEF ec, eh
<1>13. fc \subseteq safe /\ safe \subseteq cand /\ \A g \in safe : ec[g] \subseteq safe
  <2> HIDE DEF fc
  <2> QED
    BY <1>10, <1>11, ReachedIs
<1>14. fh \subseteq H /\ \A Y : fh \subseteq Y /\ (\A g \in H \cap Y : eh[g] \subseteq Y) => H \subseteq Y
  <2> HIDE DEF fh
  <2> QED
    BY <1>10, <1>11, ReachedIs
<1>15. H \subseteq safe
  <2>1. fh \subseteq safe
    BY <1>9, <1>13
  <2>2. \A g \in H \cap safe : eh[g] \subseteq safe
    <3> SUFFICES ASSUME NEW g \in H \cap safe PROVE eh[g] \subseteq safe
      OBVIOUS
    <3>1. eh[g] = closure \cap parents[g] /\ ec[g] = cand \cap parents[g] /\ ec[g] \subseteq safe
      BY <1>9, <1>10, <1>12, <1>13
    <3> QED
      BY <1>9, <3>1
  <2> QED
    BY <1>14, <2>1, <2>2
<1>16. ASSUME NEW g \in all, g \in d.security PROVE g \in cand
  BY <1>16 DEF cand
<1>17. ASSUME NEW g \in out, g \in d.security PROVE g \in cand /\ g \notin safe
  BY <1>6, <1>16, <1>17
<1>18. ASSUME NEW g \in seeds \cap all, g \in d.security PROVE g \in closure
  BY <1>6, <1>13, <1>16, <1>17, <1>18
<1>19. pg \subseteq closure
  <2>1. pg \subseteq d.security
    BY <1>1, <1>4 DEF IsDirectory
  <2>2. pg \subseteq all
    BY <1>1, <1>3, <1>5, <1>6
  <2> QED
    BY <1>6, <1>18, <2>1, <2>2
<1>20. closure \subseteq d.security
  <2>1. pg \subseteq d.security
    BY <1>1, <1>4 DEF IsDirectory
  <2> QED
    BY <1>5, <1>9, <2>1 DEF cand
<1>21. ASSUME NEW g \in e.direct, g \in d.security PROVE g \in closure
  <2>1. g \in closure \cup out \cup {0} /\ g \in seeds /\ g \in Group
    BY <1>3, <1>6, <1>7
  <2> QED
    BY <1>1, <1>6, <1>18, <1>21, <2>1
<1>22. ASSUME NEW n \in H, NEW g \in parents[n], g \in d.security PROVE g \in closure
  <2>1. n \in closure /\ n \in safe /\ n \in cand /\ g \in Group
    BY <1>3, <1>8, <1>9, <1>10, <1>15
  <2>2. g \in closure \cup out
    BY <1>1, <1>7, <2>1
  <2>3. g \in out => g \in safe
    BY <1>12, <1>13, <1>17, <1>22, <2>1
  <2> QED
    BY <1>17, <1>22, <2>2, <2>3
<1>23. pg \subseteq H
  BY <1>6, <1>14, <1>19
<1> QED
  BY <1>3, <1>4, <1>10, <1>19, <1>20, <1>21, <1>22, <1>23 DEF e, pg, closure, parents, hops, H

\* The groups shown; one to which there is no route is shown as incomplete.
LEMMA ShownGroups ==
    ASSUME NEW conn, NEW entry, NEW d, NEW n
    PROVE  GroupsOf(MembershipsOf(conn, entry, d, n)) = PgOf(entry, d) \cup ClosureOf(conn, entry, d, n)
<1>1. \A g : PrimaryShown(conn, entry, d, n, g).group = g /\ Shown(conn, entry, d, n, g).group = g
  BY DEF PrimaryShown, Shown, RoutedShown, UnroutedShown, Membership
<1> QED
  BY <1>1 DEF GroupsOf, MembershipsOf

\* A group without a route is shown as one.
LEMMA UnroutedAreIncomplete ==
    ASSUME NEW conn, NEW entry, NEW d, NEW n,
           NEW g \in ClosureOf(conn, entry, d, n) \ PgOf(entry, d), g \notin DOMAIN HopsOf(conn, entry, d, n)
    PROVE  \E m \in MembershipsOf(conn, entry, d, n) : m.group = g /\ m.complete = FALSE
<1>1. Shown(conn, entry, d, n, g).group = g /\ Shown(conn, entry, d, n, g).complete = FALSE
  BY DEF Shown, UnroutedShown, Membership
<1> QED
  BY <1>1 DEF MembershipsOf

\* Where every memberOf can be read and every group is shown with its route, an answer without a
\* gap has all groups the configured domain puts into the token and no other.
LEMMA KnownWithoutGaps ==
    ASSUME NEW conn, NoGaps(conn, dir), dir.mute = {},
           \A m \in MembershipsOf(conn, Entry(conn, dir, 0), dir, 0) : m.complete
    PROVE  GroupsOf(MembershipsOf(conn, Entry(conn, dir, 0), dir, 0)) = KnownAtHome
<1> DEFINE e == Entry(conn, dir, 0)
           pg == PgOf(e, dir)
           closure == ClosureOf(conn, e, dir, 0)
           parents == ParentsOf(conn, dir)
           seeds == SeedsOf(e, dir)
           hops == HopsOf(conn, e, dir, 0)
           homes == {g \in Group : dir.dom[g] = "home"}
           R == TokenFrom(dir, {0} \cup pg, homes)
<1>1. IsDirectory(dir) /\ 0 \in Node /\ Group \subseteq Node /\ 0 \notin Group
  BY CasesAssumption DEF NoGaps, Group, Node
<1>2. /\ pg = PrimaryOf(dir) /\ pg \subseteq closure /\ pg \subseteq DOMAIN hops
      /\ closure \subseteq Group /\ closure \subseteq dir.security
      /\ \A g \in e.direct : g \in dir.security => g \in closure
      /\ \A n \in DOMAIN hops : \A g \in parents[n] : g \in dir.security => g \in closure
      /\ DOMAIN hops \subseteq closure
  BY ClosedWithoutGaps
<1>3. closure = DOMAIN hops
  BY <1>2, UnroutedAreIncomplete
<1>4. GroupsOf(MembershipsOf(conn, e, dir, 0)) = closure
  <2>1. GroupsOf(MembershipsOf(conn, e, dir, 0)) = pg \cup closure
    BY ShownGroups
  <2> HIDE DEF e, pg, closure
  <2> QED
    BY <1>2, <2>1
<1>5. /\ e.direct = {g \in dir.memberOf[0] : dir.dom[g] = "home"}
      /\ \A n \in Group : parents[n] = {g \in dir.memberOf[n] : dir.dom[g] = "home"}
  <2>1. e.direct = sorted_member_of(conn, dir, 0) /\ conn.dom = "home" /\ ~ conn.gc
    BY <1>1, EntryIs DEF NoGaps
  <2>2. \A n : sorted_member_of(conn, dir, n) = {g \in dir.memberOf[n] : dir.dom[g] = "home"}
    BY <2>1 DEF sorted_member_of, Listed, Visible
  <2> HIDE DEF e
  <2> QED
    BY <2>1, <2>2 DEF ParentsOf
<1>6. KnownAtHome = pg \cup R
  <2> HIDE DEF pg
  <2> QED
    BY <1>2 DEF KnownAtHome
<1>7. {0} \cup pg \in SUBSET Node /\ \A n \in Node : dir.memberOf[n] \subseteq Group
  BY <1>1, <1>2 DEF IsDirectory
<1>8. hops = dist(closure, parents, seeds) /\ seeds = e.direct \cup pg
  BY DEF HopsOf, SeedsOf
<1>9. \A n \in Node : Sec(dir, homes, n) = {g \in dir.memberOf[n] : dir.dom[g] = "home" /\ g \in dir.security}
  BY <1>7 DEF Sec
<1> HIDE DEF e, pg, closure, parents, seeds, hops, homes
<1>10. IsToken(R, dir, {0} \cup pg, homes)
  BY <1>1, <1>7, TokenFromIs
<1> HIDE DEF R
<1>11. R \subseteq closure
  <2>1. \A n \in ({0} \cup pg) \cup (R \cap closure) : Sec(dir, homes, n) \subseteq closure
    <3>1. Sec(dir, homes, 0) \subseteq closure
      BY <1>1, <1>2, <1>5, <1>9
    <3>2. \A n \in closure : Sec(dir, homes, n) \subseteq closure
      BY <1>1, <1>2, <1>3, <1>5, <1>9
    <3> QED
      BY <1>2, <3>1, <3>2
  <2> QED
    BY <1>10, <2>1 DEF IsToken
<1> DEFINE eh == [g \in closure |-> closure \cap parents[g]]
           fh == seeds \cap closure
<1>12. StaysIn(closure, fh, eh) /\ \A g \in closure : eh[g] = closure \cap parents[g]
  BY <1>2 DEF StaysIn
<1>13. closure = Reached(fh, eh)
  <2>1. IsDist(hops, closure, parents, seeds)
    BY <1>2, <1>8, DistIs
  <2> QED
    BY <1>3, <2>1 DEF IsDist
<1>14. fh \subseteq pg \cup R
  <2>1. Sec(dir, homes, 0) \subseteq R
    BY <1>10 DEF IsToken
  <2> QED
    BY <1>1, <1>2, <1>5, <1>8, <1>9, <2>1
<1> HIDE DEF eh, fh
<1>15. \A Y : fh \subseteq Y /\ (\A g \in closure \cap Y : eh[g] \subseteq Y) => closure \subseteq Y
  BY <1>12, <1>13, ReachedIs
<1>16. closure \subseteq pg \cup R
  <2> DEFINE Y == pg \cup R
  <2>1. \A g \in closure \cap Y : eh[g] \subseteq Y
    <3> SUFFICES ASSUME NEW g \in closure \cap Y PROVE eh[g] \subseteq R
      OBVIOUS
    <3>1. Sec(dir, homes, g) \subseteq R
      BY <1>10 DEF IsToken
    <3>2. g \in Group /\ g \in Node
      BY <1>1, <1>2
    <3> QED
      BY <1>2, <1>5, <1>9, <1>12, <3>1, <3>2
  <2> HIDE DEF Y
  <2> QED
    BY <1>14, <1>15, <2>1 DEF Y
<1> QED
  BY <1>2, <1>4, <1>6, <1>11, <1>16 DEF e

\* Distances depend on the edges within the set only.
LEMMA SameDist ==
    ASSUME NEW X \in SUBSET Group, NEW p, NEW q, NEW s, NEW t,
           s \cap X = t \cap X, \A g \in X : X \cap p[g] = X \cap q[g]
    PROVE  dist(X, p, s) = dist(X, q, t)
<1>1. [g \in X |-> X \cap p[g]] = [g \in X |-> X \cap q[g]]
  OBVIOUS
<1> QED
  BY <1>1 DEF dist

\* A membership shown directly if it is so, with a shortest route, and with every other way in.
ShowsEveryWay(d, claimed, m) ==
    LET real == [n \in Node |-> {g \in claimed : IsEdge(d, n, g)}]
        near == dist(claimed, real, real[0])
    IN  /\ m.direct = (m.group \in real[0])
        /\ Len(m.path) = near[m.group] + 1
        /\ {c \in claimed : m.group \in real[c]} = m.also
               \cup {c \in claimed : Len(m.path) > 2 /\ c = m.path[Len(m.path) - 1]}

\* Where every memberOf can be read, an answer without a gap shows a shortest route to each group
\* and every other way in.
LEMMA RoutesWithoutGaps ==
    ASSUME NEW conn, NoGaps(conn, dir), dir.mute = {},
           NEW claimed, claimed = ClosureOf(conn, Entry(conn, dir, 0), dir, 0),
           NEW m \in MembershipsOf(conn, Entry(conn, dir, 0), dir, 0), m.complete
    PROVE  ShowsEveryWay(dir, claimed, m)
<1> DEFINE e == Entry(conn, dir, 0)
           pg == PgOf(e, dir)
           closure == ClosureOf(conn, e, dir, 0)
           parents == ParentsOf(conn, dir)
           seeds == SeedsOf(e, dir)
           hops == HopsOf(conn, e, dir, 0)
           real == [n \in Node |-> {g \in claimed : IsEdge(dir, n, g)}]
           near == dist(claimed, real, real[0])
           kids(g) == {c \in closure : g \in parents[c]}
<1>1. IsDirectory(dir) /\ 0 \in Node /\ Group \subseteq Node /\ 0 \notin Group
  BY CasesAssumption DEF NoGaps, Group, Node
<1>2. pg = PrimaryOf(dir) /\ pg \subseteq closure /\ pg \subseteq DOMAIN hops /\ closure \subseteq Group
  BY ClosedWithoutGaps
<1>3. /\ e.direct = {g \in dir.memberOf[0] : dir.dom[g] = "home"}
      /\ \A n \in Group : parents[n] = {g \in dir.memberOf[n] : dir.dom[g] = "home"}
  <2>1. e.direct = sorted_member_of(conn, dir, 0) /\ conn.dom = "home" /\ ~ conn.gc
    BY <1>1, EntryIs DEF NoGaps
  <2>2. \A n : sorted_member_of(conn, dir, n) = {g \in dir.memberOf[n] : dir.dom[g] = "home"}
    BY <2>1 DEF sorted_member_of, Listed, Visible
  <2> HIDE DEF e
  <2> QED
    BY <2>1, <2>2 DEF ParentsOf
<1>4. \A g \in closure : dir.dom[g] = "home"
  <2>0. conn.dom = "home" /\ ~ conn.gc
    BY DEF NoGaps
  <2>1. \A g : InBase(conn, dir, g) => dir.dom[g] = "home"
    BY <2>0 DEF InBase, Visible
  <2>2. \A n : \A g \in search_transitive_groups(conn, dir, n) : dir.dom[g] = "home"
    BY <2>1 DEF search_transitive_groups
  <2>3. \A g \in pg : dir.dom[g] = "home"
    <3> HIDE DEF pg
    <3> QED
      BY <1>1, <1>2 DEF IsDirectory, NoGaps
  <2> QED
    BY <2>2, <2>3 DEF ClosureOf, AllOf, FoundBy
<1>5. hops = dist(closure, parents, seeds) /\ seeds = e.direct \cup pg /\ closure = claimed
  BY DEF HopsOf, SeedsOf
<1>6. \A g \in closure : KidsOf(conn, e, dir, 0, g) = kids(g)
  BY DEF KidsOf, children
<1>7. m \in {PrimaryShown(conn, e, dir, 0, g) : g \in pg} \cup {Shown(conn, e, dir, 0, g) : g \in closure \ pg}
  BY DEF MembershipsOf
<1> HIDE DEF e, pg, closure, parents, seeds, hops
<1>8. /\ real[0] = {g \in closure : g \in e.direct \/ g \in pg}
      /\ \A n \in closure : real[n] = closure \cap parents[n]
  BY <1>1, <1>2, <1>3, <1>4, <1>5 DEF IsEdge, PrimaryOf
<1> HIDE DEF real
<1>9. near = hops
  <2>1. real[0] \cap closure = seeds \cap closure /\ \A g \in closure : closure \cap real[g] = closure \cap parents[g]
    BY <1>5, <1>8
  <2> QED
    BY <1>2, <1>5, <2>1, SameDist
<1>10. IsDist(hops, closure, parents, seeds) /\ DOMAIN hops \subseteq closure
  BY <1>2, <1>5, DistIs, DistWithin
<1> HIDE DEF near
<1>11. \A g \in closure : {c \in closure : g \in real[c]} = kids(g)
  BY <1>8
<1> HIDE DEF kids
<1> SUFFICES /\ m.direct = (m.group \in real[0])
             /\ Len(m.path) = hops[m.group] + 1
             /\ m.group \in closure
             /\ kids(m.group) = m.also \cup {c \in closure : Len(m.path) > 2 /\ c = m.path[Len(m.path) - 1]}
  BY <1>5, <1>9, <1>11 DEF real, near, ShowsEveryWay
<1>12. ASSUME NEW g \in pg, m = PrimaryShown(conn, e, dir, 0, g)
       PROVE  /\ m.direct = (m.group \in real[0])
              /\ Len(m.path) = hops[m.group] + 1
              /\ m.group \in closure
              /\ kids(m.group) = m.also \cup {c \in closure : Len(m.path) > 2 /\ c = m.path[Len(m.path) - 1]}
  <2>1. m.direct = TRUE /\ m.group = g /\ m.path = <<0, g>> /\ m.also = KidsOf(conn, e, dir, 0, g)
    BY <1>12 DEF PrimaryShown, Membership
  <2>2. Len(m.path) = 2
    BY <2>1
  <2>3. hops[g] = 1 /\ g \in closure /\ g \in real[0]
    BY <1>2, <1>5, <1>8, <1>10 DEF IsDist
  <2>4. m.direct = (m.group \in real[0]) /\ Len(m.path) = hops[m.group] + 1 /\ m.group \in closure
    <3>1. m.direct = (m.group \in real[0])
      BY <2>1, <2>3
    <3>2. Len(m.path) = hops[m.group] + 1
      BY <2>1, <2>2, <2>3
    <3> QED
      BY <2>1, <2>3, <3>1, <3>2
  <2>5. m.also = kids(g) /\ {c \in closure : Len(m.path) > 2 /\ c = m.path[Len(m.path) - 1]} = {}
    BY <1>6, <2>1, <2>2, <2>3
  <2> QED
    BY <2>1, <2>4, <2>5
<1>13. ASSUME NEW g \in closure \ pg, m = Shown(conn, e, dir, 0, g)
       PROVE  /\ m.direct = (m.group \in real[0])
              /\ Len(m.path) = hops[m.group] + 1
              /\ m.group \in closure
              /\ kids(m.group) = m.also \cup {c \in closure : Len(m.path) > 2 /\ c = m.path[Len(m.path) - 1]}
  <2> DEFINE c == ChainOf(conn, e, dir, 0, g)
             path == <<0>> \o c
  <2>1. g \in DOMAIN hops /\ m = RoutedShown(conn, e, dir, 0, g)
    <3>1. UnroutedShown(conn, e, dir, 0, g).complete = FALSE
      BY DEF UnroutedShown, Membership
    <3> QED
      BY <1>13, <3>1 DEF Shown, hops
  <2>2. /\ m.direct = (g \in e.direct) /\ m.group = g /\ m.path = path
        /\ m.also = KidsOf(conn, e, dir, 0, g) \ HopOf(c)
    BY <2>1 DEF RoutedShown, Membership
  <2>3. /\ c \in Seq(DOMAIN hops) /\ Len(c) = hops[g] /\ c[Len(c)] = g
        /\ \A i \in 1 .. Len(c) - 1 : c[i + 1] \in parents[c[i]]
    <3>0. closure \in SUBSET Group /\ hops = dist(closure, parents, seeds)
      BY <1>2, <1>5
    <3>1. c = chain_to(closure, parents, hops, g)
      BY DEF ChainOf, closure, parents, hops
    <3>2. g \in DOMAIN dist(closure, parents, seeds)
      BY <2>1, <3>0
    <3> HIDE DEF c
    <3>3. IsChain(c, hops, parents, seeds, g)
      BY <3>0, <3>1, <3>2, ChainIs
    <3> QED
      BY <3>3 DEF IsChain
  <2>4. hops[g] \in Nat \ {0}
    BY <1>10, <2>1 DEF IsDist
  <2>5. Len(c) \in Nat \ {0} /\ \A i \in 1 .. Len(c) : c[i] \in closure
    BY <1>10, <2>3, <2>4
  <2> HIDE DEF c
  <2>6. c \in Seq(Group) /\ c # <<>>
    BY <1>2, <1>10, <2>3, <2>5
  <2>7. Len(path) = Len(c) + 1 /\ \A i \in 2 .. Len(path) : i - 1 \in 1 .. Len(c) /\ path[i] = c[i - 1]
    BY <1>1, <2>6, PathIs
  <2> HIDE DEF path
  <2>8. Len(c) > 1 => Len(path) - 1 \in 2 .. Len(path) /\ path[Len(path) - 1] = c[Len(c) - 1] /\ c[Len(c) - 1] \in kids(g)
    <3> SUFFICES ASSUME Len(c) > 1
                 PROVE  Len(path) - 1 \in 2 .. Len(path) /\ path[Len(path) - 1] = c[Len(c) - 1] /\ c[Len(c) - 1] \in kids(g)
      OBVIOUS
    <3>1. Len(path) - 1 \in 2 .. Len(path) /\ (Len(path) - 1) - 1 = Len(c) - 1 /\ Len(c) - 1 \in 1 .. Len(c) - 1
          /\ (Len(c) - 1) + 1 = Len(c) /\ Len(c) - 1 \in 1 .. Len(c)
      BY <2>5, <2>7
    <3>2. c[(Len(c) - 1) + 1] \in parents[c[Len(c) - 1]] /\ c[Len(c) - 1] \in closure
      BY <2>3, <2>5, <3>1
    <3>3. path[Len(path) - 1] = c[(Len(path) - 1) - 1]
      BY <2>7, <3>1
    <3> QED
      BY <2>3, <3>1, <3>2, <3>3 DEF kids
  <2>9. HopOf(c) = {x \in closure : Len(path) > 2 /\ x = path[Len(path) - 1]} /\ HopOf(c) \subseteq kids(g)
    <3>1. CASE Len(c) > 1
      BY <2>5, <2>7, <2>8, <3>1 DEF HopOf, kids
    <3>2. CASE ~ (Len(c) > 1)
      BY <2>5, <2>7, <3>2 DEF HopOf
    <3> QED
      BY <3>1, <3>2
  <2>10. (g \in e.direct) = (g \in real[0])
    BY <1>8
  <2>11. KidsOf(conn, e, dir, 0, g) = kids(g)
    BY <1>6
  <2> QED
    BY <2>2, <2>3, <2>7, <2>4, <2>9, <2>10, <2>11
<1> QED
  BY <1>7, <1>12, <1>13

----------------------------------------------------------------------------
(* The invariants of the resolution under construction, step by step.      *)

\* What an answer without a marker looks like.
Unmarked(r) == r.scope # "Error" /\ engine_flags(r) \subseteq {"DisabledStatusUnknown"}
LEMMA UnmarkedIs ==
    ASSUME NEW r, Unmarked(r)
    PROVE  /\ r.scope \notin {"Error", "LookupFailed", "OutsideConfiguredLdapBase", "Unresolvable", "OrphanedSid"}
           /\ r.groups \notin {"Failed", "SamFlat"} /\ r.gaps = {} /\ ~ r.fsp /\ ~ r.gc
<1> DEFINE F == engine_flags(r)
<1>1. \A f \in {"IdentityLookupFailed", "GroupResolutionFailed", "IdentityNotResolvable",
                "GroupResolutionIncomplete", "IdentityOrphaned",
                "DomainGroupRecursionIncomplete", "ResolvedViaFsp", "ViaGlobalCatalog"} : f \notin F
  BY DEF Unmarked
<1>2. /\ r.scope = "LookupFailed" => "IdentityLookupFailed" \in F
      /\ (r.groups = "Failed" \/ r.scope = "OutsideConfiguredLdapBase") => "GroupResolutionFailed" \in F
      /\ r.scope = "Unresolvable" => "IdentityNotResolvable" \in F
      /\ r.gaps # {} => "GroupResolutionIncomplete" \in F
      /\ r.scope = "OrphanedSid" => "IdentityOrphaned" \in F
      /\ r.groups = "SamFlat" => "DomainGroupRecursionIncomplete" \in F
      /\ r.fsp => "ResolvedViaFsp" \in F
      /\ r.gc => "ViaGlobalCatalog" \in F
  BY DEF engine_flags
<1> HIDE DEF F
<1> QED
  BY <1>1, <1>2 DEF Unmarked

\* What an answer has to show, and to hold for accounts of the configured domain and of the server.
ShowsOf(r, d, o) ==
    /\ r.groups \in {"LdapRecursive", "SamFlat", "LocalAccount", "NotAttempted", "Failed"}
    /\ r.scope \in Scopes \ {"Pending"}
    /\ r.trusted <=> r.scope = "ResolvedInTrustedDomain"
    /\ \A m \in r.memberships :
         \/ IsRoute(m, 0, d, o)
         \/ m.member = 0 /\ m.group \in {OrgNode, OtherOrgNode, LocalNode} /\ m.path = <<0, m.group>>
HomeAnswer(r) ==
    LET e == Entry(Configured, dir, 0)
        a == assemble_memberships(Configured, e, dir, 0)
    IN  /\ \A m \in r.memberships : IsRoute(m, 0, dir, old)
        /\ ~ env.gc /\ token_size_gap(r.memberships) = {}
        /\ dir.token => GroupsOf(r.memberships) = TokenOf(Configured, dir, 0)
        /\ dir = old => r.memberships = a.memberships /\ a.gaps = {} /\ e.primary # "Missing"
AnswerOf(r, stage) ==
    /\ stage = "target" => dir.dom[0] \notin {"home", "server"}
    /\ stage = "done" /\ Unmarked(r) =>
         /\ dir.dom[0] = "home" => HomeAnswer(r)
         /\ dir.dom[0] = "server" => GroupsOf(r.memberships) \cap Group = dir.memberOf[0] \cup PrimaryOf(dir)

\* The steps of the pipeline start from what it has so far.
Before == DirInv /\ UnderInv /\ MemberInv

\* A step that returns leaves the work alone.
LEMMA ReturnKeeps ==
    ASSUME Before, NEW r, NEW stage \in {"target", "done"}, Return(r, stage), ShowsOf(r, dir, old), AnswerOf(r, stage)
    PROVE  MemberInv'
<1>1. result' = r /\ pc' = stage /\ UNCHANGED <<env, dir, old, cached, work, check>>
  BY DEF Return
<1>2. Configured' = Configured /\ InTrusted' = InTrusted
  BY <1>1 DEF Configured, InTrusted
<1>3. WorkInv'
  BY <1>1, <1>2 DEF Before, MemberInv, WorkInv, EntryInv
<1>4. ReadInv'
  BY <1>1, <1>2 DEF ReadInv
<1>5. AnswerInv'
  <2>1. Whole' => stage = "done" /\ Unmarked(r)
    BY <1>1 DEF Whole, Unmarked
  <2>2. ClaimedGroups' = GroupsOf(r.memberships) \cap Group
    BY <1>1 DEF ClaimedGroups
  <2> QED
    BY <1>1, <1>2, <2>1, <2>2 DEF AnswerInv, AnswerOf, HomeAnswer
<1>6. ShownInv'
  <2>1. check \in {"None", "Allowed", "Denied", "Unknown"}
    BY DEF Before, MemberInv, ShownInv
  <2> QED
    BY <1>1, <2>1 DEF ShowsOf, ShownInv
<1> QED
  BY <1>3, <1>4, <1>5, <1>6 DEF MemberInv

\* An error, and every answer without groups, is marked.
LEMMA BareKeeps ==
    ASSUME Before, NEW s \in {"Error", "LookupFailed", "OutsideConfiguredLdapBase", "Unresolvable", "OrphanedSid"}, Bare(s)
    PROVE  MemberInv'
<1> DEFINE r == [Nothing EXCEPT !.scope = s]
<1>1. r.scope = s /\ r.groups = "NotAttempted" /\ r.trusted = FALSE /\ r.memberships = {}
  BY DEF Nothing
<1>2. Return(r, "done")
  BY DEF Bare
<1> HIDE DEF r
<1>3. ShowsOf(r, dir, old)
  BY <1>1 DEF ShowsOf, Scopes
<1>4. AnswerOf(r, "done")
  BY <1>1, UnmarkedIs DEF AnswerOf
<1> QED
  BY <1>2, <1>3, <1>4, ReturnKeeps

\* A step that goes on has said nothing.
LEMMA GotoKeeps ==
    ASSUME Before, UNCHANGED <<env, dir, old, result, check>>, pc' \in Under, WorkInv', ReadInv'
    PROVE  MemberInv'
<1>1. AnswerInv'
  BY DEF AnswerInv, Whole, Under
<1>2. ShownInv'
  BY DEF Before, MemberInv, ShownInv, Under
<1> QED
  BY <1>1, <1>2 DEF MemberInv

\* An account of the configured domain or of the server is never taken for one of a trusted domain.
LEMMA TrustedIsElsewhere ==
    ASSUME DirInv, NEW ok \in BOOLEAN, classify_unresolved_sid(Configured, env, dir.dom[0], ok).rel = "TrustedDomain"
    PROVE  dir.dom[0] \notin {"home", "server"}
<1>1. dir.dom[0] # "server" /\ classify_with(Configured, env, dir.dom[0]).rel = "TrustedDomain"
  BY DEF classify_unresolved_sid, Relation
<1>2. classify_against_trusts("home", env.trusts, "Forest").rel # "TrustedDomain"
  <2>1. \A t \in env.trusts : t.forest => t.sid # "home" /\ "home" \notin t.listed
    BY DEF DirInv, AreTrusts, Forest
  <2>2. {t \in {t \in env.trusts : t.forest} : "home" \in t.listed} = {}
    BY <2>1
  <2> DEFINE own == {t \in env.trusts : t.sid = "home"}
  <2>3. own # {} => ~ (CHOOSE t \in own : TRUE).forest
    BY <2>1
  <2> QED
    BY <2>2, <2>3 DEF classify_against_trusts, Relation
<1>3. SUFFICES ASSUME dir.dom[0] = "home" PROVE FALSE
  BY <1>1
<1> QED
  BY <1>1, <1>2, <1>3 DEF classify_with, Relation, Configured

\* A step that goes on with the work as it is.
LEMMA SameWorkKeeps ==
    ASSUME Before, NEW stage \in Under \ {"closure", "token", "crossing", "resource", "front"}, Goto(stage, work),
           stage \in {"lookup", "fsp serving"} => work.conn = Configured,
           stage = "fsp serving" => work.fsp = IsForeign(Configured, dir, 0),
           stage = "trusted account" => InTrusted,
           stage = "entry" => InTrusted \/ (work.conn = Configured /\ work.fsp = IsForeign(Configured, dir, 0))
    PROVE  MemberInv'
<1>1. UNCHANGED <<env, dir, old, result, check, work>> /\ pc' = stage
  BY DEF Goto
<1>2. Configured' = Configured /\ InTrusted' = InTrusted
  BY <1>1 DEF Configured, InTrusted
<1>3. WorkInv'
  BY <1>1, <1>2 DEF Before, MemberInv, WorkInv, EntryInv
<1>4. ReadInv'
  BY <1>1, <1>2 DEF ReadInv
<1> QED
  BY <1>1, <1>3, <1>4, GotoKeeps

\* The front ends with a directory.
LEMMA FrontLdapKeeps ==
    ASSUME Before, FrontLdap
    PROVE  MemberInv'
<1>1. pc = "front" /\ work.conn = Configured /\ work.fsp = FALSE
  BY DEF FrontLdap, Before, MemberInv, WorkInv
<1>2. "lookup" \in Under \ {"closure", "token", "crossing", "resource", "front"}
      /\ "entry" \in Under \ {"closure", "token", "crossing", "resource", "front"}
  BY DEF Under, Stages
<1>3. CASE Error
  BY <1>3, BareKeeps DEF Error, Bare
<1>4. CASE Goto("lookup", work)
  BY <1>1, <1>2, <1>4, SameWorkKeeps
<1>5. CASE Goto("entry", work) /\ FoundByName
  <2>1. IsForeign(Configured, dir, 0) = FALSE
    BY <1>5 DEF FoundByName, IsForeign
  <2> QED
    BY <1>1, <1>2, <1>5, <2>1, SameWorkKeeps
<1> QED
  BY <1>3, <1>4, <1>5 DEF FrontLdap, resolve_by_lsa_name, resolve_by_name

\* The search by SID.
LEMMA LookupKeeps ==
    ASSUME Before, LookupBySid
    PROVE  MemberInv'
<1>1. pc = "lookup" /\ work.conn = Configured /\ IsWork(work)
  BY DEF LookupBySid, Before, MemberInv, WorkInv
<1>2. CASE Bare("LookupFailed")
  BY <1>2, BareKeeps
<1>3. CASE Goto("lsa", work)
  <2>1. "lsa" \in Under \ {"closure", "token", "crossing", "resource", "front"}
    BY DEF Under, Stages
  <2> QED
    BY <1>3, <2>1, SameWorkKeeps
<1>4. CASE pc' = HitStage /\ work' = HitWork /\ UNCHANGED <<env, dir, old, result, check>>
  <2>1. /\ work'.fsp = IsForeign(Configured, dir, 0) /\ work'.conn = work.conn /\ work'.entry = work.entry
        /\ work'.relation = work.relation /\ work'.memberships = work.memberships /\ work'.out = work.out
        /\ IsWork(work') /\ pc' = IF IsForeign(Configured, dir, 0) THEN "fsp serving" ELSE "entry"
    BY <1>1, <1>4 DEF HitWork, HitStage, IsWork
  <2>2. Configured' = Configured /\ InTrusted' = InTrusted
    BY <1>4, <2>1 DEF Configured, InTrusted
  <2>3. WorkInv'
    BY <1>1, <1>4, <2>1, <2>2 DEF Before, MemberInv, WorkInv, EntryInv
  <2>4. ReadInv'
    BY <2>1, <2>2 DEF ReadInv
  <2>5. pc' \in Under
    BY <2>1 DEF Under, Stages
  <2> QED
    BY <1>4, <2>3, <2>4, <2>5, GotoKeeps
<1> QED
  BY <1>2, <1>3, <1>4 DEF LookupBySid, Goto

\* The LSA.
LEMMA LsaKeeps ==
    ASSUME Before, FallBackToLsa
    PROVE  MemberInv'
<1> DEFINE stage == IF LsaNames THEN "lsa serving" ELSE "classify"
<1>1. stage \in Under \ {"closure", "token", "crossing", "resource", "front"} /\ stage \in {"lsa serving", "classify"}
  BY DEF Under, Stages
<1>2. Goto(stage, work)
  BY DEF FallBackToLsa
<1> HIDE DEF stage
<1> QED
  BY <1>1, <1>2, SameWorkKeeps

\* The connection of a trusted domain is used for accounts of that domain only.
LEMMA ToTrustedKeeps ==
    ASSUME Before, NEW ok \in BOOLEAN, NEW relation,
           relation = classify_unresolved_sid(Configured, env, dir.dom[0], ok), relation.rel = "TrustedDomain",
           Goto("trusted account", [work EXCEPT !.relation = relation, !.conn = Trusted])
    PROVE  MemberInv'
<1>1. IsWork(work) /\ dir.dom[0] \notin {"home", "server"}
  BY TrustedIsElsewhere DEF Before, MemberInv, WorkInv
<1>2. UNCHANGED <<env, dir, old, result, check>> /\ pc' = "trusted account" /\ pc' \in Under
  BY DEF Goto, Under, Stages
<1>3. /\ work'.entry = work.entry /\ work'.relation = relation /\ work'.memberships = work.memberships
      /\ work'.out = work.out /\ IsWork(work')
  BY <1>1 DEF Goto, IsWork
<1>4. Configured' = Configured /\ InTrusted'
  BY <1>2, <1>3 DEF Configured, InTrusted
<1>5. WorkInv'
  BY <1>1, <1>2, <1>3, <1>4 DEF Before, MemberInv, WorkInv, EntryInv
<1>6. ReadInv'
  BY <1>4 DEF ReadInv
<1> QED
  BY <1>2, <1>5, <1>6, GotoKeeps

\* The serving connection, or the way without one.
LEMMA ServingKeeps ==
    ASSUME Before, ServingConnection
    PROVE  MemberInv'
<1>1. PICK ok \in BOOLEAN :
        LET relation == classify_unresolved_sid(Configured, env, dir.dom[0], ok)
        IN  IF relation.rel = "TrustedDomain" /\ env.serves = relation.domain
            THEN Goto("trusted account", [work EXCEPT !.relation = relation, !.conn = Trusted])
            ELSE IF pc = "fsp serving" THEN Goto("entry", work)
            ELSE Bare("OutsideConfiguredLdapBase")
  BY DEF ServingConnection
<1> DEFINE relation == classify_unresolved_sid(Configured, env, dir.dom[0], ok)
<1>2. CASE relation.rel = "TrustedDomain" /\ Goto("trusted account", [work EXCEPT !.relation = relation, !.conn = Trusted])
  <2> HIDE DEF relation
  <2> QED
    BY <1>2, ToTrustedKeeps DEF relation
<1>3. CASE pc = "fsp serving" /\ Goto("entry", work)
  <2>1. work.conn = Configured /\ work.fsp = IsForeign(Configured, dir, 0)
    BY <1>3 DEF Before, MemberInv, WorkInv
  <2>2. "entry" \in Under \ {"closure", "token", "crossing", "resource", "front"}
    BY DEF Under, Stages
  <2> QED
    BY <1>3, <2>1, <2>2, SameWorkKeeps
<1>4. CASE Bare("OutsideConfiguredLdapBase")
  BY <1>4, BareKeeps
<1> QED
  BY <1>1, <1>2, <1>3, <1>4

\* The domain of a SID nobody found.
LEMMA ClassifyKeeps ==
    ASSUME Before, ClassifyUnresolved
    PROVE  MemberInv'
<1>1. PICK ok \in BOOLEAN :
        LET relation == classify_unresolved_sid(Configured, env, dir.dom[0], ok)
        IN  IF relation.rel = "TrustedDomain" /\ env.serves = relation.domain
            THEN Goto("trusted account", [work EXCEPT !.relation = relation, !.conn = Trusted])
            ELSE Bare(IF unresolvable_reason(relation) THEN "Unresolvable" ELSE "OrphanedSid")
  BY DEF ClassifyUnresolved
<1> DEFINE relation == classify_unresolved_sid(Configured, env, dir.dom[0], ok)
           s == IF unresolvable_reason(relation) THEN "Unresolvable" ELSE "OrphanedSid"
<1>2. CASE relation.rel = "TrustedDomain" /\ Goto("trusted account", [work EXCEPT !.relation = relation, !.conn = Trusted])
  <2> HIDE DEF relation
  <2> QED
    BY <1>2, ToTrustedKeeps DEF relation
<1>3. CASE Bare(s)
  <2>1. s \in {"Error", "LookupFailed", "OutsideConfiguredLdapBase", "Unresolvable", "OrphanedSid"}
    OBVIOUS
  <2> HIDE DEF s
  <2> QED
    BY <1>3, <2>1, BareKeeps
<1> QED
  BY <1>1, <1>2, <1>3

\* A failed read is marked.
LEMMA FailedKeeps ==
    ASSUME Before, GroupsFailed
    PROVE  MemberInv'
<1> DEFINE r == [Nothing EXCEPT !.scope = "InsideConfiguredLdapBase", !.groups = "Failed",
                                !.disabled = IF work.fsp THEN "Unknown" ELSE "Known",
                                !.fsp = work.fsp, !.gc = env.gc]
<1>1. CASE Bare("Unresolvable")
  BY <1>1, BareKeeps
<1>2. CASE Return(r, "done")
  <2>1. r.scope = "InsideConfiguredLdapBase" /\ r.groups = "Failed" /\ r.trusted = FALSE /\ r.memberships = {}
    BY DEF Nothing
  <2> HIDE DEF r
  <2>2. ShowsOf(r, dir, old)
    BY <2>1 DEF ShowsOf, Scopes
  <2>3. AnswerOf(r, "done")
    BY <2>1, UnmarkedIs DEF AnswerOf
  <2> QED
    BY <1>2, <2>2, <2>3, ReturnKeeps
<1> QED
  BY <1>1, <1>2 DEF GroupsFailed

\* Groups that were read make the answer, or go on to the trust.
LEMMA GroupsReadKeeps ==
    ASSUME Before, NEW ms, NEW gaps, NEW ts, GroupsRead(ms, gaps, ts),
           pc \in {"entry", "token"},
           \A m \in ms : IsRoute(m, 0, dir, old),
           ~ InTrusted /\ ~ env.gc /\ gaps \cup ts = {} /\ dir.dom[0] = "home" =>
             LET e == Entry(Configured, dir, 0)
                 a == assemble_memberships(Configured, e, dir, 0)
             IN  /\ token_size_gap(ms) = {}
                 /\ dir.token => GroupsOf(ms) = TokenOf(Configured, dir, 0)
                 /\ dir = old => ms = a.memberships /\ a.gaps = {} /\ e.primary # "Missing"
    PROVE  MemberInv'
<1>1. CASE InTrusted
  <2> DEFINE w == [work EXCEPT !.memberships = ms, !.gaps = gaps, !.token_set = ts]
  <2>1. Goto("crossing", w) /\ IsWork(work)
    BY <1>1 DEF GroupsRead, Before, MemberInv, WorkInv
  <2>2. UNCHANGED <<env, dir, old, result, check>> /\ pc' = "crossing" /\ pc' \in Under
    BY <2>1 DEF Goto, Under, Stages
  <2>3. /\ work'.entry = work.entry /\ work'.relation = work.relation /\ work'.memberships = ms
        /\ work'.out = work.out /\ IsWork(work')
    BY <2>1 DEF Goto, IsWork
  <2>4. Configured' = Configured /\ InTrusted'
    BY <1>1, <2>2, <2>3 DEF Configured, InTrusted
  <2> HIDE DEF w
  <2>5. WorkInv'
    BY <1>1, <2>2, <2>3, <2>4 DEF Before, MemberInv, WorkInv, EntryInv
  <2>6. ReadInv'
    BY <2>4 DEF ReadInv
  <2> QED
    BY <2>2, <2>5, <2>6, GotoKeeps
<1>2. CASE ~ InTrusted
  <2> DEFINE r == [Nothing EXCEPT !.scope = "InsideConfiguredLdapBase", !.groups = "LdapRecursive",
                                !.memberships = ms, !.gaps = gaps \cup ts,
                                !.disabled = IF work.fsp THEN "Unknown" ELSE "Known",
                                !.fsp = work.fsp, !.gc = env.gc, !.history = env.history]
  <2>1. Return(r, "done")
    BY <1>2 DEF GroupsRead
  <2>2. /\ r.scope = "InsideConfiguredLdapBase" /\ r.groups = "LdapRecursive" /\ r.trusted = FALSE
        /\ r.memberships = ms /\ r.gaps = gaps \cup ts /\ r.fsp = work.fsp /\ r.gc = env.gc
    BY DEF Nothing
  <2>3. work.fsp = IsForeign(Configured, dir, 0)
    BY <1>2 DEF Before, MemberInv, WorkInv
  <2> HIDE DEF r
  <2>4. ShowsOf(r, dir, old)
    BY <2>2 DEF ShowsOf, Scopes
  <2>5. AnswerOf(r, "done")
    <3>1. SUFFICES ASSUME Unmarked(r)
                   PROVE  /\ dir.dom[0] = "home" => HomeAnswer(r)
                          /\ dir.dom[0] = "server" => GroupsOf(r.memberships) \cap Group = dir.memberOf[0] \cup PrimaryOf(dir)
      BY DEF AnswerOf
    <3>2. gaps \cup ts = {} /\ ~ env.gc /\ ~ work.fsp
      BY <2>2, <3>1, UnmarkedIs
    <3>3. dir.dom[0] # "server"
      BY <2>3, <3>2 DEF IsForeign, Forest, Configured
    <3>4. dir.dom[0] = "home" => HomeAnswer(r)
      BY <1>2, <2>2, <3>2 DEF HomeAnswer
    <3> QED
      BY <3>3, <3>4
  <2> QED
    BY <2>1, <2>4, <2>5, ReturnKeeps
<1> QED
  BY <1>1, <1>2

\* The account's own entry.
LEMMA EntryKeeps ==
    ASSUME Before, ReadEntry
    PROVE  MemberInv'
<1>1. IsWork(work) /\ IsDirectory(dir) /\ 0 \in Node /\ pc = "entry"
  <2>1. 0 \in Node
    BY CasesAssumption DEF Node
  <2> QED
    BY <2>1 DEF Before, MemberInv, WorkInv, DirInv, ReadEntry
<1>2. CASE GroupsFailed
  BY <1>2, FailedKeeps
<1>3. CASE GroupsRead({}, {"account not found by the group search"}, {})
  <2> DEFINE gaps == {"account not found by the group search"}
             none == {}
  <2>1. gaps \cup none # {} /\ GroupsRead(none, gaps, none) /\ \A m \in none : IsRoute(m, 0, dir, old)
    BY <1>3
  <2> HIDE DEF gaps, none
  <2> QED
    BY <1>1, <2>1, GroupsReadKeeps
<1>4. CASE Goto("closure", [work EXCEPT !.entry = Entry(work.conn, dir, 0)])
  <2> DEFINE e == Entry(work.conn, dir, 0)
  <2>1. UNCHANGED <<env, dir, old, result, check>> /\ pc' = "closure" /\ pc' \in Under
    BY <1>4 DEF Goto, Under, Stages
  <2>2. /\ work'.entry = e /\ work'.relation = work.relation /\ work'.memberships = work.memberships
        /\ work'.out = work.out /\ work'.conn = work.conn /\ work'.fsp = work.fsp /\ IsWork(work')
    BY <1>1, <1>4 DEF Goto, IsWork
  <2>3. Configured' = Configured /\ InTrusted' = InTrusted
    BY <2>1, <2>2 DEF Configured, InTrusted
  <2>4. IsEntry(e, dir, old, 0)
    BY <1>1, EntryIs
  <2>5. ~ InTrusted => e = Entry(Configured, dir, 0)
    BY <1>1 DEF Before, MemberInv, WorkInv
  <2> HIDE DEF e
  <2>6. WorkInv'
    BY <1>1, <2>1, <2>2, <2>3, <2>4 DEF Before, MemberInv, WorkInv, EntryInv, IsEntry
  <2>7. ReadInv'
    BY <2>1, <2>2, <2>3, <2>5 DEF ReadInv
  <2> QED
    BY <2>1, <2>6, <2>7, GotoKeeps
<1> QED
  BY <1>2, <1>3, <1>4 DEF ReadEntry

\* The closure.
LEMMA ClosureKeeps ==
    ASSUME Before, ReadClosure
    PROVE  MemberInv'
<1>1. IsWork(work) /\ IsDirectory(dir) /\ 0 \in Node /\ pc = "closure"
  <2>1. 0 \in Node
    BY CasesAssumption DEF Node
  <2> QED
    BY <2>1 DEF Before, MemberInv, WorkInv, DirInv, ReadClosure
<1>2. CASE GroupsFailed
  BY <1>2, FailedKeeps
<1> DEFINE a == assemble_memberships(work.conn, work.entry, dir, 0)
           gaps == (a.gaps \ {"groups outside the resolved set"})
                   \cup (IF work.entry.primary = "Missing" THEN {"primary group"} ELSE {})
                   \cup token_size_gap(a.memberships)
           ts == a.gaps \cap {"groups outside the resolved set"}
<1>3. CASE Goto("token", [work EXCEPT !.memberships = a.memberships, !.gaps = gaps, !.token_set = ts])
  <2>1. IsEntry(work.entry, dir, old, 0)
    BY DEF Before, MemberInv, WorkInv, EntryInv, IsEntry
  <2>2. \A m \in a.memberships : IsRoute(m, 0, dir, old)
    BY <1>1, <2>1, AssembledRoutes
  <2>3. /\ a.gaps \subseteq gaps \cup ts /\ token_size_gap(a.memberships) \subseteq gaps
        /\ work.entry.primary = "Missing" => gaps # {}
    OBVIOUS
  <2>4. ~ InTrusted /\ dir = old => work.entry = Entry(Configured, dir, 0)
    BY <1>1 DEF Before, MemberInv, ReadInv
  <2>5. ~ InTrusted => work.conn = Configured
    BY <1>1 DEF Before, MemberInv, WorkInv
  <2>6. ~ InTrusted /\ dir = old => a = assemble_memberships(Configured, Entry(Configured, dir, 0), dir, 0)
    BY <2>4, <2>5
  <2> HIDE DEF a, gaps, ts
  <2>7. UNCHANGED <<env, dir, old, result, check>> /\ pc' = "token" /\ pc' \in Under
    BY <1>3 DEF Goto, Under, Stages
  <2>8. /\ work'.entry = work.entry /\ work'.relation = work.relation /\ work'.memberships = a.memberships
        /\ work'.gaps = gaps /\ work'.token_set = ts
        /\ work'.out = work.out /\ work'.conn = work.conn /\ work'.fsp = work.fsp /\ IsWork(work')
    BY <1>1, <1>3 DEF Goto, IsWork
  <2>9. Configured' = Configured /\ InTrusted' = InTrusted
    BY <2>7, <2>8 DEF Configured, InTrusted
  <2>10. WorkInv'
    BY <1>1, <2>2, <2>7, <2>8, <2>9 DEF Before, MemberInv, WorkInv, EntryInv
  <2>11. ReadInv'
    BY <2>3, <2>4, <2>6, <2>7, <2>8, <2>9 DEF ReadInv
  <2> QED
    BY <2>7, <2>10, <2>11, GotoKeeps
<1> QED
  BY <1>2, <1>3 DEF ReadClosure

\* The comparison with the domain controller's list.
LEMMA CrossCheckKeeps ==
    ASSUME Before, CrossCheck
    PROVE  MemberInv'
<1> DEFINE e == Entry(Configured, dir, 0)
           a == assemble_memberships(Configured, e, dir, 0)
           ms == work.memberships
<1>1. pc = "token" /\ \A m \in ms : IsRoute(m, 0, dir, old)
  BY DEF Before, MemberInv, WorkInv, CrossCheck
<1>2. ~ InTrusted => /\ work.conn = Configured /\ token_size_gap(ms) \subseteq work.gaps
                     /\ dir = old => ms = a.memberships /\ a.gaps \subseteq work.gaps \cup work.token_set
                                     /\ (e.primary = "Missing" => work.gaps # {})
  BY <1>1 DEF Before, MemberInv, WorkInv, ReadInv
<1>3. CASE (work.conn.gc \/ ~ dir.token) /\ GroupsRead(ms, work.gaps, work.token_set)
  <2>1. ~ InTrusted => work.conn.gc = env.gc
    BY <1>2 DEF Configured
  <2> HIDE DEF e, a, ms
  <2> QED
    BY <1>1, <1>2, <1>3, <2>1, GroupsReadKeeps DEF e, a
<1>4. CASE GroupsRead(ms, work.gaps \cup {"tokenGroups not readable"}, work.token_set)
  <2> DEFINE gaps == work.gaps \cup {"tokenGroups not readable"}
  <2>1. gaps \cup work.token_set # {}
    OBVIOUS
  <2> HIDE DEF e, a, ms, gaps
  <2> QED
    BY <1>1, <1>4, <2>1, GroupsReadKeeps DEF gaps
<1>5. CASE GroupsRead(ms, work.gaps, work.token_set \cup token_groups_gaps(ms, TokenOf(work.conn, dir, 0)))
  <2> DEFINE token == TokenOf(work.conn, dir, 0)
             ts == work.token_set \cup token_groups_gaps(ms, token)
  <2>1. ts = {} => GroupsOf(ms) = token /\ work.token_set = {}
    <3>1. token_groups_gaps(ms, token) = {} => GroupsOf(ms) = token
      BY DEF token_groups_gaps
    <3> HIDE DEF token
    <3> QED
      BY <3>1
  <2>2. ~ InTrusted => token = TokenOf(Configured, dir, 0)
    BY <1>2
  <2>3. GroupsRead(ms, work.gaps, ts)
    BY <1>5
  <2> HIDE DEF e, a, ms, ts, token
  <2> QED
    BY <1>1, <1>2, <2>1, <2>2, <2>3, GroupsReadKeeps DEF e, a
<1> QED
  BY <1>3, <1>4, <1>5 DEF CrossCheck

\* The account on its own domain controller.
LEMMA TrustedAccountKeeps ==
    ASSUME Before, TrustedAccount
    PROVE  MemberInv'
<1>1. pc = "trusted account" /\ InTrusted
  BY DEF TrustedAccount, Before, MemberInv, WorkInv
<1>2. "entry" \in Under \ {"closure", "token", "crossing", "resource", "front"}
  BY DEF Under, Stages
<1>3. CASE Bare("Unresolvable")
  BY <1>3, BareKeeps
<1>4. CASE Goto("entry", work)
  BY <1>1, <1>2, <1>4, SameWorkKeeps
<1> QED
  BY <1>3, <1>4 DEF TrustedAccount

\* What a domain controller lists are groups.
LEMMA TokenIsGroups ==
    ASSUME NEW conn, NEW d, IsDirectory(d)
    PROVE  TokenOf(conn, d, 0) \subseteq Group
<1> DEFINE scope   == {g \in Group : /\ Forest(d.dom[g]) = Forest(conn.dom)
                                     /\ g \in d.local => d.dom[g] = conn.dom}
           primary == IF 0 = 0 /\ d.dom[0] = conn.dom THEN PrimaryOf(d) ELSE {}
<1>1. PrimaryOf(d) \subseteq Group /\ Group \subseteq Node /\ 0 \in Node
  BY CasesAssumption DEF PrimaryOf, IsDirectory, Group, Node
<1>2. primary \subseteq Group /\ {0} \cup primary \in SUBSET Node
  BY <1>1
<1>3. TokenOf(conn, d, 0) = primary \cup TokenFrom(d, {0} \cup primary, scope)
  BY DEF TokenOf
<1> HIDE DEF scope, primary
<1>4. IsToken(TokenFrom(d, {0} \cup primary, scope), d, {0} \cup primary, scope)
  BY <1>2, TokenFromIs
<1> QED
  BY <1>2, <1>3, <1>4 DEF IsToken

\* What crosses the trust.
LEMMA CrossingKeeps ==
    ASSUME Before, Crossing
    PROVE  MemberInv'
<1>1. pc = "crossing" /\ InTrusted /\ IsWork(work) /\ IsDirectory(dir)
  BY DEF Crossing, Before, MemberInv, WorkInv, DirInv
<1>2. CASE Bare("Unresolvable")
  BY <1>2, BareKeeps
<1> DEFINE t       == work.relation.trust
           sel     == select_cross_domain_memberships(work.memberships, GlobalAndUniversal(Trusted, dir))
           all     == sel.kept \cup {Membership(0, g, FALSE, <<>>, "DomainGroup", FALSE, {}) : g \in sel.without_chain}
           groups  == apply_sid_filtering(GroupsOf(all), dir.dom, t, dir.dom[0])
           former  == apply_sid_filtering(env.history, env.historyDom, t, dir.dom[0])
           kept    == {m \in all : m.group \in groups.kept}
           gaps    == work.gaps \cup (IF groups.not_modelled \cup former.not_modelled # {}
                                      THEN {"SID filtering not modelled"} ELSE {})
<1>3. CASE Goto("resource", [work EXCEPT !.memberships = kept, !.history = former.kept, !.gaps = gaps,
                                         !.filtered = groups.filtered, !.todo = {0} \cup groups.kept])
  <2>1. sel.kept \subseteq work.memberships /\ sel.without_chain \subseteq Group
    <3>1. GlobalAndUniversal(Trusted, dir) \subseteq Group
      BY <1>1, TokenIsGroups DEF GlobalAndUniversal
    <3> QED
      BY <3>1 DEF select_cross_domain_memberships
  <2>2. \A m \in work.memberships : IsRoute(m, 0, dir, old)
    BY DEF Before, MemberInv, WorkInv
  <2> HIDE DEF sel
  <2>3. \A g \in Group : IsRoute(Membership(0, g, FALSE, <<>>, "DomainGroup", FALSE, {}), 0, dir, old)
    BY DEF IsRoute, Membership
  <2>4. \A m \in all : IsRoute(m, 0, dir, old)
    BY <2>1, <2>2, <2>3
  <2> HIDE DEF all
  <2>5. groups.kept \subseteq GroupsOf(all)
    BY DEF apply_sid_filtering
  <2> HIDE DEF groups
  <2>6. groups.kept \subseteq GroupsOf(kept)
    BY <2>5 DEF GroupsOf
  <2>7. \A m \in kept : IsRoute(m, 0, dir, old)
    BY <2>4
  <2> HIDE DEF kept, gaps, former
  <2>8. UNCHANGED <<env, dir, old, result, check>> /\ pc' = "resource" /\ pc' \in Under
    BY <1>3 DEF Goto, Under, Stages
  <2>9. /\ work'.entry = work.entry /\ work'.relation = work.relation /\ work'.memberships = kept
        /\ work'.out = work.out /\ work'.todo = {0} \cup groups.kept /\ IsWork(work')
    BY <1>1, <1>3 DEF Goto, IsWork
  <2>10. Configured' = Configured /\ InTrusted'
    BY <1>1, <2>8, <2>9 DEF Configured, InTrusted
  <2>11. WorkInv'
    BY <1>1, <2>6, <2>7, <2>8, <2>9, <2>10 DEF Before, MemberInv, WorkInv, EntryInv
  <2>12. ReadInv'
    BY <2>10 DEF ReadInv
  <2> QED
    BY <2>8, <2>11, <2>12, GotoKeeps
<1> QED
  BY <1>2, <1>3 DEF Crossing

\* One sequence after the other.
LEMMA ConcatIs ==
    ASSUME NEW S, NEW s \in Seq(S), NEW u \in Seq(S)
    PROVE  /\ s \o u \in Seq(S) /\ Len(s \o u) = Len(s) + Len(u)
           /\ \A i \in 1 .. Len(s) + Len(u) : (s \o u)[i] = IF i <= Len(s) THEN s[i] ELSE u[i - Len(s)]
  OBVIOUS

\* Two routes, one to a group and one from it, are a route.
LEMMA ThroughIsRoute ==
    ASSUME NEW d, NEW o, NEW h, NEW r, NEW v \in Group, IsRoute(h, 0, d, o), h.group = v, IsRoute(r, v, d, o)
    PROVE  IsRoute(chain_through(h, r), 0, d, o)
<1> DEFINE both == h.path # <<>> /\ r.path # <<>>
           p == IF both THEN h.path \o Tail(r.path) ELSE <<>>
           x == chain_through(h, r)
           a == Len(h.path)
           b == Len(r.path)
<1>1. /\ h.path \in Seq(Node) /\ r.path \in Seq(Node) /\ r.group \in Group
      /\ r = Membership(v, r.group, r.direct, r.path, r.source, r.complete, r.also)
  BY DEF IsRoute
<1>2. /\ x.member = 0 /\ x.group = r.group /\ x.direct = FALSE /\ x.path = p /\ x.source = r.source
      /\ x.complete = (h.complete /\ r.complete) /\ x.also = r.also
      /\ x = Membership(0, x.group, x.direct, x.path, x.source, x.complete, x.also)
  <2> DEFINE cc == h.complete /\ r.complete
  <2>1. x = [r EXCEPT !.member = 0, !.direct = FALSE, !.path = p, !.complete = cc]
    BY DEF chain_through
  <2> HIDE DEF x, p, cc
  <2>2. /\ x.member = 0 /\ x.group = r.group /\ x.direct = FALSE /\ x.path = p /\ x.source = r.source
        /\ x.complete = cc /\ x.also = r.also
        /\ x = Membership(0, x.group, x.direct, x.path, x.source, x.complete, x.also)
    BY <1>1, <2>1 DEF Membership
  <2> QED
    BY <2>2 DEF cc
<1>3. CASE ~ both
  <2>1. p = <<>> /\ p \in Seq(Node)
    BY <1>3
  <2> HIDE DEF x, p
  <2> QED
    BY <1>1, <1>2, <2>1 DEF IsRoute, x
<1>4. CASE both
  <2>1. a \in Nat \ {0} /\ b \in Nat \ {0}
    BY <1>1, <1>4
  <2>2. /\ Tail(r.path) \in Seq(Node) /\ Len(Tail(r.path)) = b - 1
        /\ \A i \in 1 .. b - 1 : Tail(r.path)[i] = r.path[i + 1]
    BY <1>1, <1>4, <2>1
  <2> DEFINE q == Tail(r.path)
             hp == h.path
             rp == r.path
  <2>3. hp \in Seq(Node) /\ rp \in Seq(Node) /\ q \in Seq(Node) /\ Len(hp) = a /\ Len(q) = b - 1 /\ p = hp \o q
    BY <1>1, <1>4, <2>2
  <2>4. /\ hp[1] = 0 /\ hp[a] = v /\ rp[1] = v /\ rp[b] = r.group
    BY <1>4 DEF IsRoute
  <2>5. \A i \in 1 .. b - 1 : q[i] = rp[i + 1]
    BY <2>2
  <2>6. x.complete =>
          /\ \A i \in 1 .. a - 1 : IsEdge(d, hp[i], hp[i + 1]) \/ IsEdge(o, hp[i], hp[i + 1])
          /\ \A i \in 2 .. a : hp[i] \in d.security \cup d.untyped \cup PrimaryOf(d)
          /\ \A i \in 1 .. b - 1 : IsEdge(d, rp[i], rp[i + 1]) \/ IsEdge(o, rp[i], rp[i + 1])
          /\ \A i \in 2 .. b : rp[i] \in d.security \cup d.untyped \cup PrimaryOf(d)
    <3> HIDE DEF x
    <3> QED
      BY <1>2, <1>4 DEF IsRoute
  <2> HIDE DEF x, p, q, hp, rp, a, b
  <2>7. /\ p \in Seq(Node) /\ Len(p) = a + (b - 1)
        /\ \A i \in 1 .. a : p[i] = hp[i]
        /\ \A i \in 1 .. b - 1 : p[a + i] = q[i]
    <3>1. /\ hp \o q \in Seq(Node) /\ Len(hp \o q) = Len(hp) + Len(q)
          /\ \A i \in 1 .. Len(hp) + Len(q) : (hp \o q)[i] = IF i <= Len(hp) THEN hp[i] ELSE q[i - Len(hp)]
      <4>1. hp \in Seq(Node) /\ q \in Seq(Node)
        BY <2>3
      <4> QED
        BY <4>1, ConcatIs
    <3>2. p \in Seq(Node) /\ Len(p) = a + (b - 1)
          /\ \A i \in 1 .. a + (b - 1) : p[i] = IF i <= a THEN hp[i] ELSE q[i - a]
      BY <2>3, <3>1
    <3>3. \A i \in 1 .. a : i \in 1 .. a + (b - 1) /\ i <= a
      BY <2>1
    <3>4. \A i \in 1 .. b - 1 : a + i \in 1 .. a + (b - 1) /\ ~ (a + i <= a) /\ (a + i) - a = i
      BY <2>1
    <3> QED
      BY <3>2, <3>3, <3>4
  <2>8. \A i \in 1 .. b : a + i - 1 \in 1 .. Len(p) /\ p[a + i - 1] = rp[i]
    <3> SUFFICES ASSUME NEW i \in 1 .. b PROVE a + i - 1 \in 1 .. Len(p) /\ p[a + i - 1] = rp[i]
      OBVIOUS
    <3>1. CASE i = 1
      <4>1. a + i - 1 = a /\ a \in 1 .. a /\ a \in 1 .. Len(p)
        BY <2>1, <2>7, <3>1
      <4> QED
        BY <2>4, <2>7, <3>1, <4>1
    <3>2. CASE i # 1
      <4>1. i - 1 \in 1 .. b - 1 /\ a + (i - 1) = a + i - 1 /\ (i - 1) + 1 = i /\ a + i - 1 \in 1 .. Len(p)
        BY <2>1, <2>7, <3>2
      <4>2. p[a + (i - 1)] = q[i - 1] /\ q[i - 1] = rp[(i - 1) + 1]
        BY <2>5, <2>7, <4>1
      <4> QED
        BY <4>1, <4>2
    <3> QED
      BY <3>1, <3>2
  <2>9. p # <<>> /\ p[1] = 0 /\ p[Len(p)] = r.group
    <3>1. 1 \in 1 .. a /\ b \in 1 .. b /\ a + b - 1 = Len(p) /\ Len(p) \in Nat \ {0}
      BY <2>1, <2>7
    <3>2. p[1] = hp[1] /\ p[a + b - 1] = rp[b]
      BY <2>7, <2>8, <3>1
    <3>3. p # <<>>
      BY <3>1
    <3> QED
      BY <2>4, <3>1, <3>2, <3>3
  <2>10. ASSUME x.complete, NEW i \in 1 .. Len(p) - 1 PROVE IsEdge(d, p[i], p[i + 1]) \/ IsEdge(o, p[i], p[i + 1])
    <3>1. CASE i <= a - 1
      <4>1. i \in 1 .. a - 1 /\ i \in 1 .. a /\ i + 1 \in 1 .. a
        BY <2>1, <3>1
      <4> QED
        BY <2>6, <2>7, <2>10, <4>1
    <3>2. CASE ~ (i <= a - 1)
      <4> DEFINE j == i - a + 1
      <4>1. j \in 1 .. b - 1 /\ j \in 1 .. b /\ j + 1 \in 1 .. b /\ a + j - 1 = i /\ a + (j + 1) - 1 = i + 1
        BY <2>1, <2>7, <3>2
      <4> HIDE DEF j
      <4>2. p[i] = rp[j] /\ p[i + 1] = rp[j + 1]
        BY <2>8, <4>1
      <4> QED
        BY <2>6, <2>10, <4>1, <4>2
    <3> QED
      BY <3>1, <3>2
  <2>11. ASSUME x.complete, NEW i \in 2 .. Len(p) PROVE p[i] \in d.security \cup d.untyped \cup PrimaryOf(d)
    <3>1. CASE i <= a
      <4>1. i \in 2 .. a /\ i \in 1 .. a
        BY <2>1, <3>1
      <4> QED
        BY <2>6, <2>7, <2>11, <4>1
    <3>2. CASE ~ (i <= a)
      <4> DEFINE j == i - a + 1
      <4>1. j \in 2 .. b /\ j \in 1 .. b /\ a + j - 1 = i
        BY <2>1, <2>7, <3>2
      <4> HIDE DEF j
      <4>2. p[i] = rp[j]
        BY <2>8, <4>1
      <4> QED
        BY <2>6, <2>11, <4>1, <4>2
    <3> QED
      BY <3>1, <3>2
  <2>12. x.direct = FALSE /\ x.path = p /\ x.group = r.group
    BY <1>2
  <2> QED
    BY <1>1, <1>2, <2>7, <2>9, <2>10, <2>11, <2>12 DEF IsRoute, x
<1> QED
  BY <1>3, <1>4

\* The groups of a crossing SID in the configured domain.
LEMMA ResourceKeeps ==
    ASSUME Before, ResourceGroups
    PROVE  MemberInv'
<1> DEFINE via  == Min(work.todo)
           e    == Entry(Configured, dir, via)
           a    == assemble_memberships(Configured, e, dir, via)
           home == {m \in work.memberships : m.group = via}
           gaps == a.gaps \cup token_size_gap(a.memberships)
                   \cup (IF dir.token /\ ~ env.gc
                         THEN token_groups_gaps(a.memberships, TokenOf(Configured, dir, via)) ELSE {})
           more == IF via = 0 THEN a.memberships
                   ELSE {chain_through(CHOOSE m \in home : TRUE, r) : r \in a.memberships}
<1>1. pc = "resource" /\ work.todo # {} /\ InTrusted /\ IsWork(work) /\ IsDirectory(dir)
  BY DEF ResourceGroups, Before, MemberInv, WorkInv, DirInv
<1>2. /\ work.todo \subseteq {0} \cup GroupsOf(work.memberships)
      /\ \A m \in work.memberships \cup work.out : IsRoute(m, 0, dir, old)
  BY <1>1 DEF Before, MemberInv, WorkInv
<1>3. Group \subseteq Node /\ 0 \in Node /\ Node \subseteq Nat
  BY CasesAssumption DEF Group, Node
<1>4. work.todo \subseteq {0} \cup Group /\ work.todo \subseteq Nat
  <2>1. \A m \in work.memberships : m.group \in Group
    BY <1>2 DEF IsRoute
  <2> QED
    BY <1>2, <1>3, <2>1 DEF GroupsOf
<1>5. via \in work.todo
  <2>1. \E x \in work.todo : \A y \in work.todo : x <= y
    BY <1>1, <1>4, SmallestOf
  <2> QED
    BY <2>1 DEF Min
<1> HIDE DEF via
<1>6. via \in Node /\ (via # 0 => via \in Group /\ home # {})
  BY <1>2, <1>3, <1>4, <1>5 DEF GroupsOf
<1>7. IsEntry(e, dir, old, via)
  BY <1>1, <1>6, EntryIs
<1> HIDE DEF e
<1>8. \A m \in a.memberships : IsRoute(m, via, dir, old)
  BY <1>1, <1>6, <1>7, AssembledRoutes
<1>9. \A m \in more : IsRoute(m, 0, dir, old)
  <2> HIDE DEF a
  <2>1. CASE via = 0
    BY <1>8, <2>1
  <2>2. CASE via # 0
    <3> DEFINE h == CHOOSE m \in home : TRUE
    <3>1. h \in home
      BY <1>6, <2>2
    <3>2. IsRoute(h, 0, dir, old) /\ h.group = via
      BY <1>2, <3>1
    <3>3. more = {chain_through(h, r) : r \in a.memberships}
      BY <2>2
    <3> HIDE DEF h, more
    <3>4. \A r \in a.memberships : IsRoute(chain_through(h, r), 0, dir, old)
      BY <1>6, <1>8, <2>2, <3>2, ThroughIsRoute
    <3> QED
      BY <3>3, <3>4
  <2> QED
    BY <2>1, <2>2
<1> HIDE DEF gaps, more
<1>10. CASE Bare("Unresolvable")
  BY <1>10, BareKeeps
<1>11. ASSUME NEW g, NEW o, \A m \in o : IsRoute(m, 0, dir, old),
              Goto("resource", [work EXCEPT !.todo = @ \ {via}, !.gaps = g, !.out = o])
       PROVE  MemberInv'
  <2>1. UNCHANGED <<env, dir, old, result, check>> /\ pc' = "resource" /\ pc' \in Under
    BY <1>11 DEF Goto, Under, Stages
  <2>2. /\ work'.entry = work.entry /\ work'.relation = work.relation /\ work'.memberships = work.memberships
        /\ work'.out = o /\ work'.todo = work.todo \ {via} /\ IsWork(work')
    BY <1>1, <1>11 DEF Goto, IsWork
  <2>3. Configured' = Configured /\ InTrusted'
    BY <1>1, <2>1, <2>2 DEF Configured, InTrusted
  <2>4. WorkInv'
    BY <1>1, <1>2, <1>11, <2>1, <2>2, <2>3 DEF Before, MemberInv, WorkInv, EntryInv
  <2>5. ReadInv'
    BY <2>3 DEF ReadInv
  <2> QED
    BY <2>1, <2>4, <2>5, GotoKeeps
<1>12. CASE Goto("resource", [work EXCEPT !.todo = @ \ {via}])
  <2>1. [work EXCEPT !.todo = @ \ {via}] = [work EXCEPT !.todo = @ \ {via}, !.gaps = work.gaps, !.out = work.out]
    BY <1>1 DEF IsWork
  <2> QED
    BY <1>2, <1>11, <1>12, <2>1
<1>13. CASE Goto("resource", [work EXCEPT !.todo = @ \ {via}, !.gaps = @ \cup gaps, !.out = @ \cup more])
  <2> DEFINE g == work.gaps \cup gaps
             o == work.out \cup more
  <2>1. Goto("resource", [work EXCEPT !.todo = @ \ {via}, !.gaps = g, !.out = o]) /\ \A m \in o : IsRoute(m, 0, dir, old)
    BY <1>2, <1>9, <1>13
  <2> HIDE DEF g, o
  <2> QED
    BY <1>11, <2>1
<1> QED
  BY <1>10, <1>12, <1>13 DEF ResourceGroups, via, e, gaps, more

\* The answer for an account of a trusted domain.
LEMMA TrustedResultKeeps ==
    ASSUME Before, TrustedResult
    PROVE  MemberInv'
<1> DEFINE t   == work.relation.trust
           org == IF t.selective THEN OtherOrgNode ELSE OrgNode
           own == Membership(0, org, TRUE, <<0, org>>, "TrustedDomainLogon", TRUE, {})
           stage == IF t.selective THEN "target" ELSE "done"
           r == [Nothing EXCEPT
             !.scope = "ResolvedInTrustedDomain", !.groups = "LdapRecursive", !.disabled = "Known",
             !.memberships = work.memberships \cup work.out
                             \cup {Membership(0, org, TRUE, <<0, org>>, "TrustedDomainLogon", TRUE, {})},
             !.gaps = work.gaps, !.trusted = TRUE, !.history = work.history, !.filtered = work.filtered]
<1>1. Return(r, stage) /\ stage \in {"target", "done"} /\ org \in {OrgNode, OtherOrgNode}
  BY DEF TrustedResult
<1>2. dir.dom[0] \notin {"home", "server"} /\ \A m \in work.memberships \cup work.out : IsRoute(m, 0, dir, old)
  BY DEF TrustedResult, Before, MemberInv, WorkInv
<1>3. own.member = 0 /\ own.group = org /\ own.path = <<0, own.group>>
  BY DEF Membership
<1>4. /\ r.scope = "ResolvedInTrustedDomain" /\ r.groups = "LdapRecursive" /\ r.trusted = TRUE
      /\ r.memberships = work.memberships \cup work.out \cup {own}
  BY DEF Nothing
<1> HIDE DEF r, own, stage, org
<1>5. ShowsOf(r, dir, old)
  BY <1>1, <1>2, <1>3, <1>4 DEF ShowsOf, Scopes
<1>6. AnswerOf(r, stage)
  BY <1>2 DEF AnswerOf
<1> QED
  BY <1>1, <1>5, <1>6, ReturnKeeps

\* The check of the target changes neither the answer nor what it says of it.
LEMMA CheckTargetKeeps ==
    ASSUME Before, CheckTarget
    PROVE  MemberInv'
<1>1. pc = "target" /\ pc' = "done" /\ UNCHANGED <<env, dir, old, work, result>> /\ dir.dom[0] \notin {"home", "server"}
  BY DEF CheckTarget, Before, MemberInv, AnswerInv
<1>2. check' \in {"None", "Allowed", "Denied", "Unknown"}
  <2>1. \A aces, token : first_decision(aces, token) \in {"Allowed", "Denied"}
    BY DEF first_decision
  <2>2. \A sd, certain : allowed_to_authenticate(sd, certain) \in {"Allowed", "Denied", "Unknown"}
    BY <2>1 DEF allowed_to_authenticate
  <2> QED
    BY <2>2 DEF CheckTarget
<1>3. Configured' = Configured /\ InTrusted' = InTrusted
  BY <1>1 DEF Configured, InTrusted
<1>4. WorkInv'
  BY <1>1, <1>3 DEF Before, MemberInv, WorkInv, EntryInv
<1>5. ReadInv'
  BY <1>1, <1>3 DEF ReadInv
<1>6. AnswerInv'
  BY <1>1 DEF AnswerInv
<1>7. ShownInv'
  BY <1>1, <1>2 DEF Before, MemberInv, ShownInv
<1> QED
  BY <1>4, <1>5, <1>6, <1>7 DEF MemberInv

\* A direct membership, shown as one.
LEMMA DirectIsRoute ==
    ASSUME NEW d, NEW o, NEW g \in Group, IsEdge(d, 0, g), g \in d.security \cup d.untyped \cup PrimaryOf(d),
           NEW source, NEW also
    PROVE  IsRoute(Membership(0, g, TRUE, <<0, g>>, source, TRUE, also), 0, d, o)
<1> DEFINE path == <<0, g>>
<1>1. 0 \in Node /\ g \in Node
  BY CasesAssumption DEF Group, Node
<1>2. path \in Seq(Node) /\ path # <<>> /\ Len(path) = 2 /\ path[1] = 0 /\ path[2] = g
  BY <1>1
<1> HIDE DEF path
<1>3. \A i \in 1 .. 2 - 1 : IsEdge(d, path[i], path[i + 1])
  BY <1>2
<1>4. \A i \in 2 .. 2 : path[i] \in d.security \cup d.untyped \cup PrimaryOf(d)
  BY <1>2
<1> QED
  BY <1>2, <1>3, <1>4 DEF IsRoute, Membership, path

\* The server names the groups of its own account.
LEMMA FrontServerKeeps ==
    ASSUME Before, FrontServer
    PROVE  MemberInv'
<1>1. /\ pc = "front" /\ work.conn = Configured /\ IsDirectory(dir) /\ 0 \in Node
      /\ dir.dom[0] = "server" => dir.memberOf[0] \subseteq dir.security
  <2>1. 0 \in Node
    BY CasesAssumption DEF Node
  <2> QED
    BY <2>1 DEF FrontServer, Before, MemberInv, WorkInv, DirInv
<1>2. dir.memberOf[0] \subseteq Group /\ PrimaryOf(dir) \subseteq Group
  BY <1>1, CasesAssumption DEF IsDirectory, PrimaryOf, Group, Node
<1>3. CASE Error
  BY <1>3, BareKeeps DEF Error, Bare
<1>4. CASE Goto("sam", work)
  <2>1. "sam" \in Under \ {"closure", "token", "crossing", "resource", "front"}
    BY DEF Under, Stages
  <2> QED
    BY <1>4, <2>1, SameWorkKeeps
<1>5. ASSUME dir.dom[0] = "server", NEW info \in BOOLEAN, NEW listed \in SUBSET dir.memberOf[0], NEW primaryRead \in BOOLEAN,
             Return(local_account_principal(info, listed, primaryRead), "done")
      PROVE  MemberInv'
  <2> DEFINE primary == IF info THEN PrimaryOf(dir) ELSE {}
             groups  == listed \cup (IF primaryRead THEN primary ELSE {})
             Kind(g) == IF g \in primary THEN "PrimaryGroup" ELSE "DomainGroup"
             One(g)  == Membership(0, g, TRUE, <<0, g>>, Kind(g), TRUE, {})
             own     == Membership(0, LocalNode, TRUE, <<0, LocalNode>>, "AccountType", TRUE, {})
             r       == local_account_principal(info, listed, primaryRead)
  <2>1. /\ r.scope = "InsideConfiguredLdapBase" /\ r.groups = "LocalAccount" /\ r.trusted = FALSE
        /\ r.memberships = {One(g) : g \in groups} \cup {own}
        /\ r.gaps = (IF info THEN {} ELSE {"account not readable"})
                    \cup (IF listed # dir.memberOf[0] THEN {"a group of the account"} ELSE {})
                    \cup (IF primary \ groups # {} THEN {"primary group"} ELSE {})
    BY DEF local_account_principal, Nothing
  <2>2. own.member = 0 /\ own.group = LocalNode /\ own.path = <<0, own.group>> /\ LocalNode \notin Group
    BY CasesAssumption DEF Membership, LocalNode, Group
  <2>3. r.gaps = {} => info /\ listed = dir.memberOf[0] /\ primary \ groups = {}
    <3> HIDE DEF r, primary, groups
    <3> QED
      BY <2>1
  <2>4. primary \subseteq PrimaryOf(dir) /\ groups \subseteq dir.memberOf[0] \cup PrimaryOf(dir) /\ listed \subseteq groups
    OBVIOUS
  <2>5. r.gaps = {} => groups = dir.memberOf[0] \cup PrimaryOf(dir)
    BY <2>3, <2>4
  <2> HIDE DEF r, own, groups, Kind
  <2>6. \A g \in groups : IsRoute(One(g), 0, dir, old) /\ One(g).group = g
    <3> SUFFICES ASSUME NEW g \in groups PROVE IsRoute(One(g), 0, dir, old) /\ One(g).group = g
      OBVIOUS
    <3>1. g \in Group /\ IsEdge(dir, 0, g) /\ g \in dir.security \cup dir.untyped \cup PrimaryOf(dir)
      BY <1>1, <1>2, <1>5, <2>4 DEF IsEdge, PrimaryOf
    <3>2. One(g).group = g
      BY DEF Membership
    <3> QED
      BY <3>1, <3>2, DirectIsRoute
  <2> HIDE DEF One
  <2>7. ShowsOf(r, dir, old)
    <3>1. \A m \in r.memberships :
            \/ IsRoute(m, 0, dir, old)
            \/ m.member = 0 /\ m.group \in {OrgNode, OtherOrgNode, LocalNode} /\ m.path = <<0, m.group>>
      <4> SUFFICES ASSUME NEW m \in r.memberships, ~ IsRoute(m, 0, dir, old)
                   PROVE  m.member = 0 /\ m.group \in {OrgNode, OtherOrgNode, LocalNode} /\ m.path = <<0, m.group>>
        OBVIOUS
      <4>1. m = own
        <5>1. r.memberships = {One(g) : g \in groups} \cup {own}
          BY <2>1
        <5>2. m = own \/ \E g \in groups : m = One(g)
          BY <5>1
        <5> QED
          BY <2>6, <5>2
      <4> QED
        BY <2>2, <4>1
    <3>2. /\ r.groups \in {"LdapRecursive", "SamFlat", "LocalAccount", "NotAttempted", "Failed"}
          /\ r.scope \in Scopes \ {"Pending"} /\ (r.trusted <=> r.scope = "ResolvedInTrustedDomain")
      BY <2>1 DEF Scopes
    <3> QED
      BY <3>1, <3>2 DEF ShowsOf
  <2>8. GroupsOf(r.memberships) = groups \cup {LocalNode}
    <3>1. GroupsOf({One(g) : g \in groups} \cup {own}) = {One(g).group : g \in groups} \cup {own.group}
      BY DEF GroupsOf
    <3>2. {One(g).group : g \in groups} = groups
      BY <2>6
    <3> QED
      BY <2>1, <2>2, <3>1, <3>2
  <2>9. Unmarked(r) => r.gaps = {}
    BY UnmarkedIs
  <2>10. AnswerOf(r, "done")
    BY <1>2, <1>5, <2>2, <2>5, <2>8, <2>9 DEF AnswerOf
  <2> QED
    BY <1>5, <2>7, <2>10, ReturnKeeps DEF r
<1> QED
  BY <1>3, <1>4, <1>5 DEF FrontServer, resolve_account_on_server

\* The flat list of the SAM is marked as one.
LEMMA SamKeeps ==
    ASSUME Before, ResolveViaSam
    PROVE  MemberInv'
<1>1. IsDirectory(dir) /\ 0 \in Node /\ dir.memberOf[0] \subseteq Group
  <2>1. 0 \in Node
    BY CasesAssumption DEF Node
  <2> QED
    BY <2>1 DEF Before, DirInv, IsDirectory
<1>2. ASSUME NEW r, Return(r, "done"), r.scope = "InsideConfiguredLdapBase", r.groups = "SamFlat", r.trusted = FALSE,
             \A m \in r.memberships : IsRoute(m, 0, dir, old)
      PROVE  MemberInv'
  <2>1. ShowsOf(r, dir, old)
    BY <1>2 DEF ShowsOf, Scopes
  <2>2. AnswerOf(r, "done")
    BY <1>2, UnmarkedIs DEF AnswerOf
  <2> QED
    BY <1>2, <2>1, <2>2, ReturnKeeps
<1>3. CASE Error
  BY <1>3, BareKeeps DEF Error, Bare
<1>4. CASE sam_resolve_fallback
  <2> DEFINE r == [Nothing EXCEPT !.scope = "InsideConfiguredLdapBase", !.groups = "SamFlat",
                                                !.gaps = {"SAM resolution failed"}]
  <2>1. r.scope = "InsideConfiguredLdapBase" /\ r.groups = "SamFlat" /\ r.trusted = FALSE /\ r.memberships = {}
    BY DEF Nothing
  <2>2. Return(r, "done")
    BY <1>4 DEF sam_resolve_fallback
  <2> HIDE DEF r
  <2> QED
    BY <1>2, <2>1, <2>2
<1>5. CASE resolve_identity_via_sam
  <2> DEFINE direct == {g \in dir.memberOf[0] \cap dir.security : dir.dom[g] = "home" /\ g \notin dir.local}
             One(g) == Membership(0, g, TRUE, <<0, g>>, "DomainGroup", TRUE, {})
             R(listed, known) == [Nothing EXCEPT
                !.scope = "InsideConfiguredLdapBase", !.groups = "SamFlat", !.disabled = known,
                !.memberships = {Membership(0, g, TRUE, <<0, g>>, "DomainGroup", TRUE, {}) : g \in listed},
                !.gaps = IF listed # direct THEN {"a group of the account"} ELSE {}]
  <2>1. PICK listed \in SUBSET direct, known \in {"Known", "Unknown"} : Return(R(listed, known), "done")
    BY <1>5 DEF resolve_identity_via_sam
  <2> DEFINE r == R(listed, known)
  <2>2. r.scope = "InsideConfiguredLdapBase" /\ r.groups = "SamFlat" /\ r.trusted = FALSE /\ r.memberships = {One(g) : g \in listed}
    BY DEF Nothing
  <2>3. Return(r, "done")
    BY <2>1
  <2> HIDE DEF r, R
  <2>4. \A g \in listed : IsRoute(One(g), 0, dir, old)
    <3> SUFFICES ASSUME NEW g \in listed PROVE IsRoute(One(g), 0, dir, old)
      OBVIOUS
    <3>1. g \in Group /\ IsEdge(dir, 0, g) /\ g \in dir.security \cup dir.untyped \cup PrimaryOf(dir)
      BY <1>1 DEF IsEdge
    <3> QED
      BY <3>1, DirectIsRoute
  <2> HIDE DEF One
  <2> QED
    BY <1>2, <2>2, <2>3, <2>4
<1> QED
  BY <1>3, <1>4, <1>5 DEF ResolveViaSam

\* A change of the directory takes no edge from both its states, and no group its type.
LEMMA ChangesKeep ==
    ASSUME Before, DirectoryChanges
    PROVE  MemberInv'
<1>1. /\ dir = old /\ old' = old /\ env' = env /\ pc' = pc /\ work' = work
      /\ result' = result /\ check' = check /\ pc \notin {"front", "target", "done"}
      /\ IsDirectory(dir') /\ SameBut(dir', old) /\ dir'.dom = dir.dom /\ IsDirectory(old)
  BY ChangeKeeps DEF Before, DirInv
<1>2. dir'.security = dir.security /\ dir'.untyped = dir.untyped /\ dir'.primary = dir.primary
  BY <1>1 DEF SameBut, IsDirectory
<1>3. PrimaryOf(dir') = PrimaryOf(dir)
  BY <1>2 DEF PrimaryOf
<1>4. \A m : IsRoute(m, 0, dir, old) => IsRoute(m, 0, dir', old)
  BY <1>1, <1>2, <1>3 DEF IsRoute
<1>5. Configured' = Configured /\ InTrusted' = InTrusted /\ IsForeign(Configured, dir', 0) = IsForeign(Configured, dir, 0)
  BY <1>1 DEF Configured, InTrusted, IsForeign
<1>6. WorkInv'
  BY <1>1, <1>2, <1>4, <1>5 DEF Before, MemberInv, WorkInv, EntryInv
<1>7. ReadInv'
  BY <1>1, <1>5 DEF Before, MemberInv, ReadInv
<1>8. pc \in Under /\ result = Nothing
  BY <1>1 DEF Before, UnderInv, Under
<1>9. AnswerInv'
  BY <1>1 DEF AnswerInv, Whole
<1>10. ShownInv'
  BY <1>1, <1>4 DEF Before, MemberInv, ShownInv
<1> QED
  BY <1>6, <1>7, <1>9, <1>10 DEF MemberInv

\* Every step keeps what the resolution has.
LEMMA MemberStep ==
    ASSUME ResolveInv, MemberInv, [Next]_vars
    PROVE  MemberInv'
<1>1. Before
  BY DEF Before, ResolveInv
<1>2. CASE UNCHANGED vars
  <2>1. UNCHANGED <<env, dir, old, pc, work, result, check>>
    BY <1>2 DEF vars
  <2>2. Configured' = Configured /\ InTrusted' = InTrusted /\ Whole' = Whole /\ ClaimedGroups' = ClaimedGroups
    BY <2>1 DEF Configured, InTrusted, Whole, ClaimedGroups
  <2>3. WorkInv'
    BY <2>1, <2>2 DEF MemberInv, WorkInv, EntryInv
  <2>4. ReadInv'
    BY <2>1, <2>2 DEF MemberInv, ReadInv
  <2>5. AnswerInv'
    BY <2>1, <2>2 DEF MemberInv, AnswerInv
  <2>6. ShownInv'
    BY <2>1 DEF MemberInv, ShownInv
  <2> QED
    BY <2>3, <2>4, <2>5, <2>6 DEF MemberInv
<1> QED
  BY <1>1, <1>2, FrontLdapKeeps, FrontServerKeeps, SamKeeps, LookupKeeps, LsaKeeps, ServingKeeps, ClassifyKeeps,
     EntryKeeps, ClosureKeeps, CrossCheckKeeps, TrustedAccountKeeps, CrossingKeeps, ResourceKeeps, TrustedResultKeeps,
     CheckTargetKeeps, ChangesKeep DEF Next

\* It starts with nothing.
LEMMA MemberInit == Init => MemberInv
<1> SUFFICES ASSUME Init PROVE MemberInv
  OBVIOUS
<1>1. work = NoWork /\ result = Nothing /\ check = "None" /\ pc = "front"
  BY DEF Init
<1>2. /\ IsWork(work) /\ work.conn = Configured /\ work.fsp = FALSE /\ work.relation.rel = "Unknown"
      /\ work.memberships = {} /\ work.out = {} /\ work.entry.direct = {} /\ work.entry.primary = "NotApplicable"
  BY <1>1 DEF NoWork, IsWork, Relation
<1>3. WorkInv
  BY <1>1, <1>2 DEF WorkInv, EntryInv, InTrusted
<1>4. ReadInv
  BY <1>1 DEF ReadInv
<1>5. AnswerInv
  BY <1>1 DEF AnswerInv, Whole
<1>6. ShownInv
  BY <1>1 DEF ShownInv, Nothing, Scopes
<1> QED
  BY <1>3, <1>4, <1>5, <1>6 DEF MemberInv

----------------------------------------------------------------------------
(* The theorems.                                                           *)

\* A directory read without a gap in the configured domain.
LEMMA WholeHasNoGaps ==
    ASSUME DirInv, AnswerInv, Whole, dir.dom[0] = "home", dir = old
    PROVE  NoGaps(Configured, dir) /\ result.memberships = MembershipsOf(Configured, Entry(Configured, dir, 0), dir, 0)
<1>1. IsDirectory(dir) /\ Configured.dom = "home" /\ Configured.gc = env.gc
  BY DEF DirInv, Configured
<1>2. LET e == Entry(Configured, dir, 0)
          a == assemble_memberships(Configured, e, dir, 0)
      IN  ~ env.gc /\ result.memberships = a.memberships /\ a.gaps = {} /\ e.primary # "Missing"
  BY DEF AnswerInv
<1> QED
  BY <1>1, <1>2, AssembledIs DEF NoGaps

\* An answer of an account of the configured domain claims the groups it shows.
LEMMA HomeClaims ==
    ASSUME AnswerInv, Whole, dir.dom[0] = "home"
    PROVE  ClaimedGroups = GroupsOf(result.memberships)
<1>1. \A m \in result.memberships : IsRoute(m, 0, dir, old)
  BY DEF AnswerInv
<1>2. \A m \in result.memberships : m.group \in Group
  BY <1>1 DEF IsRoute
<1> QED
  BY <1>2 DEF ClaimedGroups, GroupsOf

\* What the invariants say of the type.
LEMMA TypeFollows == ASSUME ResolveInv, MemberInv PROVE TypeOK
<1>1. /\ result.groups \in {"LdapRecursive", "SamFlat", "LocalAccount", "NotAttempted", "Failed"}
      /\ result.scope \in Scopes /\ (pc \in {"target", "done"} => result.scope # "Pending")
      /\ check \in {"None", "Allowed", "Denied", "Unknown"}
      /\ result.trusted <=> result.scope = "ResolvedInTrustedDomain"
  BY DEF MemberInv, ShownInv
<1>2. pc \in Stages /\ (pc \in Under => result = Nothing)
  BY DEF ResolveInv, UnderInv
<1>3. (pc = "done") <=> result.scope # "Pending" /\ (pc # "target")
  BY <1>1, <1>2 DEF Under, Nothing
<1>4. ASSUME NEW m \in result.memberships
      PROVE  /\ m.member = 0 /\ m.group \in Group \cup {OrgNode, OtherOrgNode, LocalNode}
             /\ m.path # <<>> => Head(m.path) = 0 /\ m.path[Len(m.path)] = m.group
  <2>1. CASE IsRoute(m, 0, dir, old)
    <3>1. m.member = 0
      BY <2>1 DEF IsRoute, Membership
    <3>2. m.group \in Group /\ m.path \in Seq(Node) /\ (m.path # <<>> => m.path[1] = 0 /\ m.path[Len(m.path)] = m.group)
      BY <2>1 DEF IsRoute
    <3>3. m.path # <<>> => Head(m.path) = m.path[1]
      BY <3>2
    <3> QED
      BY <3>1, <3>2, <3>3
  <2>2. CASE m.member = 0 /\ m.group \in {OrgNode, OtherOrgNode, LocalNode} /\ m.path = <<0, m.group>>
    BY <2>2
  <2> QED
    BY <2>1, <2>2 DEF MemberInv, ShownInv
<1> QED
  BY <1>1, <1>2, <1>3, <1>4 DEF TypeOK

\* A set that is not marked as too large is not.
LEMMA FitsUnlessMarked ==
    ASSUME NEW S, token_size_gap(S) = {}, GroupsOf(S) \subseteq Group
    PROVE  Cardinality(GroupsOf(S)) <= MaxTokenSids
<1>1. IsFiniteSet(Group)
  BY CasesAssumption, FS_Interval DEF Group
<1>2. Cardinality(GroupsOf(S)) \in Nat
  BY <1>1, FS_Subset, FS_CardinalityType
<1>3. ~ (Cardinality(GroupsOf(S)) > MaxTokenSids)
  BY DEF token_size_gap
<1> QED
  BY <1>2, <1>3, CasesAssumption

\* What the invariants say of a token without a marker.
LEMMA TokenFollows == ASSUME DirInv, AnswerInv PROVE OwnTokenIsWhole
<1> SUFFICES ASSUME Whole
             PROVE  /\ dir.dom[0] = "home" => Cardinality(ClaimedGroups) <= MaxTokenSids
                    /\ dir.dom[0] = "server" => ClaimedGroups = dir.memberOf[0] \cup PrimaryOf(dir)
                    /\ dir.dom[0] = "home" /\ dir.token => ClaimedGroups = RealGroups({})
                    /\ dir.dom[0] = "home" /\ ~ dir.token /\ dir.mute = {} /\ dir = old
                       /\ (\A m \in result.memberships : m.complete) => ClaimedGroups = KnownAtHome
  BY DEF OwnTokenIsWhole
<1>1. ASSUME dir.dom[0] = "home" PROVE Cardinality(ClaimedGroups) <= MaxTokenSids
  <2>1. token_size_gap(result.memberships) = {}
    BY <1>1 DEF AnswerInv
  <2>2. ClaimedGroups = GroupsOf(result.memberships) /\ ClaimedGroups \subseteq Group
    BY <1>1, HomeClaims DEF ClaimedGroups
  <2> QED
    BY <2>1, <2>2, FitsUnlessMarked
<1>2. ASSUME dir.dom[0] = "server" PROVE ClaimedGroups = dir.memberOf[0] \cup PrimaryOf(dir)
  BY <1>2 DEF AnswerInv
<1>3. ASSUME dir.dom[0] = "home", dir.token PROVE ClaimedGroups = RealGroups({})
  <2>1. GroupsOf(result.memberships) = TokenOf(Configured, dir, 0)
    BY <1>3 DEF AnswerInv
  <2>2. IsDirectory(dir)
    BY DEF DirInv
  <2> QED
    BY <1>3, <2>1, <2>2, HomeClaims, HomeTokenIsReal
<1>4. ASSUME dir.dom[0] = "home", dir.mute = {}, dir = old, \A m \in result.memberships : m.complete
      PROVE  ClaimedGroups = KnownAtHome
  <2>1. NoGaps(Configured, dir) /\ result.memberships = MembershipsOf(Configured, Entry(Configured, dir, 0), dir, 0)
    BY <1>4, WholeHasNoGaps
  <2>2. GroupsOf(MembershipsOf(Configured, Entry(Configured, dir, 0), dir, 0)) = KnownAtHome
    BY <1>4, <2>1, KnownWithoutGaps
  <2> QED
    BY <1>4, <2>1, <2>2, HomeClaims
<1> QED
  BY <1>1, <1>2, <1>3, <1>4

\* The groups shown without a gap are those of the closure.
LEMMA ClosureIsShown ==
    ASSUME NEW conn, NoGaps(conn, dir)
    PROVE  GroupsOf(MembershipsOf(conn, Entry(conn, dir, 0), dir, 0)) = ClosureOf(conn, Entry(conn, dir, 0), dir, 0)
<1> DEFINE e == Entry(conn, dir, 0)
           pg == PgOf(e, dir)
           closure == ClosureOf(conn, e, dir, 0)
<1>1. pg \subseteq closure
  BY ClosedWithoutGaps
<1>2. GroupsOf(MembershipsOf(conn, e, dir, 0)) = pg \cup closure
  BY ShownGroups
<1> HIDE DEF e, pg, closure
<1>3. GroupsOf(MembershipsOf(conn, e, dir, 0)) = closure
  BY <1>1, <1>2
<1> QED
  BY <1>3 DEF e, closure

\* What the invariants say of a route.
LEMMA RoutesFollow == ASSUME DirInv, AnswerInv, ShownInv PROVE RoutesAreReal
<1> SUFFICES ASSUME NEW m \in result.memberships, m.group \in Group, m.complete, m.path # <<>>
             PROVE  /\ \A i \in 1 .. Len(m.path) - 1 : \/ IsEdge(dir, m.path[i], m.path[i + 1])
                                                       \/ IsEdge(old, m.path[i], m.path[i + 1])
                    /\ \A i \in 2 .. Len(m.path) : m.path[i] \in dir.security \cup dir.untyped \cup PrimaryOf(dir)
                    /\ m.direct => Len(m.path) = 2
                    /\ Whole /\ dir = old /\ dir.dom[0] = "home" /\ dir.mute = {} =>
                         LET real == [n \in Node |-> {g \in ClaimedGroups : IsEdge(dir, n, g)}]
                             near == dist(ClaimedGroups, real, real[0])
                         IN  /\ m.direct = (m.group \in real[0])
                             /\ Len(m.path) = near[m.group] + 1
                             /\ {c \in ClaimedGroups : m.group \in real[c]} = m.also
                                    \cup {c \in ClaimedGroups : Len(m.path) > 2 /\ c = m.path[Len(m.path) - 1]}
  BY DEF RoutesAreReal
<1>1. OrgNode \notin Group /\ OtherOrgNode \notin Group /\ LocalNode \notin Group
  BY CasesAssumption DEF Group, OrgNode, OtherOrgNode, LocalNode
<1>2. IsRoute(m, 0, dir, old)
  BY <1>1 DEF ShownInv
<1>3. /\ \A i \in 1 .. Len(m.path) - 1 : \/ IsEdge(dir, m.path[i], m.path[i + 1])
                                         \/ IsEdge(old, m.path[i], m.path[i + 1])
      /\ \A i \in 2 .. Len(m.path) : m.path[i] \in dir.security \cup dir.untyped \cup PrimaryOf(dir)
      /\ m.direct => Len(m.path) = 2
  BY <1>2 DEF IsRoute
<1>4. ASSUME Whole, dir = old, dir.dom[0] = "home", dir.mute = {}
      PROVE  LET real == [n \in Node |-> {g \in ClaimedGroups : IsEdge(dir, n, g)}]
                 near == dist(ClaimedGroups, real, real[0])
             IN  /\ m.direct = (m.group \in real[0])
                 /\ Len(m.path) = near[m.group] + 1
                 /\ {c \in ClaimedGroups : m.group \in real[c]} = m.also
                        \cup {c \in ClaimedGroups : Len(m.path) > 2 /\ c = m.path[Len(m.path) - 1]}
  <2>1. PICK conn, claimed : conn = Configured /\ claimed = ClaimedGroups
    OBVIOUS
  <2>2. NoGaps(conn, dir) /\ result.memberships = MembershipsOf(conn, Entry(conn, dir, 0), dir, 0)
    BY <1>4, <2>1, WholeHasNoGaps
  <2>3. claimed = ClosureOf(conn, Entry(conn, dir, 0), dir, 0)
    BY <1>4, <2>1, <2>2, ClosureIsShown, HomeClaims
  <2>4. ShowsEveryWay(dir, claimed, m)
    BY <1>4, <2>2, <2>3, RoutesWithoutGaps
  <2> QED
    BY <2>1, <2>4 DEF ShowsEveryWay
<1> QED
  BY <1>3, <1>4

\* The invariants hold together.
LEMMA MemberInvAlways == Spec => [](ResolveInv /\ MemberInv)
<1>1. ResolveInv /\ OrphanedIsProven /\ MemberInv /\ [Next]_vars => ResolveInv' /\ OrphanedIsProven' /\ MemberInv'
  BY ResolveStep, MemberStep
<1> QED
  BY <1>1, ResolveInit, MemberInit, PTL DEF Spec

\* The stages, scopes and statuses of a resolution are those of the code; an answer exists exactly
\* when the pipeline has ended, and every route in it leads from the account to its group.
THEOREM ResolutionTypeCorrect == Spec => []TypeOK
<1>1. ResolveInv /\ MemberInv => TypeOK
  BY TypeFollows
<1> QED
  BY <1>1, MemberInvAlways, PTL

\* For every number of groups and every directory, cycles and diamonds of groups included: every
\* route a complete membership shows exists link by link through groups that count, and in a
\* directory that stood still an unmarked answer shows a shortest one and every other way in
\* (RouteTable, chain_to, assemble_memberships, chain_through).
THEOREM RoutesAreRealAlways == Spec => []RoutesAreReal
<1>1. ResolveInv /\ MemberInv => RoutesAreReal
  BY RoutesFollow DEF ResolveInv, MemberInv
<1> QED
  BY <1>1, MemberInvAlways, PTL

----------------------------------------------------------------------------
(* Accounts of a trusted domain.                                           *)

\* The token of a union is the union of the tokens.
LEMMA TokenOfUnion ==
    ASSUME NEW d, IsDirectory(d), NEW S \in SUBSET Node, NEW T \in SUBSET Node, NEW scope
    PROVE  TokenFrom(d, S \cup T, scope) = TokenFrom(d, S, scope) \cup TokenFrom(d, T, scope)
<1> DEFINE A == TokenFrom(d, S, scope)
           B == TokenFrom(d, T, scope)
           C == TokenFrom(d, S \cup T, scope)
<1>1. IsToken(A, d, S, scope) /\ IsToken(B, d, T, scope)
  BY TokenFromIs
<1>2. IsToken(C, d, S \cup T, scope)
  <2>1. S \cup T \in SUBSET Node
    OBVIOUS
  <2> QED
    BY <2>1, TokenFromIs
<1> HIDE DEF A, B, C
<1>3. A \subseteq C
  <2>1. \A n \in S \cup (A \cap C) : Sec(d, scope, n) \subseteq C
    BY <1>2 DEF IsToken
  <2> QED
    BY <1>1, <2>1 DEF IsToken
<1>4. B \subseteq C
  <2>1. \A n \in T \cup (B \cap C) : Sec(d, scope, n) \subseteq C
    BY <1>2 DEF IsToken
  <2> QED
    BY <1>1, <2>1 DEF IsToken
<1>5. C \subseteq A \cup B
  <2> DEFINE Y == A \cup B
  <2>1. \A n \in (S \cup T) \cup (C \cap Y) : Sec(d, scope, n) \subseteq Y
    BY <1>1 DEF IsToken
  <2> HIDE DEF Y
  <2> QED
    BY <1>2, <2>1 DEF IsToken, Y
<1> QED
  BY <1>3, <1>4, <1>5 DEF A, B, C

\* Nobody's token is empty, and so is that of a node in no group of the scope.
LEMMA TokenOfNothing ==
    ASSUME NEW d, IsDirectory(d), NEW S \in SUBSET Node, NEW scope, \A n \in S : Sec(d, scope, n) = {}
    PROVE  TokenFrom(d, S, scope) = {}
<1> DEFINE A == TokenFrom(d, S, scope)
<1>1. IsToken(A, d, S, scope)
  BY TokenFromIs
<1> HIDE DEF A
<1>2. A \subseteq {}
  BY <1>1 DEF IsToken
<1> QED
  BY <1>2 DEF A

\* A token that does not leave the configured domain is the same without the rest of the forest.
LEMMA TokenStaysHome ==
    ASSUME NEW d, IsDirectory(d), NEW S \in SUBSET Node, NEW wide, NEW narrow,
           narrow \subseteq wide, TokenFrom(d, S, wide) \subseteq narrow
    PROVE  TokenFrom(d, S, wide) = TokenFrom(d, S, narrow)
<1> DEFINE W == TokenFrom(d, S, wide)
           H == TokenFrom(d, S, narrow)
<1>1. IsToken(W, d, S, wide) /\ IsToken(H, d, S, narrow) /\ W \subseteq narrow
  BY TokenFromIs
<1> HIDE DEF W, H
<1>2. \A n : Sec(d, narrow, n) \subseteq Sec(d, wide, n)
  BY DEF Sec
<1>3. \A n \in S \cup W : Sec(d, wide, n) \subseteq Sec(d, narrow, n)
  BY <1>1 DEF IsToken, Sec
<1>4. H \subseteq W
  <2>1. \A n \in S \cup (H \cap W) : Sec(d, narrow, n) \subseteq W
    BY <1>1, <1>2 DEF IsToken
  <2> QED
    BY <1>1, <2>1 DEF IsToken
<1>5. W \subseteq H
  <2>1. \A n \in S \cup (W \cap H) : Sec(d, wide, n) \subseteq H
    BY <1>1, <1>3 DEF IsToken
  <2> QED
    BY <1>1, <2>1 DEF IsToken
<1> QED
  BY <1>4, <1>5 DEF W, H

\* The groups of the configured domain.
Homes(d) == {g \in Group : d.dom[g] = "home"}

\* What the domain of the connection says of a node of another forest: without a Foreign Security
\* Principal it is in no group there, and a list the controller confirms is its token there.
SaysOf(conn, d, v) ==
    LET a == assemble_memberships(conn, Entry(conn, d, v), d, v)
    IN  /\ ~ search_by_sid(conn, d, v) => TokenFrom(d, {v}, Homes(d)) = {}
        /\ token_groups_gaps(a.memberships, TokenOf(conn, d, v)) = {} =>
             GroupsOf(a.memberships) = TokenFrom(d, {v}, Homes(d))
LEMMA AskedAtHome ==
    ASSUME NEW conn, NEW d, IsDirectory(d), conn.dom = "home", ~ conn.gc, conn.whole,
           NEW v \in Node, Forest(d.dom[v]) # "own", Forest(d.dom[0]) # "own"
    PROVE  SaysOf(conn, d, v)
<1> DEFINE e == Entry(conn, d, v)
           a == assemble_memberships(conn, e, d, v)
           wide == {g \in Group : /\ Forest(d.dom[g]) = Forest(conn.dom)
                                  /\ g \in d.local => d.dom[g] = conn.dom}
<1>1. Forest("home") = "own" /\ IsForeign(conn, d, v) /\ \A g : Visible(conn, d, g) <=> d.dom[g] = "home"
  BY DEF Forest, IsForeign, Visible
<1>2. {v} \in SUBSET Node /\ d.memberOf[v] \subseteq Group
  BY DEF IsDirectory
<1>3. ASSUME ~ search_by_sid(conn, d, v) PROVE TokenFrom(d, {v}, Homes(d)) = {}
  <2>1. ~ HasFsp(conn, d, v)
    BY <1>1, <1>3 DEF search_by_sid
  <2>2. \A g \in d.memberOf[v] \cap Group : d.dom[g] # "home"
    BY <1>1, <2>1 DEF HasFsp
  <2>3. \A n \in {v} : Sec(d, Homes(d), n) = {}
    BY <2>2 DEF Sec, Homes
  <2> QED
    BY <1>2, <2>3, TokenOfNothing
<1>4. ASSUME token_groups_gaps(a.memberships, TokenOf(conn, d, v)) = {}
      PROVE  GroupsOf(a.memberships) = TokenFrom(d, {v}, Homes(d))
  <2>1. GroupsOf(a.memberships) = TokenOf(conn, d, v)
    <3> HIDE DEF a
    <3> QED
      BY <1>4 DEF token_groups_gaps
  <2>2. PgOf(e, d) = {}
    <3>1. e.primary = "NotApplicable"
      BY <1>1 DEF Entry, resolve_primary_group
    <3> QED
      BY <3>1 DEF PgOf
  <2>3. GroupsOf(a.memberships) = ClosureOf(conn, e, d, v)
    <3>1. a.memberships = MembershipsOf(conn, e, d, v)
      BY AssembledIs
    <3>2. GroupsOf(MembershipsOf(conn, e, d, v)) = PgOf(e, d) \cup ClosureOf(conn, e, d, v)
      BY ShownGroups
    <3> QED
      BY <2>2, <3>1, <3>2
  <2>4. ClosureOf(conn, e, d, v) \subseteq search_transitive_groups(conn, d, v)
    BY <2>2 DEF ClosureOf, AllOf, FoundBy
  <2>5. search_transitive_groups(conn, d, v) \subseteq Homes(d)
    <3>1. search_transitive_groups(conn, d, v) \subseteq Group
      BY SearchFindsGroups
    <3>2. \A g \in search_transitive_groups(conn, d, v) : InBase(conn, d, g)
      BY DEF search_transitive_groups
    <3> QED
      BY <1>1, <3>1, <3>2 DEF InBase, Homes
  <2>6. TokenOf(conn, d, v) = TokenFrom(d, {v}, wide)
    <3>1. d.dom[0] # "home"
      BY <1>1
    <3>2. {v} \cup {} = {v} /\ {} \cup TokenFrom(d, {v}, wide) = TokenFrom(d, {v}, wide)
      OBVIOUS
    <3> QED
      BY <3>1, <3>2 DEF TokenOf
  <2>7. Homes(d) \subseteq wide
    BY <1>1 DEF Homes
  <2> HIDE DEF wide, a, e
  <2>8. TokenFrom(d, {v}, wide) \subseteq Homes(d)
    BY <2>1, <2>3, <2>4, <2>5, <2>6
  <2> QED
    BY <1>2, <2>1, <2>6, <2>7, <2>8, TokenStaysHome
<1> QED
  BY <1>3, <1>4 DEF SaysOf

\* What an account's own domain hands on are groups of its forest.
LEMMA HandedOn ==
    ASSUME NEW conn, NEW d, IsDirectory(d), d.dom[0] = conn.dom
    PROVE  \A g \in TokenOf(conn, d, 0) : g \in Group /\ Forest(d.dom[g]) = Forest(d.dom[0])
<1> DEFINE scope   == {g \in Group : /\ Forest(d.dom[g]) = Forest(conn.dom)
                                     /\ g \in d.local => d.dom[g] = conn.dom}
           P == PrimaryOf(d)
<1>1. P \subseteq Group /\ Group \subseteq Node /\ 0 \in Node /\ \A p \in P : d.dom[p] = d.dom[0]
  BY CasesAssumption DEF PrimaryOf, IsDirectory, Group, Node
<1>2. {0} \cup P \in SUBSET Node
  BY <1>1
<1>3. TokenOf(conn, d, 0) = P \cup TokenFrom(d, {0} \cup P, scope)
  BY DEF TokenOf
<1>4. \A g \in scope : Forest(d.dom[g]) = Forest(d.dom[0])
  OBVIOUS
<1> HIDE DEF scope, P
<1>5. IsToken(TokenFrom(d, {0} \cup P, scope), d, {0} \cup P, scope)
  BY <1>2, TokenFromIs
<1>6. TokenFrom(d, {0} \cup P, scope) \subseteq Group
  BY <1>5 DEF IsToken
<1>7. TokenFrom(d, {0} \cup P, scope) \subseteq scope
  <2>1. \A n : Sec(d, scope, n) \subseteq scope
    BY DEF Sec
  <2> QED
    BY <1>5, <2>1 DEF IsToken
<1> QED
  BY <1>1, <1>3, <1>4, <1>6, <1>7

\* The trust an account of another domain is resolved through leads to that domain.
LEMMA TrustLeads ==
    ASSUME ~ env.gc, NEW ok \in BOOLEAN, NEW relation,
           relation = classify_unresolved_sid(Configured, env, dir.dom[0], ok), relation.rel = "TrustedDomain"
    PROVE  relation.domain = dir.dom[0] /\ relation.trust \in TrustToward(dir.dom[0])
<1> DEFINE d    == dir.dom[0]
           held == {t \in env.trusts : t.holder = Configured.dom}
           view == IF \E t \in held : t.within THEN env.root ELSE "Root"
<1>1. relation = classify_with(Configured, env, d)
  BY DEF classify_unresolved_sid, Relation
<1>2. relation = classify_against_trusts(d, held, view)
  BY <1>1 DEF classify_with, Relation, Configured
<1>3. Configured.dom = "home"
  BY DEF Configured
<1>4. \A t \in held : t \in env.trusts /\ t.holder = "home"
  BY <1>3
<1> HIDE DEF held, view, d
<1> DEFINE own     == {t \in held : t.sid = d}
           listing == {t \in {t \in held : t.forest} : d \in t.listed}
<1>5. CASE own # {}
  <2> DEFINE t == CHOOSE t \in own : TRUE
  <2>1. t \in own
    BY <1>5
  <2>2. relation.domain = d /\ relation.trust = t
    BY <1>2, <1>5 DEF classify_against_trusts, Relation
  <2> QED
    BY <1>4, <2>1, <2>2 DEF TrustToward, LeadsTo, d
<1>6. CASE own = {} /\ listing # {}
  <2> DEFINE t == CHOOSE t \in listing : TRUE
  <2>1. t \in listing
    BY <1>6
  <2>2. relation.domain = d /\ relation.trust = t
    BY <1>2, <1>6 DEF classify_against_trusts, Relation
  <2> QED
    BY <1>4, <2>1, <2>2 DEF TrustToward, LeadsTo, d
<1>7. CASE own = {} /\ listing = {}
  <2>1. relation.rel \in {"Unknown", "OtherDomain"}
    BY <1>2, <1>7 DEF classify_against_trusts, Relation
  <2> QED
    BY <2>1
<1> QED
  BY <1>5, <1>6, <1>7

\* Steps that end without an answer about a trusted account, and steps that go on before the
\* groups of the configured domain are asked for.
EndsElsewhere ==
    pc \in Under /\ pc' = "done" /\ result'.trusted = FALSE /\ UNCHANGED <<env, dir, old, work, check>>
GoesOn ==
    /\ pc \in Under \ {"resource"} /\ pc' \in Under \ {"resource"}
    /\ work'.relation = work.relation /\ work'.out = work.out /\ UNCHANGED <<env, dir, old, result, check>>
Enters ==
    /\ pc \in Under \ {"resource"} /\ pc' = "trusted account" /\ UNCHANGED <<env, dir, old, result, check>>
    /\ work'.out = work.out
    /\ \E ok \in BOOLEAN : LET relation == classify_unresolved_sid(Configured, env, dir.dom[0], ok)
                           IN  relation.rel = "TrustedDomain" /\ env.serves = relation.domain /\ work'.relation = relation

\* The stages up to the trust.
LEMMA StepsBefore ==
    ASSUME IsWork(work),
           FrontLdap \/ FrontServer \/ ResolveViaSam \/ LookupBySid \/ FallBackToLsa \/ ReadEntry \/ ReadClosure
           \/ CrossCheck \/ TrustedAccount \/ ServingConnection \/ ClassifyUnresolved
    PROVE  EndsElsewhere \/ GoesOn \/ Enters
<1>1. ASSUME pc \in Under, NEW r, Return(r, "done"), r.trusted = FALSE PROVE EndsElsewhere
  BY <1>1 DEF EndsElsewhere, Return
<1>2. ASSUME pc \in Under, NEW s, Bare(s) PROVE EndsElsewhere
  <2> DEFINE r == [Nothing EXCEPT !.scope = s]
  <2>1. Return(r, "done") /\ r.trusted = FALSE
    BY <1>2 DEF Bare, Nothing
  <2> HIDE DEF r
  <2> QED
    BY <1>1, <1>2, <2>1
<1>3. ASSUME pc \in Under, Error PROVE EndsElsewhere
  BY <1>2, <1>3 DEF Error, Bare
<1>4. ASSUME pc \in Under \ {"resource"}, NEW s \in Under \ {"resource"}, NEW w, Goto(s, w),
             w.relation = work.relation, w.out = work.out
      PROVE  GoesOn
  BY <1>4 DEF GoesOn, Goto
<1>5. ASSUME pc \in Under \ {"resource"}, GroupsFailed PROVE EndsElsewhere
  <2>1. CASE Bare("Unresolvable")
    BY <1>2, <1>5, <2>1
  <2> DEFINE r == [Nothing EXCEPT !.scope = "InsideConfiguredLdapBase", !.groups = "Failed",
                                !.disabled = IF work.fsp THEN "Unknown" ELSE "Known",
                                !.fsp = work.fsp, !.gc = env.gc]
  <2>2. CASE Return(r, "done")
    <3>1. r.trusted = FALSE
      BY DEF Nothing
    <3> HIDE DEF r
    <3> QED
      BY <1>1, <1>5, <2>2, <3>1
  <2> QED
    BY <1>5, <2>1, <2>2 DEF GroupsFailed
<1>6. ASSUME pc \in Under \ {"resource"}, NEW m, NEW g, NEW t, GroupsRead(m, g, t) PROVE EndsElsewhere \/ GoesOn
  <2> DEFINE w == [work EXCEPT !.memberships = m, !.gaps = g, !.token_set = t]
             r == [Nothing EXCEPT !.scope = "InsideConfiguredLdapBase", !.groups = "LdapRecursive",
                                !.memberships = m, !.gaps = g \cup t,
                                !.disabled = IF work.fsp THEN "Unknown" ELSE "Known",
                                !.fsp = work.fsp, !.gc = env.gc, !.history = env.history]
  <2>1. CASE Goto("crossing", w)
    <3>1. w.relation = work.relation /\ w.out = work.out /\ "crossing" \in Under \ {"resource"}
      BY DEF IsWork, Under, Stages
    <3> HIDE DEF w
    <3> QED
      BY <1>4, <1>6, <2>1, <3>1
  <2>2. CASE Return(r, "done")
    <3>1. r.trusted = FALSE
      BY DEF Nothing
    <3> HIDE DEF r
    <3> QED
      BY <1>1, <1>6, <2>2, <3>1
  <2> QED
    BY <1>6, <2>1, <2>2 DEF GroupsRead
<1>7. ASSUME pc \in Under \ {"resource"}, NEW s \in Under \ {"resource"}, Goto(s, work) PROVE GoesOn
  BY <1>4, <1>7
<1>8. {"front", "lookup", "sam", "lsa", "fsp serving", "lsa serving", "classify", "entry", "closure", "token",
       "trusted account"} \subseteq Under \ {"resource"}
  BY DEF Under, Stages
<1>9. CASE FrontLdap
  <2>1. pc = "front" /\ (Error \/ Goto("lookup", work) \/ Goto("entry", work))
    BY <1>9 DEF FrontLdap, resolve_by_lsa_name, resolve_by_name
  <2> QED
    BY <1>3, <1>7, <1>8, <2>1
<1>10. CASE FrontServer
  <2>1. ASSUME NEW i, NEW l, NEW p, Return(local_account_principal(i, l, p), "done") PROVE EndsElsewhere
    <3>1. local_account_principal(i, l, p).trusted = FALSE
      BY DEF local_account_principal, Nothing
    <3>2. pc \in Under
      BY <1>8, <1>10 DEF FrontServer
    <3> QED
      BY <1>1, <2>1, <3>1, <3>2
  <2> QED
    BY <1>3, <1>7, <1>8, <1>10, <2>1 DEF FrontServer, resolve_account_on_server
<1>11. CASE ResolveViaSam
  <2>1. pc = "sam" /\ pc \in Under
    BY <1>8, <1>11 DEF ResolveViaSam
  <2>2. ASSUME sam_resolve_fallback \/ resolve_identity_via_sam PROVE EndsElsewhere
    <3>1. result'.trusted = FALSE
      BY <2>2 DEF sam_resolve_fallback, resolve_identity_via_sam, Nothing, Return
    <3>2. pc' = "done" /\ UNCHANGED <<env, dir, old, work, check>>
      BY <2>2 DEF sam_resolve_fallback, resolve_identity_via_sam, Return
    <3> QED
      BY <2>1, <3>1, <3>2 DEF EndsElsewhere
  <2> QED
    BY <1>3, <1>11, <2>1, <2>2 DEF ResolveViaSam
<1>12. CASE LookupBySid
  <2>1. pc = "lookup" /\ HitStage \in {"fsp serving", "entry"}
    BY <1>12 DEF LookupBySid, HitStage
  <2>2. HitWork.relation = work.relation /\ HitWork.out = work.out
    BY DEF HitWork, IsWork
  <2>3. CASE Bare("LookupFailed")
    BY <1>2, <1>8, <2>1, <2>3
  <2>4. CASE Goto("lsa", work)
    BY <1>7, <1>8, <2>1, <2>4
  <2>5. CASE pc' = HitStage /\ work' = HitWork /\ UNCHANGED <<env, dir, old, result, check>>
    BY <1>8, <2>1, <2>2, <2>5 DEF GoesOn
  <2> QED
    BY <1>12, <2>3, <2>4, <2>5 DEF LookupBySid, Goto
<1>13. CASE FallBackToLsa
  BY <1>7, <1>8, <1>13 DEF FallBackToLsa
<1>14. CASE ReadEntry
  <2> DEFINE w == [work EXCEPT !.entry = Entry(work.conn, dir, 0)]
  <2>1. w.relation = work.relation /\ w.out = work.out /\ pc \in Under \ {"resource"} /\ "closure" \in Under \ {"resource"}
    BY <1>8, <1>14 DEF IsWork, ReadEntry
  <2>2. GroupsFailed \/ GroupsRead({}, {"account not found by the group search"}, {}) \/ Goto("closure", w)
    BY <1>14 DEF ReadEntry
  <2> HIDE DEF w
  <2> QED
    BY <1>4, <1>5, <1>6, <2>1, <2>2
<1>15. CASE ReadClosure
  <2> DEFINE a == assemble_memberships(work.conn, work.entry, dir, 0)
             w == [work EXCEPT
                !.memberships = a.memberships,
                !.gaps = (a.gaps \ {"groups outside the resolved set"})
                         \cup (IF work.entry.primary = "Missing" THEN {"primary group"} ELSE {})
                         \cup token_size_gap(a.memberships),
                !.token_set = a.gaps \cap {"groups outside the resolved set"}]
  <2>1. GroupsFailed \/ Goto("token", w)
    BY <1>15 DEF ReadClosure
  <2>2. w.relation = work.relation /\ w.out = work.out /\ pc \in Under \ {"resource"} /\ "token" \in Under \ {"resource"}
    <3> HIDE DEF a
    <3> QED
      BY <1>8, <1>15 DEF IsWork, ReadClosure
  <2> HIDE DEF w
  <2> QED
    BY <1>4, <1>5, <2>1, <2>2
<1>16. CASE CrossCheck
  <2>1. pc \in Under \ {"resource"} /\ \E m, g, t : GroupsRead(m, g, t)
    BY <1>8, <1>16 DEF CrossCheck
  <2> QED
    BY <1>6, <2>1
<1>17. CASE TrustedAccount
  BY <1>2, <1>7, <1>8, <1>17 DEF TrustedAccount
<1>18. ASSUME pc \in {"fsp serving", "lsa serving", "classify"}, NEW ok \in BOOLEAN, NEW relation,
              relation = classify_unresolved_sid(Configured, env, dir.dom[0], ok), relation.rel = "TrustedDomain",
              env.serves = relation.domain, Goto("trusted account", [work EXCEPT !.relation = relation, !.conn = Trusted])
       PROVE  Enters
  <2>1. work'.relation = relation /\ work'.out = work.out /\ pc' = "trusted account"
        /\ UNCHANGED <<env, dir, old, result, check>>
    BY <1>18 DEF Goto, IsWork
  <2> QED
    BY <1>8, <1>18, <2>1 DEF Enters
<1>19. CASE ServingConnection
  <2>1. PICK ok \in BOOLEAN :
          LET relation == classify_unresolved_sid(Configured, env, dir.dom[0], ok)
          IN  IF relation.rel = "TrustedDomain" /\ env.serves = relation.domain
              THEN Goto("trusted account", [work EXCEPT !.relation = relation, !.conn = Trusted])
              ELSE IF pc = "fsp serving" THEN Goto("entry", work)
              ELSE Bare("OutsideConfiguredLdapBase")
    BY <1>19 DEF ServingConnection
  <2>2. PICK relation : relation = classify_unresolved_sid(Configured, env, dir.dom[0], ok)
    OBVIOUS
  <2> QED
    BY <1>2, <1>7, <1>8, <1>18, <1>19, <2>1, <2>2 DEF ServingConnection
<1>20. CASE ClassifyUnresolved
  <2>1. PICK ok \in BOOLEAN :
          LET relation == classify_unresolved_sid(Configured, env, dir.dom[0], ok)
          IN  IF relation.rel = "TrustedDomain" /\ env.serves = relation.domain
              THEN Goto("trusted account", [work EXCEPT !.relation = relation, !.conn = Trusted])
              ELSE Bare(IF unresolvable_reason(relation) THEN "Unresolvable" ELSE "OrphanedSid")
    BY <1>20 DEF ClassifyUnresolved
  <2>2. PICK relation : relation = classify_unresolved_sid(Configured, env, dir.dom[0], ok)
    OBVIOUS
  <2> QED
    BY <1>2, <1>8, <1>18, <1>20, <2>1, <2>2 DEF ClassifyUnresolved
<1> QED
  BY <1>9, <1>10, <1>11, <1>12, <1>13, <1>14, <1>15, <1>16, <1>17, <1>19, <1>20

\* What the pipeline knows between two steps.
Knows == Before /\ LogonInv

\* Until the trust is crossed there is nothing to say of it but where it leads.
LEMMA StepsBeforeKeep ==
    ASSUME Knows, EndsElsewhere \/ GoesOn \/ Enters
    PROVE  LogonInv'
<1>1. UNCHANGED <<env, dir, old, check>> /\ pc \in Under /\ check = "None"
  BY DEF EndsElsewhere, GoesOn, Enters, Knows, Before, UnderInv
<1>3. InTrusted /\ ~ env.gc => work.relation.trust \in TrustToward(dir.dom[0]) /\ env.serves = dir.dom[0]
  BY DEF Knows, LogonInv, CrossInv
<1>4. pc # "resource" => work.out = {}
  BY <1>1 DEF Knows, LogonInv, CrossInv
<1>5. CASE EndsElsewhere
  <2>1. pc' = "done" /\ result'.trusted = FALSE /\ work' = work /\ check' = "None"
    BY <1>1, <1>5 DEF EndsElsewhere
  <2>2. CrossInv'
    <3>1. (InTrusted /\ ~ env.gc => work.relation.trust \in TrustToward(dir.dom[0]) /\ env.serves = dir.dom[0])'
      BY <1>1, <1>3, <2>1 DEF InTrusted, TrustToward
    <3> QED
      BY <2>1, <3>1 DEF CrossInv, Under
  <2>3. TrustedInv'
    BY <2>1 DEF TrustedInv
  <2> QED
    BY <2>2, <2>3 DEF LogonInv
<1>6. CASE GoesOn \/ Enters
  <2>1. pc' \in Under \ {"resource"} /\ check' = "None" /\ work'.out = work.out /\ pc # "resource"
    BY <1>1, <1>6 DEF GoesOn, Enters, Under, Stages
  <2>2. (InTrusted /\ ~ env.gc => work.relation.trust \in TrustToward(dir.dom[0]) /\ env.serves = dir.dom[0])'
    <3>1. CASE GoesOn
      BY <1>1, <1>3, <3>1 DEF GoesOn, InTrusted, TrustToward
    <3>2. CASE Enters
      <4> SUFFICES ASSUME ~ env.gc PROVE (work.relation.trust \in TrustToward(dir.dom[0]) /\ env.serves = dir.dom[0])'
        BY <1>1
      <4>1. PICK ok \in BOOLEAN : \E relation :
              /\ relation = classify_unresolved_sid(Configured, env, dir.dom[0], ok) /\ relation.rel = "TrustedDomain"
              /\ env.serves = relation.domain /\ work'.relation = relation
        BY <3>2 DEF Enters
      <4>2. PICK relation :
              /\ relation = classify_unresolved_sid(Configured, env, dir.dom[0], ok) /\ relation.rel = "TrustedDomain"
              /\ env.serves = relation.domain /\ work'.relation = relation
        BY <4>1
      <4>3. relation.domain = dir.dom[0] /\ relation.trust \in TrustToward(dir.dom[0])
        BY <4>2, TrustLeads
      <4> QED
        BY <1>1, <4>2, <4>3 DEF TrustToward
    <3> QED
      BY <1>6, <3>1, <3>2
  <2>3. CrossInv'
    BY <1>4, <2>1, <2>2 DEF CrossInv
  <2>4. TrustedInv'
    BY <2>1 DEF TrustedInv, Under
  <2> QED
    BY <2>3, <2>4 DEF LogonInv
<1> QED
  BY <1>5, <1>6

\* A change of the directory ends what is said of one that stood still.
LEMMA ChangeKeepsLogon ==
    ASSUME Knows, DirectoryChanges
    PROVE  LogonInv'
<1>1. /\ dir = old /\ old' = old /\ env' = env /\ pc' = pc /\ work' = work
      /\ result' = result /\ check' = check /\ pc \notin {"front", "target", "done"} /\ dir'.dom = dir.dom
  BY ChangeKeeps DEF Knows, Before
<1>2. pc \in Under /\ check = "None" /\ result = Nothing
  BY <1>1 DEF Knows, Before, UnderInv, Under
<1>3. TrustedInv'
  BY <1>1, <1>2 DEF TrustedInv, Under
<1>4. InTrusted' = InTrusted /\ TrustToward(dir.dom[0])' = TrustToward(dir.dom[0])
  BY <1>1 DEF InTrusted, TrustToward
<1>5. CASE dir' = dir
  <2>1. SeenStill' = SeenStill
    BY <1>1, <1>5 DEF SeenStill, SeenFromDomain
  <2>2. \A t : Crossed(t)' = Crossed(t) /\ Former(t)' = Former(t) /\ Measured(t)' = Measured(t)
    BY <1>1, <1>5 DEF Crossed, Former, Measured, Trusted
  <2>3. \A S : AtHome(S)' = AtHome(S)
    BY <1>1, <1>5 DEF AtHome
  <2>4. CrossInv'
    BY <1>1, <1>4, <1>5, <2>1, <2>2, <2>3 DEF Knows, LogonInv, CrossInv
  <2> QED
    BY <1>3, <2>4 DEF LogonInv
<1>6. CASE dir' # dir
  <2>1. ~ SeenStill'
    BY <1>1, <1>6 DEF SeenStill
  <2>2. CrossInv'
    BY <1>1, <1>4, <2>1 DEF Knows, LogonInv, CrossInv
  <2> QED
    BY <1>3, <2>2 DEF LogonInv
<1> QED
  BY <1>5, <1>6

\* What the trust lets through, and what is said when nobody knows.
LEMMA CrossingKeepsLogon ==
    ASSUME Knows, Crossing
    PROVE  LogonInv'
<1> DEFINE t       == work.relation.trust
           G       == GlobalAndUniversal(Trusted, dir)
           sel     == select_cross_domain_memberships(work.memberships, G)
           Bare0(g) == Membership(0, g, FALSE, <<>>, "DomainGroup", FALSE, {})
           all     == sel.kept \cup {Bare0(g) : g \in sel.without_chain}
           groups  == apply_sid_filtering(GroupsOf(all), dir.dom, t, dir.dom[0])
           former  == apply_sid_filtering(env.history, env.historyDom, t, dir.dom[0])
           kept    == {m \in all : m.group \in groups.kept}
           gaps    == work.gaps \cup (IF groups.not_modelled \cup former.not_modelled # {}
                                      THEN {"SID filtering not modelled"} ELSE {})
<1>1. pc = "crossing" /\ pc \in Under /\ IsWork(work) /\ IsDirectory(dir) /\ check = "None" /\ work.out = {}
  <2>1. pc = "crossing" /\ pc \in Under
    BY DEF Crossing, Under, Stages
  <2>2. IsWork(work) /\ IsDirectory(dir) /\ check = "None"
    BY <2>1 DEF Knows, Before, MemberInv, WorkInv, DirInv, UnderInv
  <2>3. work.out = {}
    BY <2>1 DEF Knows, LogonInv, CrossInv
  <2> QED
    BY <2>1, <2>2, <2>3
<1>2. CASE Bare("Unresolvable")
  <2>1. EndsElsewhere
    BY <1>1, <1>2 DEF EndsElsewhere, Bare, Return, Nothing
  <2> QED
    BY <2>1, StepsBeforeKeep
<1>3. CASE /\ dir.token
           /\ Goto("resource", [work EXCEPT !.memberships = kept, !.history = former.kept, !.gaps = gaps,
                                            !.filtered = groups.filtered, !.todo = {0} \cup groups.kept])
  <2>1. GroupsOf(all) = G
    <3>1. \A g : Bare0(g).group = g
      BY DEF Membership
    <3>2. sel.kept = {m \in work.memberships : m.group \in G} /\ sel.without_chain = G \ GroupsOf(work.memberships)
      BY DEF select_cross_domain_memberships
    <3> HIDE DEF sel, Bare0, G
    <3>3. ASSUME NEW g \in GroupsOf(all) PROVE g \in G
      <4>1. PICK m \in all : g = m.group
        BY DEF GroupsOf
      <4>2. m \in sel.kept \/ \E h \in sel.without_chain : m = Bare0(h)
        BY <4>1
      <4> QED
        BY <3>1, <3>2, <4>1, <4>2
    <3>4. ASSUME NEW g \in G PROVE g \in GroupsOf(all)
      <4>1. CASE g \in GroupsOf(work.memberships)
        <5>1. PICK m \in work.memberships : m.group = g
          BY <4>1 DEF GroupsOf
        <5>2. m \in all
          BY <3>2, <5>1
        <5> QED
          BY <5>1, <5>2 DEF GroupsOf
      <4>2. CASE g \notin GroupsOf(work.memberships)
        <5>1. Bare0(g) \in all
          BY <3>2, <4>2
        <5> QED
          BY <3>1, <5>1 DEF GroupsOf
      <4> QED
        BY <4>1, <4>2
    <3> QED
      BY <3>3, <3>4
  <2> HIDE DEF all, sel, Bare0
  <2>2. /\ groups.kept = Crossed(t)
        /\ groups.not_modelled = IF Removes(t) THEN {} ELSE G \ Crossed(t)
    <3>1. Crossed(t) = {g \in G : dir.dom[g] \in Passes(t, dir.dom[0])}
      BY DEF Crossed
    <3> HIDE DEF t, G
    <3> QED
      BY <2>1, <3>1 DEF apply_sid_filtering
  <2>3. /\ former.kept = Former(t)
        /\ former.not_modelled = IF Removes(t) THEN {} ELSE env.history \ Former(t)
    <3>1. Former(t) = {h \in env.history : env.historyDom[h] \in Passes(t, dir.dom[0])}
      BY DEF Former
    <3> HIDE DEF t
    <3> QED
      BY <3>1 DEF apply_sid_filtering
  <2>4. Crossed(t) \subseteq G /\ Former(t) \subseteq env.history
    BY DEF Crossed, Former
  <2> HIDE DEF groups, former
  <2>5. gaps = {} => Measured(t)
    <3>1. Measured(t) <=> Removes(t) \/ (Crossed(t) = G /\ Former(t) = env.history)
      BY DEF Measured
    <3>2. gaps = {} => groups.not_modelled = {} /\ former.not_modelled = {}
      OBVIOUS
    <3> HIDE DEF t, G, gaps
    <3> QED
      BY <2>2, <2>3, <2>4, <3>1, <3>2
  <2>6. GroupsOf(kept) = Crossed(t)
    <3>1. GroupsOf(kept) = {g \in GroupsOf(all) : g \in groups.kept}
      BY DEF GroupsOf
    <3> QED
      BY <2>1, <2>2, <2>4, <3>1
  <2> HIDE DEF kept, gaps
  <2>7. UNCHANGED <<env, dir, old, result, check>> /\ pc' = "resource"
    BY <1>3 DEF Goto
  <2>8. /\ work'.relation = work.relation /\ work'.memberships = kept /\ work'.history = former.kept /\ work'.gaps = gaps
        /\ work'.out = work.out /\ work'.todo = {0} \cup groups.kept
    BY <1>1, <1>3 DEF Goto, IsWork
  <2>9. TrustedInv'
    BY <1>1, <2>7 DEF TrustedInv
  <2>10. AtHome({}) = {}
    BY <1>1, TokenOfNothing DEF AtHome
  <2>11. ({0} \cup Crossed(t)) \ work'.todo = {} /\ GroupsOf(work'.out) = {}
    BY <1>1, <2>2, <2>8 DEF GroupsOf
  <2>12. /\ InTrusted' = InTrusted /\ TrustToward(dir.dom[0])' = TrustToward(dir.dom[0])
    BY <2>7, <2>8 DEF InTrusted, TrustToward
  <2>13. \A x : Crossed(x)' = Crossed(x) /\ Former(x)' = Former(x) /\ Measured(x)' = Measured(x)
    BY <2>7 DEF Crossed, Former, Measured, Trusted
  <2>15. work'.relation.trust = t
    BY <2>8
  <2>16. CrossInv'
    <3>1. InTrusted /\ ~ env.gc => t \in TrustToward(dir.dom[0]) /\ env.serves = dir.dom[0]
      BY DEF Knows, LogonInv, CrossInv
    <3>2. PICK x : x = t /\ x = work'.relation.trust
      BY <2>15
    <3> HIDE DEF t
    <3>3. InTrusted' /\ ~ env'.gc => x \in TrustToward(dir.dom[0])' /\ env'.serves = dir'.dom[0]
      BY <2>7, <2>12, <3>1, <3>2
    <3>4. dir'.token /\ GroupsOf(work'.memberships) = Crossed(x)' /\ work'.history = Former(x)'
      BY <1>3, <2>3, <2>6, <2>7, <2>8, <2>13, <3>2
    <3>5. AtHome(({0} \cup Crossed(x)) \ work.todo)' = {}
      <4>1. ({0} \cup Crossed(x)') \ work'.todo = {}
        BY <2>11, <2>13, <3>2
      <4> QED
        BY <2>7, <2>10, <4>1 DEF AtHome
    <3>6. work'.gaps = {} => Measured(x)' /\ GroupsOf(work'.out) = AtHome(({0} \cup Crossed(x)) \ work.todo)'
      BY <2>5, <2>8, <2>11, <2>13, <3>2, <3>5
    <3> QED
      BY <2>7, <3>2, <3>3, <3>4, <3>6 DEF CrossInv
  <2> QED
    BY <2>9, <2>16 DEF LogonInv
<1> QED
  BY <1>2, <1>3 DEF Crossing

\* The SID asked about next is the account's or that of a group which crossed.
LEMMA NextAsked ==
    ASSUME Before, pc = "resource", work.todo # {}
    PROVE  /\ Min(work.todo) \in work.todo /\ Min(work.todo) \in Node
           /\ work.todo \subseteq {0} \cup GroupsOf(work.memberships) /\ GroupsOf(work.memberships) \subseteq Group
<1>1. /\ work.todo \subseteq {0} \cup GroupsOf(work.memberships)
      /\ \A m \in work.memberships : IsRoute(m, 0, dir, old)
  BY DEF Before, MemberInv, WorkInv
<1>2. GroupsOf(work.memberships) \subseteq Group
  BY <1>1 DEF GroupsOf, IsRoute
<1>3. Group \subseteq Node /\ 0 \in Node /\ Node \subseteq Nat
  BY CasesAssumption DEF Group, Node
<1>4. work.todo \subseteq Node /\ work.todo \subseteq Nat
  BY <1>1, <1>2, <1>3
<1>5. Min(work.todo) \in work.todo
  <2>1. \E x \in work.todo : \A y \in work.todo : x <= y
    BY <1>4, SmallestOf
  <2> QED
    BY <2>1 DEF Min
<1> QED
  BY <1>1, <1>2, <1>4, <1>5

\* A crossing SID is one of another forest, so its groups in the configured domain are those of its
\* Foreign Security Principal.
LEMMA AskedIsForeign ==
    ASSUME Knows, pc = "resource", SeenStill, NEW v \in {0} \cup Crossed(work.relation.trust)
    PROVE  v \in Node /\ Forest(dir.dom[v]) # "own"
<1>1. IsDirectory(dir) /\ InTrusted /\ ~ env.gc /\ Forest(dir.dom[0]) # "own" /\ 0 \in Node /\ Group \subseteq Node
  <2>1. 0 \in Node /\ Group \subseteq Node
    BY CasesAssumption DEF Node, Group
  <2> QED
    BY <2>1 DEF Knows, Before, DirInv, MemberInv, WorkInv, SeenStill, SeenFromDomain
<1>2. env.serves = dir.dom[0]
  BY <1>1 DEF Knows, LogonInv, CrossInv
<1>3. PICK conn : conn = Trusted
  OBVIOUS
<1>4. dir.dom[0] = conn.dom
  BY <1>2, <1>3 DEF Trusted
<1>5. \A g \in TokenOf(conn, dir, 0) : g \in Group /\ Forest(dir.dom[g]) = Forest(dir.dom[0])
  BY <1>1, <1>4, HandedOn
<1>6. Crossed(work.relation.trust) \subseteq TokenOf(conn, dir, 0)
  BY <1>3 DEF Crossed, GlobalAndUniversal
<1> QED
  BY <1>1, <1>5, <1>6

\* The groups of one more SID.
LEMMA ResourceKeepsLogon ==
    ASSUME Knows, ResourceGroups
    PROVE  LogonInv'
<1> DEFINE via  == Min(work.todo)
           e    == Entry(Configured, dir, via)
           a    == assemble_memberships(Configured, e, dir, via)
           home == {m \in work.memberships : m.group = via}
           gaps == a.gaps \cup token_size_gap(a.memberships)
                   \cup (IF dir.token /\ ~ env.gc
                         THEN token_groups_gaps(a.memberships, TokenOf(Configured, dir, via)) ELSE {})
           more == IF via = 0 THEN a.memberships
                   ELSE {chain_through(CHOOSE m \in home : TRUE, r) : r \in a.memberships}
<1>1. pc = "resource" /\ pc \in Under /\ work.todo # {} /\ IsWork(work) /\ IsDirectory(dir) /\ check = "None"
  <2>1. pc = "resource" /\ pc \in Under /\ work.todo # {}
    BY DEF ResourceGroups, Under, Stages
  <2> QED
    BY <2>1 DEF Knows, Before, MemberInv, WorkInv, DirInv, UnderInv
<1>2. /\ via \in work.todo /\ via \in Node
      /\ work.todo \subseteq {0} \cup GroupsOf(work.memberships) /\ GroupsOf(work.memberships) \subseteq Group
  BY <1>1, NextAsked DEF Knows
<1> HIDE DEF via
<1>3. CASE Bare("Unresolvable")
  <2>1. EndsElsewhere
    BY <1>1, <1>3 DEF EndsElsewhere, Bare, Return, Nothing
  <2> QED
    BY <2>1, StepsBeforeKeep
<1>4. PICK conn, t : conn = Configured /\ t = work.relation.trust
  OBVIOUS
<1>5. GroupsOf(more) = GroupsOf(a.memberships)
  <2> HIDE DEF a, home
  <2>1. CASE via = 0
    BY <2>1
  <2>2. CASE via # 0
    <3> DEFINE h == CHOOSE m \in home : TRUE
    <3>1. more = {chain_through(h, r) : r \in a.memberships}
      BY <2>2
    <3> HIDE DEF h, more
    <3>2. \A r \in a.memberships : chain_through(h, r).group = r.group
      <4>1. ASSUME NEW r \in a.memberships PROVE chain_through(h, r).group = r.group
        <5>1. IsEntry(e, dir, old, via)
          BY <1>1, <1>2, EntryIs
        <5> HIDE DEF e
        <5>2. IsRoute(r, via, dir, old)
          BY <1>1, <1>2, <4>1, <5>1, AssembledRoutes DEF a
        <5>3. r = Membership(via, r.group, r.direct, r.path, r.source, r.complete, r.also)
          BY <5>2 DEF IsRoute
        <5> QED
          BY <5>3 DEF chain_through, Membership
      <4> QED
        BY <4>1
    <3> QED
      BY <3>1, <3>2 DEF GroupsOf
  <2> QED
    BY <2>1, <2>2
<1>6. ASSUME SeenStill
      PROVE  /\ dir.token /\ GroupsOf(work.memberships) = Crossed(t) /\ work.history = Former(t)
             /\ work.gaps = {} => Measured(t) /\ GroupsOf(work.out) = AtHome(({0} \cup Crossed(t)) \ work.todo)
             /\ AtHome(({0} \cup Crossed(t)) \ (work.todo \ {via}))
                  = AtHome(({0} \cup Crossed(t)) \ work.todo) \cup TokenFrom(dir, {via}, Homes(dir))
             /\ ~ search_by_sid(Configured, dir, via) => TokenFrom(dir, {via}, Homes(dir)) = {}
             /\ gaps = {} => GroupsOf(a.memberships) = TokenFrom(dir, {via}, Homes(dir))
  <2>1. /\ dir.token /\ GroupsOf(work.memberships) = Crossed(t) /\ work.history = Former(t)
        /\ work.gaps = {} => Measured(t) /\ GroupsOf(work.out) = AtHome(({0} \cup Crossed(t)) \ work.todo)
    BY <1>1, <1>4, <1>6 DEF Knows, LogonInv, CrossInv
  <2>2. via \in {0} \cup Crossed(t)
    BY <1>2, <2>1
  <2>3. Forest(dir.dom[via]) # "own"
    BY <1>1, <1>4, <1>6, <2>2, AskedIsForeign
  <2>4. ~ env.gc /\ conn.dom = "home" /\ ~ conn.gc /\ conn.whole /\ Forest(dir.dom[0]) # "own"
    BY <1>4, <1>6 DEF SeenStill, SeenFromDomain, Configured
  <2>5. SaysOf(conn, dir, via)
    BY <1>1, <1>2, <2>3, <2>4, AskedAtHome
  <2>6. token_groups_gaps(a.memberships, TokenOf(Configured, dir, via)) \subseteq gaps
    <3> HIDE DEF a
    <3> QED
      BY <2>1, <2>4
  <2>7. /\ ~ search_by_sid(Configured, dir, via) => TokenFrom(dir, {via}, Homes(dir)) = {}
        /\ gaps = {} => GroupsOf(a.memberships) = TokenFrom(dir, {via}, Homes(dir))
    <3>1. a = assemble_memberships(conn, Entry(conn, dir, via), dir, via)
      BY <1>4
    <3> HIDE DEF gaps, a
    <3>2. gaps = {} => token_groups_gaps(a.memberships, TokenOf(conn, dir, via)) = {}
      BY <1>4, <2>6
    <3>3. /\ ~ search_by_sid(conn, dir, via) => TokenFrom(dir, {via}, Homes(dir)) = {}
          /\ token_groups_gaps(a.memberships, TokenOf(conn, dir, via)) = {} =>
               GroupsOf(a.memberships) = TokenFrom(dir, {via}, Homes(dir))
      BY <2>5, <3>1 DEF SaysOf
    <3> QED
      BY <1>4, <3>2, <3>3
  <2>8. AtHome(({0} \cup Crossed(t)) \ (work.todo \ {via}))
                  = AtHome(({0} \cup Crossed(t)) \ work.todo) \cup TokenFrom(dir, {via}, Homes(dir))
    <3> DEFINE S == ({0} \cup Crossed(t)) \ work.todo
    <3>1. ({0} \cup Crossed(t)) \ (work.todo \ {via}) = S \cup {via}
      BY <1>2, <2>2
    <3>2. S \in SUBSET Node /\ {via} \in SUBSET Node
      <4>1. 0 \in Node /\ Group \subseteq Node
        BY CasesAssumption DEF Node, Group
      <4> QED
        BY <1>2, <2>1, <4>1
    <3> HIDE DEF S
    <3>3. TokenFrom(dir, S \cup {via}, Homes(dir)) = TokenFrom(dir, S, Homes(dir)) \cup TokenFrom(dir, {via}, Homes(dir))
      BY <1>1, <3>2, TokenOfUnion
    <3>4. \A X : AtHome(X) = TokenFrom(dir, X, Homes(dir))
      BY DEF AtHome, Homes
    <3> QED
      BY <3>1, <3>3, <3>4 DEF S
  <2> QED
    BY <2>1, <2>7, <2>8
<1> HIDE DEF gaps, more, a, e
<1>7. ASSUME NEW g, NEW o, work.gaps \subseteq g,
             Goto("resource", [work EXCEPT !.todo = @ \ {via}, !.gaps = g, !.out = o]),
             SeenStill /\ g = {} => GroupsOf(o) = GroupsOf(work.out) \cup TokenFrom(dir, {via}, Homes(dir))
      PROVE  LogonInv'
  <2>1. UNCHANGED <<env, dir, old, result, check>> /\ pc' = "resource"
    BY <1>7 DEF Goto
  <2>2. /\ work'.relation = work.relation /\ work'.memberships = work.memberships /\ work'.history = work.history
        /\ work'.gaps = g /\ work'.out = o /\ work'.todo = work.todo \ {via}
    BY <1>1, <1>7 DEF Goto, IsWork
  <2>3. TrustedInv'
    BY <1>1, <2>1 DEF TrustedInv
  <2>4. InTrusted' = InTrusted /\ TrustToward(dir.dom[0])' = TrustToward(dir.dom[0]) /\ SeenStill' = SeenStill
    BY <2>1, <2>2 DEF InTrusted, TrustToward, SeenStill, SeenFromDomain
  <2>5. Crossed(t)' = Crossed(t) /\ Former(t)' = Former(t) /\ Measured(t)' = Measured(t)
    BY <2>1 DEF Crossed, Former, Measured, Trusted
  <2>6. AtHome(({0} \cup Crossed(t)) \ work.todo)' = AtHome(({0} \cup Crossed(t)) \ (work.todo \ {via}))
    BY <2>1, <2>2, <2>5 DEF AtHome
  <2>7. work'.relation.trust = t
    BY <1>4, <2>2
  <2>8. InTrusted' /\ ~ env'.gc => t \in TrustToward(dir.dom[0])' /\ env'.serves = dir'.dom[0]
    BY <1>4, <2>1, <2>4 DEF Knows, LogonInv, CrossInv
  <2>9. SeenStill' => dir'.token /\ GroupsOf(work'.memberships) = Crossed(t)' /\ work'.history = Former(t)'
    BY <1>6, <2>1, <2>2, <2>4, <2>5
  <2>10. SeenStill' /\ work'.gaps = {} =>
           Measured(t)' /\ GroupsOf(work'.out) = AtHome(({0} \cup Crossed(t)) \ work.todo)'
    BY <1>6, <1>7, <2>2, <2>4, <2>5, <2>6
  <2>11. CrossInv'
    BY <2>1, <2>7, <2>8, <2>9, <2>10 DEF CrossInv
  <2> QED
    BY <2>3, <2>11 DEF LogonInv
<1>8. CASE ~ search_by_sid(Configured, dir, via) /\ Goto("resource", [work EXCEPT !.todo = @ \ {via}])
  <2>1. [work EXCEPT !.todo = @ \ {via}] = [work EXCEPT !.todo = @ \ {via}, !.gaps = work.gaps, !.out = work.out]
    BY <1>1 DEF IsWork
  <2>2. SeenStill => GroupsOf(work.out) = GroupsOf(work.out) \cup TokenFrom(dir, {via}, Homes(dir))
    BY <1>6, <1>8
  <2> QED
    BY <1>7, <1>8, <2>1, <2>2
<1>9. CASE Goto("resource", [work EXCEPT !.todo = @ \ {via}, !.gaps = @ \cup gaps, !.out = @ \cup more])
  <2> DEFINE g == work.gaps \cup gaps
             o == work.out \cup more
  <2>1. GroupsOf(o) = GroupsOf(work.out) \cup GroupsOf(more)
    BY DEF GroupsOf
  <2>2. SeenStill /\ g = {} => GroupsOf(o) = GroupsOf(work.out) \cup TokenFrom(dir, {via}, Homes(dir))
    <3>1. g = {} => gaps = {}
      OBVIOUS
    <3> QED
      BY <1>5, <1>6, <2>1, <3>1
  <2>3. Goto("resource", [work EXCEPT !.todo = @ \ {via}, !.gaps = g, !.out = o]) /\ work.gaps \subseteq g
    BY <1>9
  <2> HIDE DEF g, o
  <2> QED
    BY <1>7, <2>2, <2>3
<1> QED
  BY <1>3, <1>8, <1>9 DEF ResourceGroups, via, e, a, gaps, more

\* The answer claims what crossed and what was found for it.
LEMMA ResultKeepsLogon ==
    ASSUME Knows, TrustedResult
    PROVE  LogonInv'
<1> DEFINE sel == work.relation.trust.selective
           org == IF sel THEN OtherOrgNode ELSE OrgNode
           own == Membership(0, org, TRUE, <<0, org>>, "TrustedDomainLogon", TRUE, {})
           stage == IF sel THEN "target" ELSE "done"
           r == [Nothing EXCEPT
             !.scope = "ResolvedInTrustedDomain", !.groups = "LdapRecursive", !.disabled = "Known",
             !.memberships = work.memberships \cup work.out
                             \cup {Membership(0, org, TRUE, <<0, org>>, "TrustedDomainLogon", TRUE, {})},
             !.gaps = work.gaps, !.trusted = TRUE, !.history = work.history, !.filtered = work.filtered]
<1>1. Return(r, stage) /\ pc = "resource" /\ work.todo = {}
  BY DEF TrustedResult
<1>2. r.memberships = work.memberships \cup work.out \cup {own} /\ r.gaps = work.gaps /\ r.history = work.history /\ r.trusted = TRUE
  BY DEF Nothing
<1>3. own.group = org /\ org \in {OrgNode, OtherOrgNode} /\ stage \in {"target", "done"} /\ (stage = "target" => org = OtherOrgNode)
  BY DEF Membership
<1>4. OrgNode \notin Group /\ OtherOrgNode \notin Group
  BY CasesAssumption DEF Group, OrgNode, OtherOrgNode
<1>5. \A m \in work.memberships \cup work.out : IsRoute(m, 0, dir, old)
  BY DEF Knows, Before, MemberInv, WorkInv
<1> HIDE DEF r, own, org, stage
<1>6. GroupsOf(r.memberships) = GroupsOf(work.memberships) \cup GroupsOf(work.out) \cup {org}
  BY <1>2, <1>3 DEF GroupsOf
<1>7. GroupsOf(work.memberships) \cup GroupsOf(work.out) \subseteq Group
  BY <1>5 DEF GroupsOf, IsRoute
<1>8. /\ result' = r /\ pc' = stage /\ UNCHANGED <<env, dir, old, work, check>>
      /\ ClaimedGroups' = GroupsOf(work.memberships) \cup GroupsOf(work.out)
  BY <1>1, <1>3, <1>4, <1>6, <1>7 DEF Return, ClaimedGroups
<1>9. PICK t : t = work.relation.trust
  OBVIOUS
<1>10. InTrusted' = InTrusted /\ TrustToward(dir.dom[0])' = TrustToward(dir.dom[0]) /\ SeenStill' = SeenStill
  BY <1>8 DEF InTrusted, TrustToward, SeenStill, SeenFromDomain
<1>11. Crossed(t)' = Crossed(t) /\ Former(t)' = Former(t) /\ Measured(t)' = Measured(t)
  BY <1>8 DEF Crossed, Former, Measured, Trusted
<1>12. CrossInv'
  BY <1>3, <1>8, <1>10 DEF Knows, LogonInv, CrossInv, Under
<1>13. ASSUME SeenStill, work.gaps = {}
       PROVE  /\ t \in TrustToward(dir.dom[0]) /\ env.serves = dir.dom[0] /\ Measured(t) /\ work.history = Former(t)
              /\ GroupsOf(work.memberships) \cup GroupsOf(work.out) = Crossed(t) \cup AtHome({0} \cup Crossed(t))
  <2>1. InTrusted /\ ~ env.gc
    BY <1>1, <1>13 DEF Knows, Before, MemberInv, WorkInv, SeenStill, SeenFromDomain
  <2>2. ({0} \cup Crossed(t)) \ work.todo = {0} \cup Crossed(t)
    BY <1>1
  <2> QED
    BY <1>1, <1>9, <1>13, <2>1, <2>2 DEF Knows, LogonInv, CrossInv
<1>14. AtHome({0} \cup Crossed(t))' = AtHome({0} \cup Crossed(t))
  BY <1>8, <1>11 DEF AtHome
<1>15. (SeenStill /\ result.gaps = {})' =>
         \E x \in TrustToward(dir.dom[0])' :
            /\ env'.serves = dir'.dom[0] /\ Measured(x)' /\ result'.history = Former(x)'
            /\ ClaimedGroups' = Crossed(x)' \cup AtHome({0} \cup Crossed(x))'
  <2> SUFFICES ASSUME (SeenStill /\ result.gaps = {})'
               PROVE  /\ t \in TrustToward(dir.dom[0])' /\ env'.serves = dir'.dom[0] /\ Measured(t)'
                      /\ result'.history = Former(t)'
                      /\ ClaimedGroups' = Crossed(t)' \cup AtHome({0} \cup Crossed(t))'
    OBVIOUS
  <2>1. SeenStill /\ work.gaps = {}
    BY <1>2, <1>8, <1>10
  <2> QED
    BY <1>2, <1>8, <1>10, <1>11, <1>13, <1>14, <2>1
<1>16. check' = "None"
  <2>1. pc \in Under
    BY <1>1 DEF Under, Stages
  <2> QED
    BY <1>8, <2>1 DEF Knows, Before, UnderInv
<1>17. pc' = "target" => result'.trusted /\ GroupsOf(result'.memberships) = ClaimedGroups' \cup {OtherOrgNode}
  BY <1>2, <1>3, <1>6, <1>8
<1>18. TrustedInv'
  BY <1>15, <1>16, <1>17 DEF TrustedInv
<1> QED
  BY <1>12, <1>18 DEF LogonInv

\* The check of the target is decided for the SIDs the answer claims.
LEMMA CheckKeepsLogon ==
    ASSUME Knows, CheckTarget
    PROVE  LogonInv'
<1>1. pc = "target" /\ pc' = "done" /\ UNCHANGED <<env, dir, old, work, result>>
  BY DEF CheckTarget
<1>2. check' = "Unknown" \/ check' = allowed_to_authenticate(env.sd, {0, EveryoneNode} \cup result.history \cup GroupsOf(result.memberships))
  BY DEF CheckTarget
<1>3. /\ InTrusted' = InTrusted /\ TrustToward(dir.dom[0])' = TrustToward(dir.dom[0]) /\ SeenStill' = SeenStill
      /\ ClaimedGroups' = ClaimedGroups
  BY <1>1 DEF InTrusted, TrustToward, SeenStill, SeenFromDomain, ClaimedGroups
<1>4. CrossInv'
  BY <1>1, <1>3 DEF Knows, LogonInv, CrossInv, Under
<1>5. \A t : Crossed(t)' = Crossed(t) /\ Former(t)' = Former(t) /\ Measured(t)' = Measured(t)
             /\ AtHome({0} \cup Crossed(t))' = AtHome({0} \cup Crossed(t))
  BY <1>1 DEF Crossed, Former, Measured, Trusted, AtHome
<1>6. result.trusted /\ GroupsOf(result.memberships) = ClaimedGroups \cup {OtherOrgNode}
  BY <1>1 DEF Knows, LogonInv, TrustedInv
<1>7. (result.trusted /\ result.gaps = {} /\ SeenStill)' =>
         \E t \in TrustToward(dir.dom[0])' :
            /\ env'.serves = dir'.dom[0] /\ Measured(t)' /\ result'.history = Former(t)'
            /\ ClaimedGroups' = Crossed(t)' \cup AtHome({0} \cup Crossed(t))'
  BY <1>1, <1>3, <1>5 DEF Knows, LogonInv, TrustedInv
<1>8. TrustedInv'
  BY <1>1, <1>2, <1>3, <1>6, <1>7 DEF TrustedInv
<1> QED
  BY <1>4, <1>8 DEF LogonInv

\* Every step keeps what is known of an account of a trusted domain.
LEMMA LogonStep ==
    ASSUME ResolveInv, MemberInv, LogonInv, [Next]_vars
    PROVE  LogonInv'
<1>1. Knows /\ IsWork(work)
  BY DEF Knows, Before, ResolveInv, MemberInv, WorkInv
<1>2. CASE UNCHANGED vars
  <2>1. UNCHANGED <<env, dir, old, pc, work, result, check>>
    BY <1>2 DEF vars
  <2>2. /\ InTrusted' = InTrusted /\ TrustToward(dir.dom[0])' = TrustToward(dir.dom[0]) /\ SeenStill' = SeenStill
        /\ ClaimedGroups' = ClaimedGroups
    BY <2>1 DEF InTrusted, TrustToward, SeenStill, SeenFromDomain, ClaimedGroups
  <2>3. \A t : Crossed(t)' = Crossed(t) /\ Former(t)' = Former(t) /\ Measured(t)' = Measured(t)
    BY <2>1 DEF Crossed, Former, Measured, Trusted
  <2>4. \A S : AtHome(S)' = AtHome(S)
    BY <2>1 DEF AtHome
  <2>5. CrossInv'
    BY <2>1, <2>2, <2>3, <2>4 DEF LogonInv, CrossInv
  <2>6. TrustedInv'
    BY <2>1, <2>2, <2>3, <2>4 DEF LogonInv, TrustedInv
  <2> QED
    BY <2>5, <2>6 DEF LogonInv
<1>3. CASE FrontLdap \/ FrontServer \/ ResolveViaSam \/ LookupBySid \/ FallBackToLsa \/ ReadEntry \/ ReadClosure
           \/ CrossCheck \/ TrustedAccount \/ ServingConnection \/ ClassifyUnresolved
  BY <1>1, <1>3, StepsBefore, StepsBeforeKeep
<1> QED
  BY <1>1, <1>2, <1>3, CrossingKeepsLogon, ResourceKeepsLogon, ResultKeepsLogon, CheckKeepsLogon, ChangeKeepsLogon DEF Next

\* It starts before any trust.
LEMMA LogonInit == Init => LogonInv
<1> SUFFICES ASSUME Init PROVE LogonInv
  OBVIOUS
<1>1. work.relation.rel = "Unknown" /\ work.out = {} /\ check = "None" /\ pc = "front"
  BY DEF Init, NoWork, Relation
<1>2. CrossInv
  BY <1>1 DEF CrossInv, InTrusted
<1>3. TrustedInv
  BY <1>1 DEF TrustedInv
<1> QED
  BY <1>2, <1>3 DEF LogonInv

\* Whatever nobody measured, the answer is the token.
RealForTrusted(more) ==
    /\ ClaimedGroups = RealGroups(more)
    /\ result.history = {h \in env.history : env.historyDom[h] \in PassesInto(dir.dom[0], more)}
LEMMA RealWhateverPasses ==
    ASSUME DirInv, TrustedInv, Whole, SeenFromDomain, result.trusted, dir = old,
           NEW more \in SUBSET Unmeasured(dir.dom[0])
    PROVE  RealForTrusted(more)
<1> DEFINE d == dir.dom[0]
<1>1. pc = "done" /\ result.gaps = {} /\ SeenStill
  <2>1. Unmarked(result) /\ pc = "done"
    BY DEF Whole, Unmarked
  <2> QED
    BY <2>1, UnmarkedIs DEF SeenStill
<1>2. PICK t \in TrustToward(d) :
        /\ env.serves = d /\ Measured(t) /\ result.history = Former(t)
        /\ ClaimedGroups = Crossed(t) \cup AtHome({0} \cup Crossed(t))
  BY <1>1 DEF TrustedInv
<1>3. TrustToward(d) = {t}
  <2>1. d \in Domains
    <3>1. 0 \in Node
      BY CasesAssumption DEF Node
    <3> QED
      BY <3>1 DEF DirInv, IsDirectory
  <2>2. \A x \in TrustToward(d) : x = t
    <3> HIDE DEF d
    <3> QED
      BY <1>2, <2>1 DEF DirInv, AreTrusts, TrustToward
  <2> QED
    BY <1>2, <2>2
<1>4. PassesInto(d, more) = more \cup Passes(t, d)
  <2>1. Forest(d) # "own"
    BY DEF SeenFromDomain
  <2>2. UNION {Passes(x, d) : x \in TrustToward(d)} = Passes(t, d)
    BY <1>3
  <2> HIDE DEF d
  <2> QED
    BY <2>1, <2>2 DEF PassesInto
<1>5. Removes(t) => more = {}
  BY <1>3 DEF Unmeasured
<1>6. PICK account, G : account = [dom |-> d, gc |-> FALSE, whole |-> TRUE] /\ G = GlobalAndUniversal(account, dir)
  OBVIOUS
<1>7. Trusted = account
  BY <1>2, <1>6 DEF Trusted
<1>8. /\ Crossed(t) = {g \in G : dir.dom[g] \in Passes(t, d)} /\ Former(t) = {h \in env.history : env.historyDom[h] \in Passes(t, d)}
      /\ Removes(t) \/ (Crossed(t) = G /\ Former(t) = env.history)
  BY <1>2, <1>6, <1>7 DEF Crossed, Former, Measured
<1>9. RealGroups(more) = LET crossing == {g \in G : dir.dom[g] \in PassesInto(d, more)}
                         IN  crossing \cup TokenFrom(dir, {0} \cup crossing, Homes(dir))
  BY <1>6 DEF RealGroups, Homes
<1> HIDE DEF d
<1>10. {g \in G : dir.dom[g] \in PassesInto(d, more)} = Crossed(t)
  BY <1>4, <1>5, <1>8
<1>11. {h \in env.history : env.historyDom[h] \in PassesInto(d, more)} = Former(t)
  BY <1>4, <1>5, <1>8
<1>12. AtHome({0} \cup Crossed(t)) = TokenFrom(dir, {0} \cup Crossed(t), Homes(dir))
  BY DEF AtHome, Homes
<1> QED
  BY <1>2, <1>9, <1>10, <1>11, <1>12 DEF RealForTrusted, d

\* What the invariants say of the token of an account of a trusted domain.
LEMMA TrustedTokenFollows == ASSUME DirInv, TrustedInv PROVE SeenFromDomain => TrustedTokenIsWhole
  BY RealWhateverPasses DEF TrustedTokenIsWhole, RealForTrusted

\* A decision that is the same with and without the SIDs of the logon holds for both.
LEMMA DecisionIsFor ==
    ASSUME NEW sd, NEW certain, NEW logon \in SUBSET {LogonNode},
           sd.dacl # "null", allowed_to_authenticate(sd, certain) \in {"Allowed", "Denied"}
    PROVE  allowed_to_authenticate(sd, certain) = first_decision(sd.aces, certain \cup logon)
<1> DEFINE who(i) == sd.aces[i].who
           whos == {who(i) : i \in DOMAIN sd.aces}
           uncertain == {w \in whos : is_uncertain(w, certain)}
           without == first_decision(sd.aces, certain)
           with    == first_decision(sd.aces, certain \cup uncertain)
<1>1. allowed_to_authenticate(sd, certain) = without /\ without = with
  BY DEF allowed_to_authenticate
<1>2. CASE {i \in DOMAIN sd.aces : who(i) \in certain \cup logon} = {i \in DOMAIN sd.aces : who(i) \in certain}
  BY <1>1, <1>2 DEF first_decision
<1>3. CASE {i \in DOMAIN sd.aces : who(i) \in certain \cup logon} = {i \in DOMAIN sd.aces : who(i) \in certain \cup uncertain}
  BY <1>1, <1>3 DEF first_decision
<1>4. CASE LogonNode \notin logon \/ LogonNode \in certain
  <2>1. {i \in DOMAIN sd.aces : who(i) \in certain \cup logon} = {i \in DOMAIN sd.aces : who(i) \in certain}
    BY <1>4
  <2> QED
    BY <1>2, <2>1
<1>5. CASE LogonNode \in logon /\ LogonNode \notin certain
  <2>1. logon = {LogonNode}
    BY <1>5
  <2>2. \A i \in DOMAIN sd.aces : who(i) \in uncertain <=> who(i) = LogonNode
    BY <1>5 DEF is_uncertain
  <2> HIDE DEF uncertain, who
  <2>3. {i \in DOMAIN sd.aces : who(i) \in certain \cup logon} = {i \in DOMAIN sd.aces : who(i) \in certain \cup uncertain}
    BY <2>1, <2>2
  <2> QED
    BY <1>3, <2>3
<1> QED
  BY <1>4, <1>5

\* What the invariants say of a decided check.
LEMMA LogonFollows == ASSUME DirInv, TrustedInv PROVE LogonDecisionIsCertain
<1> SUFFICES ASSUME pc = "done", check \in {"Allowed", "Denied"}, Whole, SeenFromDomain, dir = old,
                    NEW logon \in SUBSET {LogonNode}
             PROVE  \/ env.sd.dacl = "null" /\ check = "Allowed"
                    \/ check = first_decision(env.sd.aces, {0, EveryoneNode, OtherOrgNode} \cup RealGroups({})
                                                           \cup result.history \cup logon)
  BY DEF LogonDecisionIsCertain
<1> DEFINE certain == {0, EveryoneNode} \cup result.history \cup GroupsOf(result.memberships)
<1>1. check = allowed_to_authenticate(env.sd, certain)
      /\ result.trusted /\ GroupsOf(result.memberships) = ClaimedGroups \cup {OtherOrgNode}
  BY DEF TrustedInv
<1>2. ClaimedGroups = RealGroups({})
  <2>1. {} \in SUBSET Unmeasured(dir.dom[0])
    OBVIOUS
  <2> QED
    BY <1>1, <2>1, RealWhateverPasses DEF RealForTrusted
<1>3. {0, EveryoneNode, OtherOrgNode} \cup RealGroups({}) \cup result.history \cup logon = certain \cup logon
  BY <1>1, <1>2
<1> HIDE DEF certain
<1>4. CASE env.sd.dacl = "null"
  BY <1>1, <1>4 DEF allowed_to_authenticate
<1>5. CASE env.sd.dacl # "null"
  BY <1>1, <1>3, <1>5, DecisionIsFor
<1> QED
  BY <1>4, <1>5

\* The invariants hold together.
LEMMA LogonInvAlways == Spec => [](ResolveInv /\ MemberInv /\ LogonInv)
<1>1. ResolveInv /\ MemberInv /\ LogonInv /\ [Next]_vars => LogonInv'
  BY LogonStep
<1> QED
  BY <1>1, MemberInvAlways, LogonInit, PTL DEF Spec

\* For every number of groups and every directory: an answer without a marker has exactly the
\* groups of the token.  Of an account of the configured domain or of the server, whatever read
\* failed, lay outside the base or saw the directory before or after a change
\* (resolve_memberships_inner, assemble_memberships, token_groups_gaps, token_size_gap,
\* local_account_principal); of an account of a trusted forest, seen from a whole domain, the global
\* and universal groups that pass the SID filtering of the trust and the groups of the configured
\* domain that these SIDs are in, whatever an unmeasured trust would let through (resolve_account,
\* select_cross_domain_memberships, apply_sid_filtering).
THEOREM TokenIsWholeOrMarkedAlways == Spec => []TokenIsWholeOrMarked
<1>1. ResolveInv /\ MemberInv /\ LogonInv => TokenIsWholeOrMarked
  BY TokenFollows, TrustedTokenFollows DEF ResolveInv, MemberInv, LogonInv, TokenIsWholeOrMarked
<1> QED
  BY <1>1, LogonInvAlways, PTL

\* For every security descriptor of the target: a decided Selective Authentication check is the
\* decision for the real token, with or without the SIDs only the logon adds
\* (allowed_to_authenticate, check_for_target).
THEOREM LogonDecisionIsCertainAlways == Spec => []LogonDecisionIsCertain
<1>1. ResolveInv /\ MemberInv /\ LogonInv => LogonDecisionIsCertain
  BY LogonFollows DEF ResolveInv, LogonInv
<1> QED
  BY <1>1, LogonInvAlways, PTL
============================================================================
