----------------------------- MODULE AuditProofs -----------------------------
(***************************************************************************)
(* Proofs about Audit: first the reads (RemoteReads), for lists of every   *)
(* length, every page size and every bound on pages and rounds; then what  *)
(* a result leaves open, the surfaces, the findings and the store, for any *)
(* number of objects, ACEs and outcomes.                                   *)
(***************************************************************************)
EXTENDS Audit, FiniteSetTheorems, NaturalsInduction, TLAPS

----------------------------------------------------------------------------
(* Sequences.                                                              *)

\* A set that holds 0 and with a number below m the next one holds all numbers up to m.
LEMMA CountsUp ==
    ASSUME NEW m \in Nat, NEW T, 0 \in T, \A k \in 0 .. m - 1 : k \in T => k + 1 \in T
    PROVE  \A k \in 0 .. m : k \in T
<1> DEFINE F == {k \in 0 .. m : k \notin T}
           R == OpToRel(<, Nat)
<1> SUFFICES ASSUME F # {} PROVE FALSE
  OBVIOUS
<1>0. F \subseteq Nat
  OBVIOUS
<1>1. IsWellFoundedOn(R, Nat) /\ \A x, y \in Nat : y < x => <<y, x>> \in R
  BY NatLessThanWellFounded DEF OpToRel
<1>2. PICK x \in F : \A y \in F : ~ (<<y, x>> \in R)
  <2> HIDE DEF F, R
  <2> QED
    BY <1>0, <1>1, WFMin
<1>3. x \in 0 .. m /\ x \notin T /\ x # 0
  BY <1>2
<1>4. x - 1 \in 0 .. m - 1 /\ x - 1 \in 0 .. m /\ (x - 1) + 1 = x /\ x - 1 < x /\ x \in Nat /\ x - 1 \in Nat
  BY <1>3
<1>5. x - 1 \in F
  BY <1>3, <1>4
<1> HIDE DEF R
<1> QED
  BY <1>1, <1>2, <1>4, <1>5

\* One more entry of a list is looked at.
NextKept(s, keep, k, r) == IF k \in keep THEN Append(r, s[k]) ELSE r
KeptUpTo(f, s, keep, m) == f[0] = <<>> /\ \A k \in 1 .. m : f[k] = NextKept(s, keep, k, f[k - 1])

LEMMA NextKeptIs ==
    ASSUME NEW S, NEW s \in Seq(S), NEW keep, NEW k \in 1 .. Len(s), NEW r \in Seq(S)
    PROVE  NextKept(s, keep, k, r) \in Seq(S)
<1>1. s[k] \in S
  OBVIOUS
<1> QED
  BY <1>1 DEF NextKept

\* The recursion of Kept has a solution,
LEMMA KeptExists ==
    ASSUME NEW S, NEW s \in Seq(S), NEW keep
    PROVE  \E f \in [0 .. Len(s) -> Seq(S)] : KeptUpTo(f, s, keep, Len(s))
<1> DEFINE m == Len(s)
           T == {i \in 0 .. m : \E f \in [0 .. i -> Seq(S)] : KeptUpTo(f, s, keep, i)}
<1>0. m \in Nat
  OBVIOUS
<1>1. 0 \in T
  <2> DEFINE f == [k \in 0 .. 0 |-> <<>>]
  <2>1. f \in [0 .. 0 -> Seq(S)] /\ KeptUpTo(f, s, keep, 0)
    BY DEF KeptUpTo
  <2> HIDE DEF f
  <2> QED
    BY <1>0, <2>1
<1>2. ASSUME NEW i \in 0 .. m - 1, i \in T PROVE i + 1 \in T
  <2>1. PICK f \in [0 .. i -> Seq(S)] : KeptUpTo(f, s, keep, i)
    BY <1>2
  <2> DEFINE x == NextKept(s, keep, i + 1, f[i])
             h == [k \in 0 .. i + 1 |-> IF k = i + 1 THEN x ELSE f[k]]
  <2>2. i + 1 \in 1 .. Len(s) /\ f[i] \in Seq(S) /\ i \in Nat
    BY <1>0
  <2>3. x \in Seq(S)
    BY <2>2, NextKeptIs
  <2> HIDE DEF x
  <2>4. h \in [0 .. i + 1 -> Seq(S)] /\ h[0] = f[0] /\ h[i + 1] = x /\ \A k \in 0 .. i : h[k] = f[k]
    BY <2>1, <2>2, <2>3
  <2> HIDE DEF h
  <2>5. \A k \in 1 .. i + 1 : h[k] = NextKept(s, keep, k, h[k - 1])
    <3> SUFFICES ASSUME NEW k \in 1 .. i + 1 PROVE h[k] = NextKept(s, keep, k, h[k - 1])
      OBVIOUS
    <3>1. CASE k = i + 1
      <4>1. h[k] = x /\ h[k - 1] = f[i]
        BY <2>2, <2>4, <3>1
      <4> QED
        BY <3>1, <4>1 DEF x
    <3>2. CASE k # i + 1
      <4>1. k \in 1 .. i /\ k \in 0 .. i /\ k - 1 \in 0 .. i
        BY <3>2
      <4> QED
        BY <2>1, <2>4, <4>1 DEF KeptUpTo
    <3> QED
      BY <3>1, <3>2
  <2>6. KeptUpTo(h, s, keep, i + 1)
    BY <2>1, <2>4, <2>5 DEF KeptUpTo
  <2>7. i + 1 \in 0 .. m
    BY <1>0
  <2> QED
    BY <2>4, <2>6, <2>7
<1> HIDE DEF T, m
<1>3. \A k \in 0 .. m : k \in T
  BY <1>0, <1>1, <1>2, CountsUp
<1>4. m \in T
  BY <1>0, <1>3
<1> QED
  BY <1>4 DEF T, m

\* and Kept is what it says.
LEMMA KeptSolves ==
    ASSUME NEW S, NEW s \in Seq(S), NEW keep
    PROVE  \E f : f[Len(s)] = Kept(s, keep) /\ KeptUpTo(f, s, keep, Len(s))
<1> DEFINE m == Len(s)
           Def(f) == [i \in 0 .. m |-> IF i = 0 THEN <<>> ELSE NextKept(s, keep, i, f[i - 1])]
           L == CHOOSE f : f = Def(f)
<1>0. m \in Nat
  OBVIOUS
<1>1. PICK f \in [0 .. m -> Seq(S)] : KeptUpTo(f, s, keep, m)
  BY KeptExists
<1>2. f = Def(f)
  <2>1. \A i \in 0 .. m : f[i] = IF i = 0 THEN <<>> ELSE NextKept(s, keep, i, f[i - 1])
    BY <1>0, <1>1 DEF KeptUpTo
  <2> QED
    BY <1>1, <2>1
<1>3. L = Def(L)
  <2> HIDE DEF Def
  <2> QED
    BY <1>2
<1>4. Kept(s, keep) = L[m]
  BY DEF Kept, NextKept
<1> HIDE DEF L, m
<1>5. KeptUpTo(L, s, keep, m)
  BY <1>0, <1>3 DEF KeptUpTo
<1> QED
  BY <1>4, <1>5 DEF m

\* Kept takes entries of the list and no other, all of them only if it is the list.
IsKept(r, s, keep, n) ==
    /\ r \in Seq({s[i] : i \in 1 .. n}) /\ Len(r) <= n /\ (Len(r) = n => \A i \in 1 .. n : r[i] = s[i])
    /\ \A j \in 1 .. Len(r) : \E i \in 1 .. n : i \in keep /\ r[j] = s[i]
    /\ \A i \in 1 .. n : i \in keep => \E j \in 1 .. Len(r) : r[j] = s[i]
LEMMA KeptStep ==
    ASSUME NEW s, NEW keep, NEW n \in Nat, NEW r, IsKept(r, s, keep, n)
    PROVE  IsKept(NextKept(s, keep, n + 1, r), s, keep, n + 1)
<1> DEFINE A == {s[i] : i \in 1 .. n}
           B == {s[i] : i \in 1 .. n + 1}
<1>1. r \in Seq(A) /\ Len(r) \in Nat /\ Len(r) <= n /\ A \subseteq B /\ s[n + 1] \in B
  BY DEF IsKept
<1> HIDE DEF A, B
<1>2. r \in Seq(B)
  BY <1>1
<1>3. CASE n + 1 \in keep
  <2> DEFINE q == Append(r, s[n + 1])
  <2>1. NextKept(s, keep, n + 1, r) = q
    BY <1>3 DEF NextKept
  <2>2. q \in Seq(B) /\ Len(q) = Len(r) + 1 /\ q[Len(r) + 1] = s[n + 1] /\ \A j \in 1 .. Len(r) : q[j] = r[j]
    BY <1>1, <1>2
  <2> HIDE DEF q
  <2>3. Len(q) = n + 1 => \A i \in 1 .. n + 1 : q[i] = s[i]
    <3> SUFFICES ASSUME Len(q) = n + 1, NEW i \in 1 .. n + 1 PROVE q[i] = s[i]
      OBVIOUS
    <3>1. Len(r) = n
      BY <1>1, <2>2
    <3>2. CASE i = n + 1
      BY <2>2, <3>1, <3>2
    <3>3. CASE i # n + 1
      <4>1. i \in 1 .. n
        BY <3>3
      <4> QED
        BY <2>2, <3>1, <4>1 DEF IsKept
    <3> QED
      BY <3>2, <3>3
  <2>4. \A j \in 1 .. Len(q) : \E i \in 1 .. n + 1 : i \in keep /\ q[j] = s[i]
    <3> SUFFICES ASSUME NEW j \in 1 .. Len(q) PROVE \E i \in 1 .. n + 1 : i \in keep /\ q[j] = s[i]
      OBVIOUS
    <3>1. CASE j = Len(r) + 1
      BY <1>3, <2>2, <3>1
    <3>2. CASE j # Len(r) + 1
      <4>1. j \in 1 .. Len(r)
        BY <1>1, <2>2, <3>2
      <4>2. PICK i \in 1 .. n : i \in keep /\ r[j] = s[i]
        BY <4>1 DEF IsKept
      <4>3. i \in 1 .. n + 1
        OBVIOUS
      <4> QED
        BY <2>2, <4>1, <4>2, <4>3
    <3> QED
      BY <3>1, <3>2
  <2>5. \A i \in 1 .. n + 1 : i \in keep => \E j \in 1 .. Len(q) : q[j] = s[i]
    <3> SUFFICES ASSUME NEW i \in 1 .. n + 1, i \in keep PROVE \E j \in 1 .. Len(q) : q[j] = s[i]
      OBVIOUS
    <3>1. CASE i = n + 1
      <4>1. Len(r) + 1 \in 1 .. Len(q)
        BY <1>1, <2>2
      <4> QED
        BY <2>2, <3>1, <4>1
    <3>2. CASE i # n + 1
      <4>1. i \in 1 .. n
        BY <3>2
      <4>2. PICK j \in 1 .. Len(r) : r[j] = s[i]
        BY <4>1 DEF IsKept
      <4>3. j \in 1 .. Len(q)
        BY <1>1, <2>2
      <4> QED
        BY <2>2, <4>2, <4>3
    <3> QED
      BY <3>1, <3>2
  <2>6. Len(q) <= n + 1
    BY <1>1, <2>2
  <2> QED
    BY <2>1, <2>2, <2>3, <2>4, <2>5, <2>6 DEF IsKept, B
<1>4. CASE n + 1 \notin keep
  <2>1. NextKept(s, keep, n + 1, r) = r
    BY <1>4 DEF NextKept
  <2>2. Len(r) <= n + 1 /\ Len(r) # n + 1
    BY <1>1
  <2>3. \A j \in 1 .. Len(r) : \E i \in 1 .. n + 1 : i \in keep /\ r[j] = s[i]
    <3>1. \A i \in 1 .. n : i \in 1 .. n + 1
      OBVIOUS
    <3> QED
      BY <3>1 DEF IsKept
  <2>4. \A i \in 1 .. n + 1 : i \in keep => i \in 1 .. n
    BY <1>4
  <2>5. \A i \in 1 .. n + 1 : i \in keep => \E j \in 1 .. Len(r) : r[j] = s[i]
    BY <2>4 DEF IsKept
  <2> QED
    BY <1>2, <2>1, <2>2, <2>3, <2>5 DEF IsKept, B
<1> QED
  BY <1>3, <1>4

LEMMA KeptIs ==
    ASSUME NEW S, NEW s \in Seq(S), NEW keep
    PROVE  IsKept(Kept(s, keep), s, keep, Len(s))
<1> DEFINE m == Len(s)
<1>0. m \in Nat
  OBVIOUS
<1>1. PICK f : f[Len(s)] = Kept(s, keep) /\ KeptUpTo(f, s, keep, Len(s))
  BY KeptSolves
<1> DEFINE T == {n \in 0 .. m : IsKept(f[n], s, keep, n)}
<1>2. 0 \in T
  <2>1. IsKept(<<>>, s, keep, 0)
    BY DEF IsKept
  <2> QED
    BY <1>0, <1>1, <2>1 DEF KeptUpTo
<1>3. ASSUME NEW n \in 0 .. m - 1, n \in T PROVE n + 1 \in T
  <2>1. n \in Nat /\ n + 1 \in 1 .. m /\ n + 1 \in 0 .. m /\ (n + 1) - 1 = n
    BY <1>0
  <2>2. f[n + 1] = NextKept(s, keep, n + 1, f[n])
    BY <1>1, <2>1 DEF KeptUpTo
  <2>3. IsKept(f[n], s, keep, n)
    BY <1>3
  <2>4. IsKept(f[n + 1], s, keep, n + 1)
    BY <2>1, <2>2, <2>3, KeptStep
  <2> QED
    BY <2>1, <2>4
<1> HIDE DEF T, m
<1>4. \A k \in 0 .. m : k \in T
  BY <1>0, <1>2, <1>3, CountsUp
<1>5. m \in T
  BY <1>0, <1>4
<1> QED
  BY <1>1, <1>5 DEF T, m

\* Lists of equal length with equal entries are equal.
LEMMA SameList ==
    ASSUME NEW S, NEW s \in Seq(S), NEW T, NEW t \in Seq(T), Len(s) = Len(t), \A i \in 1 .. Len(t) : s[i] = t[i]
    PROVE  s = t
<1>1. s = [i \in 1 .. Len(s) |-> s[i]] /\ t = [i \in 1 .. Len(t) |-> t[i]]
  OBVIOUS
<1> QED
  BY <1>1

\* A list as the assumptions have it.
LEMMA ListIs ==
    ASSUME NEW s, IsList(s)
    PROVE  Len(s) \in Nat /\ DOMAIN s = 1 .. Len(s) /\ Range(s) = {s[i] : i \in 1 .. Len(s)}
<1>1. s \in Seq(Range(s))
  BY DEF IsList
<1>2. Len(s) \in Nat /\ DOMAIN s = 1 .. Len(s)
  BY <1>1
<1> QED
  BY <1>2 DEF Range
LEMMA AppendIsList ==
    ASSUME NEW s, IsList(s), NEW x
    PROVE  /\ IsList(Append(s, x)) /\ Len(Append(s, x)) = Len(s) + 1
           /\ Append(s, x)[Len(s) + 1] = x /\ \A i \in 1 .. Len(s) : Append(s, x)[i] = s[i]
<1> DEFINE R == Range(s) \cup {x}
           t == Append(s, x)
<1>1. s \in Seq(R)
  <2>1. s \in Seq(Range(s))
    BY DEF IsList
  <2> QED
    BY <2>1
<1>2. t \in Seq(R) /\ Len(t) = Len(s) + 1 /\ t[Len(s) + 1] = x /\ \A i \in 1 .. Len(s) : t[i] = s[i]
  BY <1>1
<1> HIDE DEF t
<1>3. t \in Seq({t[i] : i \in 1 .. Len(t)})
  BY <1>2
<1>4. Range(t) = {t[i] : i \in 1 .. Len(t)}
  BY <1>2 DEF Range
<1> QED
  BY <1>2, <1>3, <1>4 DEF IsList, t

\* What is readable in a list.
LEMMA ReadableIs ==
    ASSUME NEW s, IsList(s)
    PROVE  /\ IsList(Readable(s)) /\ Len(Readable(s)) <= Len(s) /\ (Len(Readable(s)) = Len(s) => Readable(s) = s)
           /\ \A j \in 1 .. Len(Readable(s)) : \E i \in 1 .. Len(s) : s[i].readable /\ Readable(s)[j] = s[i]
           /\ Ids(Readable(s)) = {s[i].id : i \in {k \in 1 .. Len(s) : s[k].readable}}
           /\ AllReadable(s) => Ids(Readable(s)) = Ids(s)
<1> DEFINE keep == {i \in DOMAIN s : s[i].readable}
           r == Kept(s, keep)
           A == {s[i] : i \in 1 .. Len(s)}
<1>1. s \in Seq(Range(s)) /\ Len(s) \in Nat /\ DOMAIN s = 1 .. Len(s)
  BY ListIs DEF IsList
<1>2. \A i \in 1 .. Len(s) : i \in keep <=> s[i].readable
  BY <1>1
<1>3. Readable(s) = r
  BY DEF Readable
<1> HIDE DEF keep
<1>4. IsKept(r, s, keep, Len(s))
  BY <1>1, KeptIs
<1> HIDE DEF r
<1>5. r \in Seq(A) /\ Len(r) \in Nat /\ DOMAIN r = 1 .. Len(r)
  BY <1>4 DEF IsKept
<1>6. IsList(r)
  <2>1. r \in Seq({r[j] : j \in 1 .. Len(r)})
    BY <1>5
  <2>2. Range(r) = {r[j] : j \in 1 .. Len(r)}
    BY <1>5 DEF Range
  <2> QED
    BY <2>1, <2>2 DEF IsList
<1>7. Len(r) = Len(s) => r = s
  <2> SUFFICES ASSUME Len(r) = Len(s) PROVE r = s
    OBVIOUS
  <2>1. \A i \in 1 .. Len(s) : r[i] = s[i]
    BY <1>4 DEF IsKept
  <2> HIDE DEF A
  <2> QED
    BY <1>1, <1>5, <2>1, SameList
<1>8. \A j \in 1 .. Len(r) : \E i \in 1 .. Len(s) : s[i].readable /\ r[j] = s[i]
  BY <1>2, <1>4 DEF IsKept
<1>9. \A i \in 1 .. Len(s) : s[i].readable => \E j \in 1 .. Len(r) : r[j] = s[i]
  BY <1>2, <1>4 DEF IsKept
<1>10. Ids(r) = {s[i].id : i \in {k \in 1 .. Len(s) : s[k].readable}}
  <2> DEFINE I == {s[i].id : i \in {k \in 1 .. Len(s) : s[k].readable}}
  <2>0. Ids(r) = {r[j].id : j \in 1 .. Len(r)}
    BY <1>5 DEF Ids
  <2>1. ASSUME NEW j \in 1 .. Len(r) PROVE r[j].id \in I
    <3>1. PICK i \in 1 .. Len(s) : s[i].readable /\ r[j] = s[i]
      BY <1>8
    <3> QED
      BY <3>1
  <2>2. ASSUME NEW i \in 1 .. Len(s), s[i].readable PROVE s[i].id \in Ids(r)
    <3>1. PICK j \in 1 .. Len(r) : r[j] = s[i]
      BY <1>9, <2>2
    <3> QED
      BY <2>0, <3>1
  <2> QED
    BY <2>0, <2>1, <2>2
<1>11. AllReadable(s) => Ids(r) = Ids(s)
  BY <1>1, <1>10 DEF AllReadable, Ids
<1>12. Len(r) <= Len(s)
  BY <1>4 DEF IsKept
<1>13. IsList(Readable(s)) /\ Len(Readable(s)) <= Len(s) /\ (Len(Readable(s)) = Len(s) => Readable(s) = s)
  BY <1>3, <1>6, <1>7, <1>12
<1>14. \A j \in 1 .. Len(Readable(s)) : \E i \in 1 .. Len(s) : s[i].readable /\ Readable(s)[j] = s[i]
  BY <1>3, <1>8
<1>15. Ids(Readable(s)) = {s[i].id : i \in {k \in 1 .. Len(s) : s[k].readable}}
  BY <1>3, <1>10
<1>16. AllReadable(s) => Ids(Readable(s)) = Ids(s)
  BY <1>3, <1>11
<1> QED
  BY <1>13, <1>14, <1>15, <1>16

----------------------------------------------------------------------------
(* Calls.                                                                  *)

\* What the other machine has is well formed.
LEMMA ServerIs ==
    ASSUME JobInv
    PROVE  job \in DOMAIN Plan /\ IsServer(job, srv) /\ \A api : IsList(Source(api))
<1>1. job \in DOMAIN Plan /\ IsServer(job, srv)
  BY JobsAssumption DEF JobInv
<1>2. IsList(srv.entries) /\ IsList(srv.second)
  BY <1>1 DEF IsServer
<1> QED
  BY <1>1, <1>2 DEF Source

\* Every plan is a list of calls.
LEMMA PlanIs ==
    ASSUME NEW j \in DOMAIN Plan
    PROVE  Plan[j] \in Seq(Apis) /\ Len(Plan[j]) \in Nat
<1>1. j \in {"table", "members", "ranged", "tokens", "query", "forest", "trusts", "accounts", "sam", "account",
             "shares", "policy", "dfs", "identity"}
  BY DEF Plan
<1>2. /\ Plan["table"] = <<"NetLocalGroupEnum">> /\ Plan["members"] = <<"group", "backlink", "primary">>
      /\ Plan["ranged"] = <<"memberOf">> /\ Plan["tokens"] = <<"tokenGroups">> /\ Plan["query"] = <<"query">>
      /\ Plan["forest"] = <<"root", "domains">> /\ Plan["trusts"] = <<"trusts">>
      /\ Plan["accounts"] = <<"NetUserEnum", "NetGroupEnum", "NetLocalGroupEnum1">>
      /\ Plan["sam"] = <<"NetUserGetGroups", "NetUserGetLocalGroups">>
      /\ Plan["account"] = <<"NetUserGetInfo", "NetUserGetGroups">> /\ Plan["shares"] = <<"NetShareEnum">>
      /\ Plan["policy"] = <<"RegConnect", "RegOpen">> /\ Plan["dfs"] = <<"final_unc_path", "NetDfsGetClientInfo">>
      /\ Plan["identity"] = <<>>
  BY DEF Plan
<1>3. /\ {"NetLocalGroupEnum", "group", "backlink", "primary", "memberOf", "tokenGroups", "query", "root", "domains",
          "trusts", "NetUserEnum", "NetGroupEnum", "NetLocalGroupEnum1"} \subseteq Apis
      /\ {"NetUserGetGroups", "NetUserGetLocalGroups", "NetUserGetInfo", "NetShareEnum", "RegConnect", "RegOpen",
          "final_unc_path", "NetDfsGetClientInfo"} \subseteq Apis
  BY DEF Apis, EnumApis, WholeApis, PagedApis, SingleApis
<1>4. /\ Plan["table"] \in Seq(Apis) /\ Plan["ranged"] \in Seq(Apis) /\ Plan["tokens"] \in Seq(Apis)
      /\ Plan["query"] \in Seq(Apis) /\ Plan["trusts"] \in Seq(Apis) /\ Plan["shares"] \in Seq(Apis)
      /\ Plan["identity"] \in Seq(Apis)
  BY <1>2, <1>3
<1>5. /\ Plan["forest"] \in Seq(Apis) /\ Plan["sam"] \in Seq(Apis) /\ Plan["account"] \in Seq(Apis)
      /\ Plan["policy"] \in Seq(Apis) /\ Plan["dfs"] \in Seq(Apis)
  BY <1>2, <1>3
<1>6. Plan["members"] \in Seq(Apis) /\ Plan["accounts"] \in Seq(Apis)
  BY <1>2, <1>3
<1>7. Plan[j] \in Seq(Apis)
  BY <1>1, <1>4, <1>5, <1>6
<1> QED
  BY <1>7

\* A call that returns: the next one starts from nothing.
LEMMA ReturnsKeeps ==
    ASSUME ReadInv, NEW apis, "evaluate" \notin apis, Calling(apis), NEW ok, NEW s, Returns(ok, s),
           ok /\ Head(calls) \in WholeApis =>
               s = Source(Head(calls)) /\ (Head(calls) \in {"NetLocalGroupEnum", "tokenGroups"} => AllReadable(s))
    PROVE  ReadInv'
<1> DEFINE x == [ok |-> ok, s |-> s]
<1>1. /\ outs' = Append(outs, x) /\ calls' = Tail(calls) /\ from' = 1 /\ turns' = 0 /\ got' = <<>>
      /\ UNCHANGED <<job, srv, rows, gaps, list>>
  BY DEF Returns
<1>2. /\ calls \in Seq(Apis) /\ calls # <<>> /\ IsList(outs) /\ Len(outs) \in Nat
  BY ListIs DEF ReadInv, SeqInv, Calling, IsList
<1>3. job \in DOMAIN Plan /\ Plan[job] \in Seq(Apis) /\ \A api : IsList(Source(api))
  BY ServerIs, PlanIs DEF ReadInv
<1>4. Head(calls) = calls[1] /\ calls # <<"evaluate">>
  BY <1>2 DEF Calling
<1>5. Len(outs) + Len(calls) = Len(Plan[job]) /\ \A k \in 1 .. Len(calls) : calls[k] = Plan[job][Len(outs) + k]
  BY <1>4 DEF ReadInv, CallsInv
<1>6. /\ calls' \in Seq(Apis) /\ Len(calls') = Len(calls) - 1 /\ Len(calls) \in Nat /\ Len(calls) > 0
      /\ \A k \in 1 .. Len(calls) - 1 : calls'[k] = calls[k + 1]
  BY <1>1, <1>2
<1>7. IsList(outs') /\ Len(outs') = Len(outs) + 1 /\ outs'[Len(outs) + 1] = x /\ \A i \in 1 .. Len(outs) : outs'[i] = outs[i]
  BY <1>1, <1>2, AppendIsList
<1>8. Source(Head(calls)) = Source(Plan[job][Len(outs) + 1]) /\ Head(calls) = Plan[job][Len(outs) + 1]
  BY <1>4, <1>5, <1>6
<1>9. JobInv' /\ SeqInv'
  BY <1>1, <1>6, <1>7 DEF ReadInv, JobInv, SeqInv, IsList
<1>10. CallsInv'
  <2>0. Len(outs) \in Nat /\ Len(calls) \in Nat /\ Len(outs') = Len(outs) + 1 /\ Len(calls') = Len(calls) - 1
    BY <1>2, <1>6, <1>7
  <2>1. Len(outs') + Len(calls') = Len(Plan[job])
    <3>1. Len(outs) + Len(calls) = Len(Plan[job])
      BY <1>5
    <3>2. (Len(outs) + 1) + (Len(calls) - 1) = Len(outs) + Len(calls)
      BY <2>0
    <3> QED
      BY <2>0, <3>1, <3>2
  <2>2. \A k \in 1 .. Len(calls') : calls'[k] = Plan[job][Len(outs') + k]
    <3> SUFFICES ASSUME NEW k \in 1 .. Len(calls') PROVE calls'[k] = Plan[job][Len(outs') + k]
      OBVIOUS
    <3>1. k \in 1 .. Len(calls) - 1 /\ k + 1 \in 1 .. Len(calls) /\ Len(outs') + k = Len(outs) + (k + 1)
      BY <1>2, <1>6, <1>7
    <3> QED
      BY <1>5, <1>6, <3>1
  <2> QED
    BY <1>1, <2>1, <2>2 DEF CallsInv
<1>11. \A api : Source(api)' = Source(api)
  BY <1>1 DEF Source
<1>12. GotInv'
  <2>1. \A src : IsList(src) => IsFront(<<>>, 1, src)
    <3> SUFFICES ASSUME NEW src, IsList(src) PROVE IsFront(<<>>, 1, src)
      OBVIOUS
    <3>1. Len(src) \in Nat
      BY ListIs
    <3> QED
      BY <3>1 DEF IsFront
  <2>2. AllReadable(<<>>)
    BY DEF AllReadable
  <2> QED
    BY <1>1, <1>3, <1>11, <2>1, <2>2 DEF GotInv
<1>13. OutsInv'
  <2> SUFFICES ASSUME NEW k \in 1 .. Len(outs'), outs'[k].ok, Plan[job][k] \in WholeApis
               PROVE  /\ outs'[k].s = Source(Plan[job][k])
                      /\ Plan[job][k] \in {"NetLocalGroupEnum", "tokenGroups"} => AllReadable(outs'[k].s)
    BY <1>1, <1>11 DEF OutsInv
  <2>1. CASE k = Len(outs) + 1
    BY <1>7, <1>8, <2>1
  <2>2. CASE k # Len(outs) + 1
    <3>1. k \in 1 .. Len(outs)
      BY <1>2, <1>7, <2>2
    <3> QED
      BY <1>7, <3>1 DEF ReadInv, OutsInv
  <2> QED
    BY <2>1, <2>2
<1>14. RowsInv'
  BY <1>1 DEF ReadInv, RowsInv, GroupRow, ShareRow, PolicyRow, ChainRow, ShareDaclScan
<1> QED
  BY <1>9, <1>10, <1>12, <1>13, <1>14 DEF ReadInv

\* A call that goes on with what it has so far.
LEMMA GoesOnKeeps ==
    ASSUME ReadInv, NEW apis, "evaluate" \notin apis, Calling(apis), NEW s, NEW n, GoesOn(s, n),
           Head(calls) \in WholeApis =>
               IsFront(s, n, Source(Head(calls))) /\ (Head(calls) = "NetLocalGroupEnum" => AllReadable(s))
    PROVE  ReadInv'
<1>1. got' = s /\ from' = n /\ turns' = turns + 1 /\ UNCHANGED <<job, srv, calls, outs, rows, gaps, list>>
  BY DEF GoesOn
<1>2. \A api : Source(api)' = Source(api)
  BY <1>1 DEF Source
<1>3. JobInv' /\ SeqInv' /\ CallsInv'
  BY <1>1 DEF ReadInv, JobInv, SeqInv, CallsInv
<1>4. GotInv'
  BY <1>1, <1>2 DEF GotInv
<1>5. OutsInv'
  BY <1>1, <1>2 DEF ReadInv, OutsInv
<1>6. RowsInv'
  BY <1>1 DEF ReadInv, RowsInv, GroupRow, ShareRow, PolicyRow, ChainRow, ShareDaclScan
<1> QED
  BY <1>3, <1>4, <1>5, <1>6 DEF ReadInv

\* The front of a list grows entry by entry and page by page, up to the whole list.
LEMMA FrontGrows ==
    ASSUME NEW src, IsList(src), NEW n, NEW s, IsFront(s, n, src), n <= Len(src)
    PROVE  IsFront(Append(s, src[n]), n + 1, src)
<1> DEFINE R == Range(src)
           t == Append(s, src[n])
<1>1. src \in Seq(R) /\ Len(src) \in Nat
  BY DEF IsList
<1>2. s \in Seq(R) /\ Len(s) = n - 1 /\ n \in 1 .. Len(src) + 1 /\ \A i \in 1 .. n - 1 : s[i] = src[i]
  BY DEF IsFront
<1> HIDE DEF R
<1>3. src[n] \in R /\ n \in Nat
  BY <1>1, <1>2
<1>4. t \in Seq(R) /\ Len(t) = n /\ t[n] = src[n] /\ \A i \in 1 .. n - 1 : t[i] = s[i]
  BY <1>2, <1>3
<1> HIDE DEF t
<1>5. \A i \in 1 .. n : t[i] = src[i]
  BY <1>2, <1>3, <1>4
<1>6. (n + 1) - 1 = n /\ n + 1 \in 1 .. Len(src) + 1
  BY <1>1, <1>2, <1>3
<1> QED
  BY <1>4, <1>5, <1>6 DEF IsFront, R, t
LEMMA FrontAndPage ==
    ASSUME NEW src, IsList(src), NEW n, NEW s, IsFront(s, n, src), NEW m \in n - 1 .. Len(src)
    PROVE  IsFront(s \o SubSeq(src, n, m), m + 1, src)
<1> DEFINE R == Range(src)
           p == SubSeq(src, n, m)
           t == s \o p
<1>1. src \in Seq(R) /\ Len(src) \in Nat
  BY DEF IsList
<1>2. s \in Seq(R) /\ Len(s) = n - 1 /\ n \in 1 .. Len(src) + 1 /\ \A i \in 1 .. n - 1 : s[i] = src[i]
  BY DEF IsFront
<1>3. n \in Nat /\ m \in Nat /\ n >= 1
  BY <1>1, <1>2
<1> HIDE DEF R
<1>4. p \in Seq(R) /\ Len(p) = m - (n - 1) /\ \A i \in 1 .. m - (n - 1) : p[i] = src[(n - 1) + i]
  <2>1. \A i \in n .. m : src[i] \in R
    BY <1>1, <1>3
  <2>2. p = [i \in 1 .. (m - n) + 1 |-> src[(i + n) - 1]]
    BY <1>1, <1>3
  <2>3. (m - n) + 1 = m - (n - 1) /\ (m - n) + 1 \in Nat
    BY <1>1, <1>3
  <2> HIDE DEF p
  <2>4. \A i \in 1 .. (m - n) + 1 : (i + n) - 1 \in n .. m /\ (i + n) - 1 = (n - 1) + i
    BY <1>3
  <2> QED
    BY <2>1, <2>2, <2>3, <2>4
<1> HIDE DEF p
<1>5. t \in Seq(R) /\ Len(t) = m /\ (\A i \in 1 .. n - 1 : t[i] = s[i]) /\ \A i \in n .. m : t[i] = p[i - (n - 1)]
  BY <1>2, <1>3, <1>4
<1> HIDE DEF t
<1>6. \A i \in 1 .. m : t[i] = src[i]
  <2> SUFFICES ASSUME NEW i \in 1 .. m PROVE t[i] = src[i]
    OBVIOUS
  <2>1. CASE i <= n - 1
    BY <1>2, <1>3, <1>5, <2>1
  <2>2. CASE i > n - 1
    <3>1. i \in n .. m /\ i - (n - 1) \in 1 .. m - (n - 1) /\ (n - 1) + (i - (n - 1)) = i
      BY <1>3, <2>2
    <3> QED
      BY <1>4, <1>5, <3>1
  <2> QED
    BY <1>3, <2>1, <2>2
<1>7. (m + 1) - 1 = m /\ m + 1 \in 1 .. Len(src) + 1
  BY <1>1, <1>3
<1> QED
  BY <1>5, <1>6, <1>7 DEF IsFront, R, t, p
LEMMA FrontIsWhole ==
    ASSUME NEW src, IsList(src), NEW n, NEW s, IsFront(s, n, src), n > Len(src)
    PROVE  s = src
<1>1. src \in Seq(Range(src)) /\ Len(src) \in Nat
  BY DEF IsList
<1>2. s \in Seq(Range(src)) /\ Len(s) = n - 1 /\ n \in 1 .. Len(src) + 1 /\ \A i \in 1 .. n - 1 : s[i] = src[i]
  BY DEF IsFront
<1>3. n - 1 = Len(src)
  BY <1>1, <1>2
<1> QED
  BY <1>1, <1>2, <1>3, SameList

\* Paged searches.
LEMMA PagedKeeps ==
    ASSUME ReadInv, PagedSearch
    PROVE  ReadInv'
<1> DEFINE src == Source(Head(calls))
<1>1. Calling(PagedApis) /\ "evaluate" \notin PagedApis /\ IsList(src) /\ Head(calls) \in PagedApis
  BY ServerIs DEF PagedSearch, PagedApis, ReadInv, Calling
<1>2. Head(calls) \notin {"NetLocalGroupEnum", "tokenGroups"} /\ "query" \notin WholeApis
  BY <1>1 DEF PagedApis, WholeApis, SingleApis
<1>3. Head(calls) \in WholeApis => IsFront(got, from, src)
  BY <1>1 DEF ReadInv, GotInv, Calling
<1> HIDE DEF src
<1>4. CASE Returns(FALSE, <<>>)
  BY <1>1, <1>4, ReturnsKeeps
<1>5. CASE from > Len(src) /\ Returns(TRUE, got)
  <2>1. Head(calls) \in WholeApis => got = src
    BY <1>1, <1>3, <1>5, FrontIsWhole
  <2> QED
    BY <1>1, <1>2, <1>5, <2>1, ReturnsKeeps DEF src
<1>6. CASE from <= Len(src) /\ Head(calls) = "query" /\ Returns(TRUE, Append(got, src[from]))
  BY <1>1, <1>2, <1>6, ReturnsKeeps
<1>7. CASE from <= Len(src) /\ GoesOn(Append(got, src[from]), from + 1)
  <2>1. Head(calls) \in WholeApis => IsFront(Append(got, src[from]), from + 1, src)
    BY <1>1, <1>3, <1>7, FrontGrows
  <2> QED
    BY <1>1, <1>2, <1>7, <2>1, GoesOnKeeps DEF src
<1> QED
  BY <1>4, <1>5, <1>6, <1>7 DEF PagedSearch, paged_end, src

\* The page a server answers with.
LEMMA ChunkIs ==
    ASSUME ReadInv, IsFront(got, from, srv.entries)
    PROVE  /\ from + PageSize > Len(srv.entries) => IsFront(got \o Chunk(from), Len(srv.entries) + 1, srv.entries)
           /\ ~ (from + PageSize > Len(srv.entries)) => IsFront(got \o Chunk(from), from + PageSize, srv.entries)
<1>1. IsList(srv.entries)
  BY ServerIs DEF ReadInv, IsServer
<1>2. Len(srv.entries) \in Nat /\ PageSize \in Nat /\ PageSize >= 1
  BY <1>1, ListIs, RemoteAssumption
<1>3. from \in 1 .. Len(srv.entries) + 1 /\ from \in Nat
  BY <1>2 DEF IsFront
<1>4. ASSUME from + PageSize > Len(srv.entries)
      PROVE  IsFront(got \o Chunk(from), Len(srv.entries) + 1, srv.entries)
  <2>1. Chunk(from) = SubSeq(srv.entries, from, Len(srv.entries))
    <3>1. ~ (from + PageSize - 1 < Len(srv.entries))
      BY <1>2, <1>3, <1>4
    <3> QED
      BY <3>1 DEF Chunk
  <2>2. Len(srv.entries) \in from - 1 .. Len(srv.entries)
    BY <1>2, <1>3
  <2> QED
    BY <1>1, <2>1, <2>2, FrontAndPage
<1>5. ASSUME ~ (from + PageSize > Len(srv.entries))
      PROVE  IsFront(got \o Chunk(from), from + PageSize, srv.entries)
  <2> DEFINE m == from + PageSize - 1
  <2>1. Chunk(from) = SubSeq(srv.entries, from, m)
    <3>1. m < Len(srv.entries)
      BY <1>2, <1>3, <1>5
    <3> QED
      BY <3>1 DEF Chunk
  <2>2. m \in from - 1 .. Len(srv.entries) /\ m + 1 = from + PageSize
    BY <1>2, <1>3, <1>5
  <2> HIDE DEF m
  <2>3. IsFront(got \o SubSeq(srv.entries, from, m), m + 1, srv.entries)
    BY <1>1, <2>2, FrontAndPage
  <2> QED
    BY <2>1, <2>2, <2>3
<1> QED
  BY <1>4, <1>5

\* Range retrieval.
LEMMA RangeKeeps ==
    ASSUME ReadInv, RangeRetrieval
    PROVE  ReadInv'
<1> DEFINE apis == {"memberOf"}
<1>1. Calling(apis) /\ "evaluate" \notin apis /\ Head(calls) = "memberOf" /\ calls # <<>>
  BY DEF RangeRetrieval, Calling
<1>2. Head(calls) \in WholeApis /\ Source(Head(calls)) = srv.entries /\ IsList(srv.entries)
  BY <1>1, ServerIs DEF WholeApis, Source, ReadInv, IsServer
<1>3. IsFront(got, from, srv.entries)
  BY <1>1, <1>2 DEF ReadInv, GotInv
<1> HIDE DEF apis
<1>4. CASE Returns(FALSE, <<>>)
  BY <1>1, <1>4, ReturnsKeeps
<1>5. CASE from + PageSize > Len(srv.entries) /\ Returns(TRUE, got \o Chunk(from))
  <2>1. IsFront(got \o Chunk(from), Len(srv.entries) + 1, srv.entries) /\ Len(srv.entries) + 1 > Len(srv.entries)
    BY <1>2, <1>3, <1>5, ChunkIs, ListIs
  <2>2. got \o Chunk(from) = srv.entries
    BY <1>2, <2>1, FrontIsWhole
  <2> QED
    BY <1>1, <1>2, <1>5, <2>2, ReturnsKeeps
<1>6. CASE ~ (from + PageSize > Len(srv.entries)) /\ GoesOn(got \o Chunk(from), from + PageSize)
  <2>1. IsFront(got \o Chunk(from), from + PageSize, srv.entries)
    BY <1>3, <1>6, ChunkIs
  <2> QED
    BY <1>1, <1>2, <1>6, <2>1, GoesOnKeeps
<1> QED
  BY <1>4, <1>5, <1>6 DEF RangeRetrieval

\* What two readable lists make together is readable.
LEMMA ReadableTogether ==
    ASSUME NEW S, NEW s \in Seq(S), NEW t \in Seq(S), AllReadable(s), AllReadable(t)
    PROVE  AllReadable(s \o t)
<1> SUFFICES ASSUME NEW i \in DOMAIN (s \o t) PROVE (s \o t)[i].readable
  BY DEF AllReadable
<1>1. i \in 1 .. Len(s) + Len(t) /\ Len(s) \in Nat /\ Len(t) \in Nat
  OBVIOUS
<1>2. CASE i <= Len(s)
  <2>1. i \in DOMAIN s /\ (s \o t)[i] = s[i]
    BY <1>1, <1>2
  <2> QED
    BY <2>1 DEF AllReadable
<1>3. CASE i > Len(s)
  <2>1. i - Len(s) \in DOMAIN t /\ (s \o t)[i] = t[i - Len(s)]
    BY <1>1, <1>3
  <2> QED
    BY <2>1 DEF AllReadable
<1> QED
  BY <1>1, <1>2, <1>3

\* The names of local groups, page by page.
LEMMA LocalNamesKeeps ==
    ASSUME ReadInv, LocalGroupNames
    PROVE  ReadInv'
<1> DEFINE apis == {"NetLocalGroupEnum"}
<1>1. Calling(apis) /\ "evaluate" \notin apis /\ Head(calls) = "NetLocalGroupEnum" /\ calls # <<>>
  BY DEF LocalGroupNames, Calling
<1>2. Head(calls) \in WholeApis /\ Source(Head(calls)) = srv.entries /\ IsList(srv.entries)
  BY <1>1, ServerIs DEF WholeApis, Source, ReadInv, IsServer
<1>3. IsFront(got, from, srv.entries) /\ AllReadable(got)
  BY <1>1, <1>2 DEF ReadInv, GotInv
<1> DEFINE R == Range(srv.entries)
<1>4. got \in Seq(R) /\ from \in Nat /\ Len(srv.entries) \in Nat /\ srv.entries \in Seq(R) /\ from \in 1 .. Len(srv.entries) + 1
  BY <1>2, <1>3 DEF IsFront, IsList
<1> HIDE DEF apis, R
<1>5. PageSize \in Nat /\ PageSize >= 1
  BY RemoteAssumption
<1>6. CASE Returns(FALSE, <<>>)
  BY <1>1, <1>6, ReturnsKeeps
<1>7. ASSUME NEW n \in {0, PageSize}, NEW page, page = (IF n = 0 THEN <<>> ELSE Chunk(from)), AllReadable(page),
             \/ from + n > Len(srv.entries) /\ Returns(TRUE, got \o page)
             \/ ~ (from + n > Len(srv.entries)) /\ GoesOn(got \o page, from + n)
      PROVE  ReadInv'
  <2>1. /\ from + n > Len(srv.entries) => IsFront(got \o page, Len(srv.entries) + 1, srv.entries)
        /\ ~ (from + n > Len(srv.entries)) => IsFront(got \o page, from + n, srv.entries)
    <3>1. CASE n = 0
      <4>1. got \o page = got
        BY <1>4, <1>7, <3>1
      <4>2. from + n > Len(srv.entries) => from = Len(srv.entries) + 1
        BY <1>4, <3>1
      <4>3. from + n = from
        BY <1>4, <3>1
      <4> QED
        BY <1>3, <4>1, <4>2, <4>3
    <3>2. CASE n = PageSize /\ n # 0
      BY <1>3, <1>7, <3>2, ChunkIs
    <3> QED
      BY <1>7, <3>1, <3>2
  <2>2. page \in Seq(R)
    <3>1. CASE n = 0
      BY <1>7, <3>1
    <3>2. CASE n # 0
      <4>1. PICK m : m = (IF from + PageSize - 1 < Len(srv.entries) THEN from + PageSize - 1 ELSE Len(srv.entries))
        OBVIOUS
      <4>2. m \in Nat /\ m <= Len(srv.entries) /\ m \in from - 1 .. Len(srv.entries)
        BY <1>4, <1>5, <4>1
      <4>3. page = SubSeq(srv.entries, from, m)
        BY <1>7, <3>2, <4>1 DEF Chunk
      <4>4. SubSeq(srv.entries, from, m) \in Seq(R)
        BY <1>4, <4>2
      <4> QED
        BY <4>3, <4>4
    <3> QED
      BY <3>1, <3>2
  <2>3. AllReadable(got \o page)
    BY <1>3, <1>4, <1>7, <2>2, ReadableTogether
  <2>4. CASE from + n > Len(srv.entries) /\ Returns(TRUE, got \o page)
    <3>1. Len(srv.entries) + 1 > Len(srv.entries)
      BY <1>4
    <3>2. got \o page = srv.entries
      BY <1>2, <2>1, <2>4, <3>1, FrontIsWhole
    <3> QED
      BY <1>1, <1>2, <2>3, <2>4, <3>2, ReturnsKeeps
  <2>5. CASE ~ (from + n > Len(srv.entries)) /\ GoesOn(got \o page, from + n)
    BY <1>1, <1>2, <2>1, <2>3, <2>5, GoesOnKeeps
  <2> QED
    BY <1>7, <2>4, <2>5
<1> QED
  BY <1>6, <1>7 DEF LocalGroupNames

\* The lists of accounts, which promise nothing.
LEMMA EnumKeeps ==
    ASSUME ReadInv, EnumeratePage
    PROVE  ReadInv'
<1>1. Calling(EnumApis) /\ "evaluate" \notin EnumApis /\ Head(calls) \in EnumApis
  BY DEF EnumeratePage, EnumApis, Calling
<1>2. Head(calls) \notin WholeApis
  BY <1>1 DEF EnumApis, WholeApis, PagedApis, SingleApis
<1>3. \A s : Returns(TRUE, s) => ReadInv'
  BY <1>1, <1>2, ReturnsKeeps
<1>4. Returns(FALSE, <<>>) => ReadInv'
  BY <1>1, <1>2, ReturnsKeeps
<1>5. \A s, n : GoesOn(s, n) => ReadInv'
  BY <1>1, <1>2, GoesOnKeeps
<1> QED
  BY <1>3, <1>4, <1>5 DEF EnumeratePage

\* One request, one answer.
LEMMA SingleKeeps ==
    ASSUME ReadInv, SingleCall
    PROVE  ReadInv'
<1>1. Calling(SingleApis) /\ "evaluate" \notin SingleApis /\ Head(calls) \in SingleApis
  BY DEF SingleCall, SingleApis, Calling
<1>2. Head(calls) \notin {"NetLocalGroupEnum", "tokenGroups"}
  BY <1>1 DEF SingleApis
<1>3. Returns(TRUE, Source(Head(calls))) => ReadInv'
  BY <1>1, <1>2, ReturnsKeeps
<1>4. Returns(FALSE, <<>>) => ReadInv'
  BY <1>1, <1>2, ReturnsKeeps
<1> QED
  BY <1>3, <1>4 DEF SingleCall

\* tokenGroups.
LEMMA SidListKeeps ==
    ASSUME ReadInv, ConstructedSidList
    PROVE  ReadInv'
<1> DEFINE apis == {"tokenGroups"}
<1>1. Calling(apis) /\ "evaluate" \notin apis /\ Head(calls) = "tokenGroups"
  BY DEF ConstructedSidList, Calling
<1>2. Source(Head(calls)) = srv.entries
  BY <1>1 DEF Source
<1> HIDE DEF apis
<1>3. PICK ok \in BOOLEAN : Returns(ok /\ AllReadable(srv.entries), IF ok THEN srv.entries ELSE <<>>)
  BY DEF ConstructedSidList
<1>4. CASE ok
  <2>1. PICK whole : whole = (ok /\ AllReadable(srv.entries))
    OBVIOUS
  <2>2. Returns(whole, srv.entries)
    BY <1>3, <1>4, <2>1
  <2>3. whole => AllReadable(srv.entries)
    BY <2>1
  <2> QED
    BY <1>1, <1>2, <2>2, <2>3, ReturnsKeeps
<1>5. CASE ~ ok
  <2>1. Returns(FALSE, <<>>)
    <3>1. (ok /\ AllReadable(srv.entries)) = FALSE
      BY <1>5
    <3> QED
      BY <1>3, <1>5, <3>1
  <2> QED
    BY <1>1, <2>1, ReturnsKeeps
<1> QED
  BY <1>4, <1>5

\* The list a job returns is not part of what it has read.
LEMMA ListKeeps ==
    ASSUME ReadInv, calls # <<"evaluate">>, UNCHANGED <<job, srv, calls, from, turns, got, outs, rows, gaps>>
    PROVE  ReadInv'
<1>1. \A api : Source(api)' = Source(api)
  BY DEF Source
<1>2. JobInv' /\ SeqInv' /\ CallsInv'
  BY DEF ReadInv, JobInv, SeqInv, CallsInv
<1>3. GotInv' /\ OutsInv'
  BY <1>1 DEF ReadInv, GotInv, OutsInv
<1>4. RowsInv'
  BY DEF ReadInv, RowsInv, GroupRow, ShareRow, PolicyRow, ChainRow, ShareDaclScan
<1> QED
  BY <1>2, <1>3, <1>4 DEF ReadInv

\* A timeout.
LEMMA TimesOutKeeps ==
    ASSUME ReadInv, TimesOut
    PROVE  ReadInv' /\ list'.st = "Err"
<1>1. Head(calls) # "evaluate" /\ list' = Failed /\ UNCHANGED <<job, srv, calls, from, turns, got, outs, rows, gaps>>
  BY DEF TimesOut, Calling, LdapApis, PagedApis
<1>2. calls # <<"evaluate">>
  BY <1>1
<1> QED
  BY <1>1, <1>2, ListKeeps DEF Failed

----------------------------------------------------------------------------
(* What is read one by one.                                                *)

\* When the calls of a job are over every call of its plan has an outcome.
LEMMA DoneIs ==
    ASSUME ReadInv, Done
    PROVE  /\ job \in DOMAIN Plan /\ IsServer(job, srv) /\ calls # <<"evaluate">> /\ Len(outs) = Len(Plan[job])
           /\ \A k \in 1 .. Len(Plan[job]) : outs[k].ok /\ Plan[job][k] \in WholeApis =>
                 /\ outs[k].s = Source(Plan[job][k])
                 /\ Plan[job][k] \in {"NetLocalGroupEnum", "tokenGroups"} => AllReadable(outs[k].s)
<1>1. job \in DOMAIN Plan /\ IsServer(job, srv)
  BY ServerIs DEF ReadInv
<1>2. calls = <<>> /\ calls # <<"evaluate">> /\ Len(calls) = 0
  BY DEF Done
<1>3. Len(outs) + Len(calls) = Len(Plan[job])
  BY <1>2 DEF ReadInv, CallsInv
<1>4. IsList(outs)
  BY DEF ReadInv, SeqInv, IsList
<1>5. Len(outs) \in Nat
  BY <1>4, ListIs
<1>6. Len(outs) = Len(Plan[job])
  BY <1>2, <1>3, <1>5
<1> QED
  BY <1>1, <1>2, <1>6 DEF ReadInv, OutsInv

\* The answers of the jobs with one call,
LEMMA FirstAnswer ==
    ASSUME ReadInv, Done, job \in {"table", "shares", "ranged", "tokens", "trusts", "members"}, outs[1].ok
    PROVE  outs[1].s = srv.entries /\ (job \in {"table", "tokens"} => AllReadable(srv.entries))
<1>1. /\ Plan["table"] = <<"NetLocalGroupEnum">> /\ Plan["shares"] = <<"NetShareEnum">> /\ Plan["ranged"] = <<"memberOf">>
      /\ Plan["tokens"] = <<"tokenGroups">> /\ Plan["trusts"] = <<"trusts">>
      /\ Plan["members"] = <<"group", "backlink", "primary">>
  BY DEF Plan
<1>2. Len(Plan[job]) >= 1 /\ Len(Plan[job]) \in Nat
  BY <1>1
<1>3. Plan[job][1] \in {"NetLocalGroupEnum", "NetShareEnum", "memberOf", "tokenGroups", "trusts", "group"}
  BY <1>1
<1>4. Plan[job][1] \in WholeApis /\ Source(Plan[job][1]) = srv.entries
  BY <1>3 DEF WholeApis, SingleApis, Source
<1>5. job \in {"table", "tokens"} => Plan[job][1] \in {"NetLocalGroupEnum", "tokenGroups"}
  BY <1>1
<1>6. 1 \in 1 .. Len(Plan[job])
  BY <1>2
<1> QED
  BY <1>4, <1>5, <1>6, DoneIs

\* and of the other ones.
LEMMA SecondAnswer ==
    ASSUME ReadInv, Done
    PROVE  /\ job = "members" /\ outs[2].ok => outs[2].s = srv.entries
           /\ job = "members" /\ outs[3].ok => outs[3].s = srv.second
           /\ job = "sam" /\ outs[2].ok => outs[2].s = srv.second
           /\ job = "account" /\ outs[2].ok => outs[2].s = srv.entries
<1>1. /\ Plan["members"] = <<"group", "backlink", "primary">> /\ Plan["sam"] = <<"NetUserGetGroups", "NetUserGetLocalGroups">>
      /\ Plan["account"] = <<"NetUserGetInfo", "NetUserGetGroups">>
  BY DEF Plan
<1>2. /\ Plan["members"][2] = "backlink" /\ Plan["members"][3] = "primary" /\ Plan["sam"][2] = "NetUserGetLocalGroups"
      /\ Plan["account"][2] = "NetUserGetGroups"
      /\ 2 \in 1 .. Len(Plan["members"]) /\ 3 \in 1 .. Len(Plan["members"]) /\ 2 \in 1 .. Len(Plan["sam"])
      /\ 2 \in 1 .. Len(Plan["account"])
  BY <1>1
<1>3. {"backlink", "primary", "NetUserGetLocalGroups", "NetUserGetGroups"} \subseteq WholeApis
  BY DEF WholeApis, PagedApis, SingleApis
<1>4. /\ Source("backlink") = srv.entries /\ Source("primary") = srv.second /\ Source("NetUserGetLocalGroups") = srv.second
      /\ Source("NetUserGetGroups") = srv.entries
  BY DEF Source
<1>5. CASE job = "members"
  BY <1>2, <1>3, <1>4, <1>5, DoneIs
<1>6. CASE job = "sam"
  BY <1>2, <1>3, <1>4, <1>6, DoneIs
<1>7. CASE job = "account"
  BY <1>2, <1>3, <1>4, <1>7, DoneIs
<1> QED
  BY <1>5, <1>6, <1>7

\* Reading one more thing leaves the calls alone.
LEMMA RowKeeps ==
    ASSUME ReadInv, Done, NEW x, rows' = Append(rows, x), UNCHANGED <<job, srv, calls, from, turns, got, outs, list>>
    PROVE  /\ JobInv' /\ SeqInv' /\ CallsInv' /\ GotInv' /\ OutsInv'
           /\ Len(rows) \in Nat /\ Len(rows') = Len(rows) + 1 /\ rows'[Len(rows) + 1] = x
           /\ \A i \in 1 .. Len(rows) : rows'[i] = rows[i]
<1>1. \A api : Source(api)' = Source(api)
  BY DEF Source
<1>2. IsList(rows)
  BY DEF ReadInv, SeqInv, IsList
<1>3. IsList(rows') /\ Len(rows) \in Nat /\ Len(rows') = Len(rows) + 1 /\ rows'[Len(rows) + 1] = x
      /\ \A i \in 1 .. Len(rows) : rows'[i] = rows[i]
  BY <1>2, AppendIsList, ListIs
<1>4. JobInv' /\ SeqInv'
  BY <1>3 DEF ReadInv, JobInv, SeqInv, IsList
<1>5. CallsInv'
  BY DEF ReadInv, CallsInv, Done
<1>6. GotInv' /\ OutsInv'
  BY <1>1 DEF ReadInv, GotInv, OutsInv
<1> QED
  BY <1>3, <1>4, <1>5, <1>6

LEMMA ReadGroupKeeps ==
    ASSUME ReadInv, ReadGroup
    PROVE  ReadInv'
<1>1. Done /\ job = "table" /\ outs[1].ok /\ Len(rows) < Len(outs[1].s) /\ UNCHANGED <<job, srv, calls, from, turns, got, outs, list>>
  BY DEF ReadGroup
<1>2. outs[1].s = srv.entries
  BY <1>1, FirstAnswer
<1> DEFINE g == srv.entries[Len(rows) + 1]
<1>3. PICK how \in Lookups, ok \in BOOLEAN :
        LET read == how \in {"Alias", "Foreign"} /\ ok IN
        /\ rows' = Append(rows, [id |-> IF how = "Foreign" THEN ForeignSid(g.id) ELSE g.id,
                                 alias |-> how \in {"Alias", "Foreign"}, read |-> read, foreign |-> how = "Foreign",
                                 members |-> IF read THEN Ids(Readable(srv.members[g.id])) ELSE {}])
        /\ gaps' = IF read /\ AllReadable(srv.members[g.id]) THEN gaps ELSE gaps \cup {g.id}
  BY <1>2 DEF ReadGroup
<1>4. PICK alias \in BOOLEAN, foreign \in BOOLEAN, read \in BOOLEAN :
        alias = (how \in {"Alias", "Foreign"}) /\ foreign = (how = "Foreign") /\ read = (alias /\ ok)
  <2>1. \E alias \in BOOLEAN : alias = (how \in {"Alias", "Foreign"})
    <3>1. CASE how \in {"Alias", "Foreign"}
      <4>1. TRUE = (how \in {"Alias", "Foreign"})
        BY <3>1
      <4> QED
        BY <4>1
    <3>2. CASE how \notin {"Alias", "Foreign"}
      <4>1. FALSE = (how \in {"Alias", "Foreign"})
        BY <3>2
      <4> QED
        BY <4>1
    <3> QED
      BY <3>1, <3>2
  <2>2. \E foreign \in BOOLEAN : foreign = (how = "Foreign")
    BY Zenon
  <2>3. \A alias \in BOOLEAN : \E read \in BOOLEAN : read = (alias /\ ok)
    BY Zenon
  <2> QED
    BY <2>1, <2>2, <2>3, Zenon
<1> DEFINE x == [id |-> IF foreign THEN ForeignSid(g.id) ELSE g.id, alias |-> alias, read |-> read, foreign |-> foreign,
                 members |-> IF read THEN Ids(Readable(srv.members[g.id])) ELSE {}]
<1>5. rows' = Append(rows, x) /\ gaps' = IF read /\ AllReadable(srv.members[g.id]) THEN gaps ELSE gaps \cup {g.id}
  BY <1>3, <1>4
<1> HIDE DEF g
<1>6. /\ x.foreign \in BOOLEAN /\ x.id = (IF x.foreign THEN ForeignSid(g.id) ELSE g.id)
      /\ x.read => x.alias /\ x.members = Ids(Readable(srv.members[g.id]))
      /\ g.id \notin gaps' => x.read /\ AllReadable(srv.members[g.id])
  BY <1>4, <1>5
<1> HIDE DEF x
<1>7. /\ JobInv' /\ SeqInv' /\ CallsInv' /\ GotInv' /\ OutsInv'
      /\ Len(rows) \in Nat /\ Len(rows') = Len(rows) + 1 /\ rows'[Len(rows) + 1] = x
      /\ \A i \in 1 .. Len(rows) : rows'[i] = rows[i]
  BY <1>1, <1>5, RowKeeps
<1>8. gaps \subseteq gaps'
  BY <1>5
<1>9. \A i \in 1 .. Len(rows) : GroupRow(rows[i], srv.entries[i])
  BY <1>1 DEF ReadInv, RowsInv
<1>10. \A i \in 1 .. Len(rows') : GroupRow(rows[i], srv.entries[i])'
  <2> SUFFICES ASSUME NEW i \in 1 .. Len(rows') PROVE GroupRow(rows[i], srv.entries[i])'
    OBVIOUS
  <2>1. CASE i = Len(rows) + 1
    BY <1>1, <1>6, <1>7, <2>1 DEF GroupRow, g
  <2>2. CASE i # Len(rows) + 1
    <3>1. i \in 1 .. Len(rows)
      BY <1>7, <2>2
    <3>2. GroupRow(rows[i], srv.entries[i]) /\ rows'[i] = rows[i]
      BY <1>7, <1>9, <3>1
    <3> QED
      BY <1>1, <1>8, <3>2 DEF GroupRow
  <2> QED
    BY <2>1, <2>2
<1>11. Len(rows') <= Len(srv.entries)
  <2>1. IsList(srv.entries)
    BY ServerIs DEF ReadInv, IsServer
  <2>2. Len(srv.entries) \in Nat /\ Len(rows) < Len(srv.entries)
    BY <1>1, <1>2, <2>1, ListIs
  <2> QED
    BY <1>7, <2>2
<1>12. RowsInv'
  BY <1>1, <1>10, <1>11 DEF RowsInv
<1> QED
  BY <1>7, <1>12 DEF ReadInv

LEMMA ReadChainKeeps ==
    ASSUME ReadInv, ReadChain
    PROVE  ReadInv'
<1>1. Done /\ job = "sam" /\ outs[2].ok /\ Len(rows) < Len(outs[2].s) /\ UNCHANGED <<job, srv, calls, from, turns, got, outs, list>>
  BY DEF ReadChain
<1> DEFINE g == outs[2].s[Len(rows) + 1]
<1>2. PICK ok \in BOOLEAN :
         rows' = Append(rows, [id |-> g.id, read |-> g.readable,
                               path |-> IF ok THEN local_group_path(srv.members[g.id])
                                        ELSE [nodes |-> <<0>>, complete |-> FALSE, also_via |-> {}]])
  BY DEF ReadChain
<1> DEFINE x == [id |-> g.id, read |-> g.readable, path |-> IF ok THEN local_group_path(srv.members[g.id]) ELSE UnknownChain]
<1>3. rows' = Append(rows, x)
  BY <1>2 DEF UnknownChain
<1> HIDE DEF g
<1>4. x.id = g.id /\ x.path \in {UnknownChain, local_group_path(srv.members[x.id])}
  OBVIOUS
<1> HIDE DEF x
<1>5. /\ JobInv' /\ SeqInv' /\ CallsInv' /\ GotInv' /\ OutsInv'
      /\ Len(rows) \in Nat /\ Len(rows') = Len(rows) + 1 /\ rows'[Len(rows) + 1] = x
      /\ \A i \in 1 .. Len(rows) : rows'[i] = rows[i]
  BY <1>1, <1>3, RowKeeps
<1>6. x.id \in Ids(srv.second)
  <2>1. IsList(srv.second) /\ outs[2].s = srv.second
    BY <1>1, ServerIs, SecondAnswer DEF ReadInv, IsServer
  <2>2. DOMAIN srv.second = 1 .. Len(srv.second) /\ Len(srv.second) \in Nat /\ Len(rows) < Len(srv.second)
    BY <1>1, <2>1, ListIs
  <2>3. Len(rows) + 1 \in DOMAIN srv.second
    BY <1>5, <2>2
  <2> QED
    BY <1>4, <2>1, <2>3 DEF Ids, g
<1>7. \A i \in 1 .. Len(rows) : rows[i].id \in Ids(srv.second) /\ rows[i].path \in {UnknownChain, local_group_path(srv.members[rows[i].id])}
  BY <1>1 DEF ReadInv, RowsInv, ChainRow
<1>8. \A i \in 1 .. Len(rows') : rows'[i].id \in Ids(srv.second) /\ rows'[i].path \in {UnknownChain, local_group_path(srv.members[rows'[i].id])}
  <2> SUFFICES ASSUME NEW i \in 1 .. Len(rows')
               PROVE  rows'[i].id \in Ids(srv.second) /\ rows'[i].path \in {UnknownChain, local_group_path(srv.members[rows'[i].id])}
    OBVIOUS
  <2>1. CASE i = Len(rows) + 1
    BY <1>4, <1>5, <1>6, <2>1
  <2>2. CASE i # Len(rows) + 1
    <3>1. i \in 1 .. Len(rows)
      BY <1>5, <2>2
    <3>2. rows'[i] = rows[i]
      BY <1>5, <3>1
    <3> QED
      BY <1>7, <3>1, <3>2
  <2> QED
    BY <2>1, <2>2
<1>9. RowsInv'
  BY <1>1, <1>8 DEF RowsInv, ChainRow
<1> QED
  BY <1>5, <1>9 DEF ReadInv

LEMMA ReadShareKeeps ==
    ASSUME ReadInv, ReadShare
    PROVE  ReadInv'
<1>1. Done /\ job = "shares" /\ outs[1].ok /\ Len(rows) < Len(ShareNames) /\ UNCHANGED <<job, srv, calls, from, turns, got, outs, list>>
  BY DEF ReadShare
<1>2. outs[1].s = srv.entries
  BY <1>1, FirstAnswer
<1>3. PICK names : names = Readable(srv.entries)
  OBVIOUS
<1>4. IsList(names) /\ ShareNames = names /\ Len(names) \in Nat
  <2>1. IsList(srv.entries)
    BY ServerIs DEF ReadInv, IsServer
  <2>2. IsList(names)
    BY <1>3, <2>1, ReadableIs
  <2> QED
    BY <1>2, <1>3, <2>2, ListIs DEF ShareNames
<1> DEFINE s == names[Len(rows) + 1]
<1>5. PICK ok \in BOOLEAN :
         /\ rows' = Append(rows, IF ok THEN ShareDaclScan(s) ELSE UnreadShare(s))
         /\ gaps' = IF ok THEN gaps ELSE gaps \cup {s.id}
  BY <1>4 DEF ReadShare
<1>6. PICK x : x = (IF ok THEN ShareDaclScan(s) ELSE UnreadShare(s))
  OBVIOUS
<1> HIDE DEF s
<1>7. x = ShareDaclScan(s) \/ (x = UnreadShare(s) /\ s.id \in gaps')
  BY <1>5, <1>6
<1>8. /\ JobInv' /\ SeqInv' /\ CallsInv' /\ GotInv' /\ OutsInv'
      /\ Len(rows) \in Nat /\ Len(rows') = Len(rows) + 1 /\ rows'[Len(rows) + 1] = x
      /\ \A i \in 1 .. Len(rows) : rows'[i] = rows[i]
  BY <1>1, <1>5, <1>6, RowKeeps
<1>9. gaps \subseteq gaps'
  BY <1>5
<1>10. \A e : ShareDaclScan(e)' = ShareDaclScan(e)
  BY <1>1 DEF ShareDaclScan
<1>11. \A i \in 1 .. Len(rows) : ShareRow(rows[i], names[i])
  BY <1>1, <1>3 DEF ReadInv, RowsInv
<1>12. \A i \in 1 .. Len(rows') : ShareRow(rows[i], names[i])'
  <2> SUFFICES ASSUME NEW i \in 1 .. Len(rows') PROVE ShareRow(rows[i], names[i])'
    OBVIOUS
  <2>1. CASE i = Len(rows) + 1
    BY <1>7, <1>8, <1>10, <2>1 DEF ShareRow, s
  <2>2. CASE i # Len(rows) + 1
    <3>1. i \in 1 .. Len(rows)
      BY <1>8, <2>2
    <3>2. ShareRow(rows[i], names[i]) /\ rows'[i] = rows[i]
      BY <1>8, <1>11, <3>1
    <3> QED
      BY <1>9, <1>10, <3>2 DEF ShareRow
  <2> QED
    BY <2>1, <2>2
<1>13. Len(rows') <= Len(names)
  <2>1. Len(rows) < Len(names)
    BY <1>1, <1>4
  <2> QED
    BY <1>4, <1>8, <2>1
<1>14. Readable(srv.entries)' = names
  BY <1>1, <1>3
<1>15. RowsInv'
  BY <1>1, <1>12, <1>13, <1>14 DEF RowsInv
<1> QED
  BY <1>8, <1>15 DEF ReadInv

LEMMA QueryPolicyKeeps ==
    ASSUME ReadInv, QueryPolicy
    PROVE  ReadInv'
<1>1. Done /\ job = "policy" /\ Len(rows) < Len(srv.entries) /\ UNCHANGED <<job, srv, calls, from, turns, got, outs, list>>
  BY DEF QueryPolicy
<1> DEFINE v == srv.entries[Len(rows) + 1]
<1>2. PICK ok \in BOOLEAN : /\ rows' = Append(rows, [id |-> v.id, read |-> ok /\ v.readable])
                            /\ gaps' = IF ok /\ v.readable THEN gaps ELSE gaps \cup {v.id}
  BY DEF QueryPolicy
<1>3. PICK x : x = [id |-> v.id, read |-> ok /\ v.readable]
  OBVIOUS
<1> HIDE DEF v
<1>4. x.id = v.id /\ (x.read \/ v.id \in gaps')
  BY <1>2, <1>3
<1>5. /\ JobInv' /\ SeqInv' /\ CallsInv' /\ GotInv' /\ OutsInv'
      /\ Len(rows) \in Nat /\ Len(rows') = Len(rows) + 1 /\ rows'[Len(rows) + 1] = x
      /\ \A i \in 1 .. Len(rows) : rows'[i] = rows[i]
  BY <1>1, <1>2, <1>3, RowKeeps
<1>6. gaps \subseteq gaps'
  BY <1>2
<1>7. \A i \in 1 .. Len(rows) : PolicyRow(rows[i], srv.entries[i])
  BY <1>1 DEF ReadInv, RowsInv
<1>8. \A i \in 1 .. Len(rows') : PolicyRow(rows[i], srv.entries[i])'
  <2> SUFFICES ASSUME NEW i \in 1 .. Len(rows') PROVE PolicyRow(rows[i], srv.entries[i])'
    OBVIOUS
  <2>1. CASE i = Len(rows) + 1
    BY <1>1, <1>4, <1>5, <2>1 DEF PolicyRow, v
  <2>2. CASE i # Len(rows) + 1
    <3>1. i \in 1 .. Len(rows)
      BY <1>5, <2>2
    <3>2. PolicyRow(rows[i], srv.entries[i]) /\ rows'[i] = rows[i]
      BY <1>5, <1>7, <3>1
    <3> QED
      BY <1>1, <1>6, <3>2 DEF PolicyRow
  <2> QED
    BY <2>1, <2>2
<1>9. Len(rows') <= Len(srv.entries)
  <2>1. IsList(srv.entries)
    BY ServerIs DEF ReadInv, IsServer
  <2>2. Len(srv.entries) \in Nat
    BY <2>1, ListIs
  <2> QED
    BY <1>1, <1>5, <2>2
<1>10. RowsInv'
  BY <1>1, <1>8, <1>9 DEF RowsInv
<1> QED
  BY <1>5, <1>10 DEF ReadInv

----------------------------------------------------------------------------
(* What the jobs return.                                                   *)

\* A returned list that tells the truth.
SharesTrueOf(l, marked) ==
    /\ {s.id : s \in l} = Ids(Readable(srv.entries))
    /\ \A s \in l : s.dacl = "ReadFailed" => marked
    /\ \A s \in l : s.dacl \in {"Acl", "NullDacl"} /\ s.unsupported = 0 =>
          \E i \in DOMAIN srv.entries :
             LET e == srv.entries[i] IN
             /\ e.id = s.id
             /\ s.aces = (IF e.descriptor \in {"Absent", "NullPointer"} THEN <<>> ELSE srv.members[e.id])
             /\ (s.dacl = "NullDacl") = (e.descriptor \in {"Absent", "NullPointer"})
TellsTruth(l, marked) == /\ job = "shares" => SharesTrueOf(l, marked)
                         /\ job \in Promised /\ ~ marked => l = Truth
ListInv == list.st = "Ok" /\ ~ Undetectable => TellsTruth(list.list, list.marked)

\* The other machine and the answers are the same after the job has returned.
LEMMA DeliversKeeps ==
    ASSUME ReadInv, Done, NEW st, NEW l, NEW marked, Delivers(st, l, marked),
           st = "Ok" /\ ~ Undetectable => TellsTruth(l, marked)
    PROVE  ReadInv' /\ ListInv'
<1>1. list' = [st |-> st, list |-> l, marked |-> marked] /\ UNCHANGED <<job, srv, calls, from, turns, got, outs, rows, gaps>>
  BY DEF Delivers
<1>2. calls # <<"evaluate">>
  BY DEF Done
<1>3. ReadInv'
  BY <1>1, <1>2, ListKeeps
<1>4. Undetectable' = Undetectable
  BY <1>1 DEF Undetectable, account_domains, build_link
<1>5. Truth' = Truth
  BY <1>1 DEF Truth, Pairs
<1>6. SharesTrueOf(l, marked)' = SharesTrueOf(l, marked)
  BY <1>1 DEF SharesTrueOf
<1>7. TellsTruth(l, marked)' = TellsTruth(l, marked)
  BY <1>1, <1>5, <1>6 DEF TellsTruth
<1>8. list'.st = st /\ list'.list = l /\ list'.marked = marked
  BY <1>1
<1>9. list'.st = "Ok" /\ ~ Undetectable' => TellsTruth(l, marked)'
  BY <1>4, <1>7, <1>8
<1>10. ListInv'
  BY <1>8, <1>9 DEF ListInv, TellsTruth, SharesTrueOf
<1> QED
  BY <1>3, <1>10

LEMMA FailsKeeps ==
    ASSUME ReadInv, Done, Fails
    PROVE  ReadInv' /\ ListInv'
<1>1. Delivers("Err", {}, TRUE)
  BY DEF Fails
<1> QED
  BY <1>1, DeliversKeeps

\* A foreign row shows in account_domains; without another domain it is all there is.
LEMMA ForeignIsSeen ==
    ASSUME NEW D, TRUE \in D, D \subseteq BOOLEAN, ~ (Cardinality(D) > 1)
    PROVE  D = {TRUE}
<1> SUFFICES ASSUME FALSE \in D PROVE FALSE
  OBVIOUS
<1>1. D = {TRUE} \cup {FALSE}
  OBVIOUS
<1>2. IsFiniteSet({TRUE}) /\ Cardinality({TRUE}) = 1
  BY FS_Singleton
<1>3. Cardinality({TRUE} \cup {FALSE}) = Cardinality({TRUE}) + 1
  <2>1. FALSE \notin {TRUE}
    OBVIOUS
  <2> QED
    BY <1>2, <2>1, FS_AddElement
<1>4. PICK c : c = Cardinality(D)
  OBVIOUS
<1>5. c = 1 + 1
  <2>1. Cardinality(D) = Cardinality({TRUE} \cup {FALSE})
    BY <1>1, Zenon
  <2>2. Cardinality({TRUE}) + 1 = 1 + 1
    BY <1>2, Zenon
  <2> QED
    BY <1>3, <1>4, <2>1, <2>2, Zenon
<1>6. c > 1
  BY <1>5, SMT
<1> QED
  BY <1>4, <1>6

LEMMA TableReadKeeps ==
    ASSUME ReadInv, TableRead
    PROVE  ReadInv' /\ ListInv'
<1>1. Done /\ job = "table"
  BY DEF TableRead
<1>2. CASE ~ outs[1].ok
  BY <1>1, <1>2, FailsKeeps DEF TableRead
<1>3. CASE outs[1].ok
  <2> DEFINE l == {[id |-> rows[i].id, members |-> rows[i].members] : i \in {i \in DOMAIN rows : rows[i].read}}
  <2>1. PICK marked : marked = (gaps # {} \/ Cardinality(account_domains) > 1)
    OBVIOUS
  <2>2. Len(rows) = Len(outs[1].s) /\ Delivers("Ok", l, marked)
    BY <1>3, <2>1 DEF TableRead
  <2>3. outs[1].s = srv.entries /\ IsList(srv.entries) /\ IsServer(job, srv)
    BY <1>1, <1>3, FirstAnswer, ServerIs DEF ReadInv, IsServer
  <2>4. Len(srv.entries) \in Nat /\ DOMAIN srv.entries = 1 .. Len(srv.entries)
        /\ Range(srv.entries) = {srv.entries[i] : i \in 1 .. Len(srv.entries)}
    BY <2>3, ListIs
  <2>5. DOMAIN rows = 1 .. Len(srv.entries)
    <3>1. IsList(rows)
      BY DEF ReadInv, SeqInv, IsList
    <3> QED
      BY <2>2, <2>3, <3>1, ListIs
  <2>6. \A i \in 1 .. Len(srv.entries) : GroupRow(rows[i], srv.entries[i])
    BY <1>1, <2>2, <2>3 DEF ReadInv, RowsInv
  <2> HIDE DEF l
  <2>7. ASSUME ~ Undetectable, ~ marked PROVE l = Truth
    <3>1. gaps = {} /\ ~ (Cardinality(account_domains) > 1)
      BY <2>1, <2>7
    <3>2. account_domains # {TRUE}
      BY <1>1, <2>7 DEF Undetectable
    <3>3. ASSUME NEW i \in 1 .. Len(srv.entries)
          PROVE  /\ rows[i].read /\ rows[i].alias /\ AllReadable(srv.members[srv.entries[i].id])
                 /\ rows[i].foreign \in BOOLEAN
                 /\ rows[i].id = (IF rows[i].foreign THEN ForeignSid(srv.entries[i].id) ELSE srv.entries[i].id)
                 /\ rows[i].members = Ids(Readable(srv.members[srv.entries[i].id]))
      BY <2>6, <3>1 DEF GroupRow
    <3>4. account_domains \subseteq BOOLEAN
      BY <2>5, <3>3 DEF account_domains
    <3>5. TRUE \notin account_domains
      BY <3>1, <3>2, <3>4, ForeignIsSeen
    <3>6. ASSUME NEW i \in 1 .. Len(srv.entries)
          PROVE  rows[i].id = srv.entries[i].id /\ rows[i].members = Ids(srv.members[srv.entries[i].id])
      <4>1. srv.entries[i] \in Range(srv.entries)
        BY <2>4
      <4>2. ForeignSid(srv.entries[i].id) \notin srv.builtin /\ IsList(srv.members[srv.entries[i].id])
        BY <1>1, <2>3, <4>1 DEF IsServer
      <4>3. rows[i].foreign => FALSE
        <5> SUFFICES ASSUME rows[i].foreign PROVE FALSE
          OBVIOUS
        <5>1. rows[i].foreign = TRUE /\ rows[i].id = ForeignSid(srv.entries[i].id)
          BY <3>3
        <5>2. i \in {k \in DOMAIN rows : rows[k].id \notin srv.builtin /\ rows[k].alias}
          BY <2>5, <3>3, <4>2, <5>1
        <5>3. TRUE \in account_domains
          BY <5>1, <5>2 DEF account_domains
        <5> QED
          BY <3>5, <5>3
      <4>4. Ids(Readable(srv.members[srv.entries[i].id])) = Ids(srv.members[srv.entries[i].id])
        BY <3>3, <4>2, ReadableIs
      <4> QED
        BY <3>3, <4>3, <4>4
    <3>7. l = {[id |-> rows[i].id, members |-> rows[i].members] : i \in 1 .. Len(srv.entries)}
      BY <2>5, <3>3 DEF l
    <3>8. Truth = {[id |-> srv.entries[i].id, members |-> Ids(srv.members[srv.entries[i].id])] : i \in 1 .. Len(srv.entries)}
      BY <1>1, <2>4 DEF Truth, Pairs
    <3> QED
      BY <3>6, <3>7, <3>8
  <2>8. ~ Undetectable => TellsTruth(l, marked)
    BY <1>1, <2>7 DEF TellsTruth
  <2> QED
    BY <1>1, <2>2, <2>8, DeliversKeeps
<1> QED
  BY <1>2, <1>3

\* Members of the own domain: nothing readable is lost by the filter.
LEMMA FilterIs ==
    ASSUME NEW s, IsList(s), AllReadable(s)
    PROVE  Ids(Readable(filter_same_domain(s))) = Ids(filter_same_domain(s))
<1> DEFINE keep == {i \in DOMAIN s : s[i].own}
           r == Kept(s, keep)
<1>1. s \in Seq(Range(s)) /\ DOMAIN s = 1 .. Len(s)
  BY ListIs DEF IsList
<1> HIDE DEF keep
<1>2. IsKept(r, s, keep, Len(s))
  BY <1>1, KeptIs
<1>3. filter_same_domain(s) = r
  BY DEF filter_same_domain, keep
<1> HIDE DEF r
<1>4. r \in Seq({s[i] : i \in 1 .. Len(s)}) /\ DOMAIN r = 1 .. Len(r) /\ Len(r) \in Nat
  BY <1>2 DEF IsKept
<1>5. IsList(r)
  <2>1. r \in Seq({r[j] : j \in 1 .. Len(r)})
    BY <1>4
  <2>2. Range(r) = {r[j] : j \in 1 .. Len(r)}
    BY <1>4 DEF Range
  <2> QED
    BY <2>1, <2>2 DEF IsList
<1>6. AllReadable(r)
  <2> SUFFICES ASSUME NEW j \in 1 .. Len(r) PROVE r[j].readable
    BY <1>4 DEF AllReadable
  <2>1. PICK i \in 1 .. Len(s) : r[j] = s[i]
    BY <1>2 DEF IsKept
  <2> QED
    BY <1>1, <2>1 DEF AllReadable
<1> QED
  BY <1>3, <1>5, <1>6, ReadableIs

LEMMA MembersReadKeeps ==
    ASSUME ReadInv, MembersRead
    PROVE  ReadInv' /\ ListInv'
<1>1. Done /\ job = "members"
  BY DEF MembersRead
<1> DEFINE members == Ids(Readable(outs[2].s)) \cup Ids(Readable(filter_same_domain(outs[3].s)))
<1>2. CASE Fails
  BY <1>1, <1>2, FailsKeeps
<1>3. CASE Delivers("Ok", members, (~ outs[2].ok \/ ~ outs[3].ok) \/ universal_on_domain_bind)
  <2>1. PICK marked : marked = ((~ outs[2].ok \/ ~ outs[3].ok) \/ universal_on_domain_bind)
    OBVIOUS
  <2>2. Delivers("Ok", members, marked)
    BY <1>3, <2>1
  <2>3. IsServer(job, srv) /\ IsList(srv.entries) /\ IsList(srv.second)
    BY ServerIs DEF ReadInv, IsServer
  <2>4. ASSUME ~ Undetectable, ~ marked PROVE members = Truth
    <3>1. outs[2].ok /\ outs[3].ok /\ ~ (srv.scope = "Universal" /\ ~ srv.gc)
      BY <2>1, <2>4 DEF universal_on_domain_bind
    <3>2. outs[2].s = srv.entries /\ outs[3].s = srv.second
      BY <1>1, <3>1, SecondAnswer
    <3>3. AllReadable(srv.entries \o srv.second) /\ (srv.scope # "DomainLocal" \/ srv.elsewhere = {})
      BY <1>1, <2>4 DEF Undetectable
    <3>4. srv.elsewhere = {}
      BY <1>1, <2>3, <3>1, <3>3 DEF IsServer
    <3>5. AllReadable(srv.entries) /\ AllReadable(srv.second)
      <4>1. PICK a, b : a = srv.entries /\ b = srv.second
        OBVIOUS
      <4>2. a \in Seq(Range(a)) /\ b \in Seq(Range(b)) /\ AllReadable(a \o b)
        BY <2>3, <3>3, <4>1 DEF IsList
      <4>3. a \in Seq(Range(a) \cup Range(b)) /\ b \in Seq(Range(a) \cup Range(b))
        BY <4>2
      <4>4. \A i \in DOMAIN a : i \in DOMAIN (a \o b) /\ (a \o b)[i] = a[i]
        BY <4>3
      <4>5. \A i \in DOMAIN b : Len(a) + i \in DOMAIN (a \o b) /\ (a \o b)[Len(a) + i] = b[i]
        BY <4>3
      <4> QED
        BY <4>1, <4>2, <4>4, <4>5 DEF AllReadable
    <3>6. Ids(Readable(srv.entries)) = Ids(srv.entries)
      BY <2>3, <3>5, ReadableIs
    <3>7. Ids(Readable(filter_same_domain(srv.second))) = Ids(filter_same_domain(srv.second))
      BY <2>3, <3>5, FilterIs
    <3>8. Truth = Ids(srv.entries) \cup Ids(filter_same_domain(srv.second)) \cup srv.elsewhere
      BY <1>1 DEF Truth
    <3> QED
      BY <3>2, <3>4, <3>6, <3>7, <3>8
  <2>5. ~ Undetectable => TellsTruth(members, marked)
    BY <1>1, <2>4 DEF TellsTruth
  <2> QED
    BY <1>1, <2>2, <2>5, DeliversKeeps
<1> QED
  BY <1>2, <1>3 DEF MembersRead

LEMMA ListReadKeeps ==
    ASSUME ReadInv, ListRead
    PROVE  ReadInv' /\ ListInv'
<1>1. Done /\ job \in {"ranged", "tokens", "query", "trusts"}
  BY DEF ListRead
<1>2. CASE ~ outs[1].ok
  BY <1>1, <1>2, FailsKeeps DEF ListRead
<1>3. CASE outs[1].ok
  <2> DEFINE l == Ids(IF job \in {"query", "trusts"} THEN Readable(outs[1].s) ELSE outs[1].s)
  <2>1. Delivers("Ok", l, FALSE)
    BY <1>3 DEF ListRead
  <2>2. IsList(srv.entries)
    BY ServerIs DEF ReadInv, IsServer
  <2>3. ASSUME ~ Undetectable, job \in Promised PROVE l = Truth
    <3>1. job \in {"ranged", "tokens", "trusts"} /\ Truth = Ids(srv.entries)
      BY <1>1, <2>3 DEF Promised, Truth
    <3>2. outs[1].s = srv.entries
      BY <1>1, <1>3, <3>1, FirstAnswer
    <3>3. CASE job = "trusts"
      <4>1. AllReadable(srv.entries)
        BY <2>3, <3>3 DEF Undetectable
      <4>2. Ids(Readable(srv.entries)) = Ids(srv.entries)
        BY <2>2, <4>1, ReadableIs
      <4> QED
        BY <3>1, <3>2, <3>3, <4>2
    <3>4. CASE job # "trusts"
      BY <3>1, <3>2, <3>4
    <3> QED
      BY <3>3, <3>4
  <2> HIDE DEF l
  <2>4. ~ Undetectable => TellsTruth(l, FALSE)
    BY <1>1, <2>3 DEF TellsTruth
  <2> QED
    BY <1>1, <2>1, <2>4, DeliversKeeps
<1> QED
  BY <1>2, <1>3

\* Lists that are only offered.
LEMMA OffersKeep ==
    ASSUME ReadInv, ForestRead \/ AccountsRead \/ SamRead
    PROVE  ReadInv' /\ ListInv'
<1>1. Done /\ job \in {"forest", "accounts", "sam"}
  BY DEF ForestRead, AccountsRead, SamRead
<1>2. \A l, marked : TellsTruth(l, marked)
  BY <1>1 DEF TellsTruth, Promised
<1>3. \A l, marked : Delivers("Ok", l, marked) => ReadInv' /\ ListInv'
  BY <1>1, <1>2, DeliversKeeps
<1>4. CASE ForestRead
  BY <1>1, <1>3, <1>4, FailsKeeps DEF ForestRead
<1>5. CASE AccountsRead
  BY <1>3, <1>5 DEF AccountsRead
<1>6. CASE SamRead
  BY <1>3, <1>6 DEF SamRead
<1> QED
  BY <1>4, <1>5, <1>6

LEMMA AccountReadKeeps ==
    ASSUME ReadInv, AccountRead
    PROVE  ReadInv' /\ ListInv'
<1>1. Done /\ job = "account"
  BY DEF AccountRead
<1>2. PICK whole : whole = (outs[2].ok /\ AllReadable(outs[2].s))
  OBVIOUS
<1> DEFINE l == IF whole THEN Ids(outs[2].s) ELSE {}
<1>3. PICK marked : marked = (~ outs[1].ok \/ ~ whole)
  OBVIOUS
<1>4. Delivers("Ok", l, marked)
  BY <1>2, <1>3 DEF AccountRead
<1>5. ASSUME ~ marked PROVE l = Truth
  <2>1. whole /\ outs[2].ok
    BY <1>2, <1>3, <1>5
  <2>2. outs[2].s = srv.entries
    BY <1>1, <2>1, SecondAnswer
  <2> QED
    BY <1>1, <2>1, <2>2 DEF Truth
<1> HIDE DEF l
<1>6. TellsTruth(l, marked)
  BY <1>1, <1>5 DEF TellsTruth
<1> QED
  BY <1>1, <1>4, <1>6, DeliversKeeps

\* What a share's descriptor says, unless entries were left out.
LEMMA ScanIs ==
    ASSUME NEW e, IsList(srv.members[e.id]), NEW x, x = ShareDaclScan(e)
    PROVE  /\ x.id = e.id /\ x.dacl \in {"NoSecurityDescriptor", "NullDacl", "Acl"}
           /\ x.dacl \in {"Acl", "NullDacl"} /\ x.unsupported = 0 =>
                 /\ x.aces = (IF e.descriptor \in {"Absent", "NullPointer"} THEN <<>> ELSE srv.members[e.id])
                 /\ (x.dacl = "NullDacl") = (e.descriptor \in {"Absent", "NullPointer"})
<1> DEFINE m == srv.members[e.id]
<1>1. CASE e.descriptor = "None"
  BY <1>1 DEF ShareDaclScan
<1>2. CASE e.descriptor \in {"Absent", "NullPointer"}
  <2>1. x = [id |-> e.id, dacl |-> "NullDacl", aces |-> <<>>, unsupported |-> 0]
    BY <1>2 DEF ShareDaclScan, classify_dacl
  <2>2. x.id = e.id /\ x.dacl = "NullDacl" /\ x.aces = <<>>
    BY <2>1
  <2> QED
    BY <1>2, <2>2
<1>3. CASE e.descriptor # "None" /\ e.descriptor \notin {"Absent", "NullPointer"}
  <2>1. x = [id |-> e.id, dacl |-> "Acl", aces |-> Readable(m), unsupported |-> Len(m) - Len(Readable(m))]
    BY <1>3 DEF ShareDaclScan, classify_dacl
  <2>2. x.id = e.id /\ x.dacl = "Acl" /\ x.aces = Readable(m) /\ x.unsupported = Len(m) - Len(Readable(m))
    BY <2>1
  <2>3. IsList(m) /\ IsList(Readable(m)) /\ (Len(Readable(m)) = Len(m) => Readable(m) = m)
    BY ReadableIs
  <2>4. Len(m) \in Nat /\ Len(Readable(m)) \in Nat
    BY <2>3, ListIs
  <2>5. x.unsupported = 0 => x.aces = m
    <3>1. PICK p, q : p = Len(m) /\ q = Len(Readable(m))
      OBVIOUS
    <3>2. p \in Nat /\ q \in Nat /\ x.unsupported = p - q
      BY <2>2, <2>4, <3>1
    <3>3. x.unsupported = 0 => q = p
      BY <3>2
    <3> QED
      BY <2>2, <2>3, <3>1, <3>3
  <2> QED
    BY <1>3, <2>2, <2>5
<1> QED
  BY <1>1, <1>2, <1>3

LEMMA SharesReadKeeps ==
    ASSUME ReadInv, SharesRead
    PROVE  ReadInv' /\ ListInv'
<1>1. Done /\ job = "shares"
  BY DEF SharesRead
<1>2. CASE ~ outs[1].ok
  BY <1>1, <1>2, FailsKeeps DEF SharesRead
<1>3. CASE outs[1].ok
  <2>1. PICK marked : marked = (gaps # {})
    OBVIOUS
  <2>2. PICK names : names = Readable(srv.entries)
    OBVIOUS
  <2>3. IsList(srv.entries) /\ IsServer(job, srv) /\ outs[1].s = srv.entries
    BY <1>1, <1>3, FirstAnswer, ServerIs DEF ReadInv, IsServer
  <2>4. Len(rows) = Len(names) /\ Delivers("Ok", Range(rows), marked)
    BY <1>3, <2>1, <2>2, <2>3 DEF SharesRead, ShareNames
  <2>5. /\ IsList(names) /\ \A j \in 1 .. Len(names) : \E i \in 1 .. Len(srv.entries) : names[j] = srv.entries[i]
    BY <2>2, <2>3, ReadableIs
  <2>6. DOMAIN names = 1 .. Len(names) /\ DOMAIN srv.entries = 1 .. Len(srv.entries)
        /\ Range(srv.entries) = {srv.entries[i] : i \in 1 .. Len(srv.entries)}
    BY <2>3, <2>5, ListIs
  <2>7. Range(rows) = {rows[i] : i \in 1 .. Len(names)}
    <3>1. IsList(rows)
      BY DEF ReadInv, SeqInv, IsList
    <3> QED
      BY <2>4, <3>1, ListIs
  <2>8. ASSUME NEW j \in 1 .. Len(names)
        PROVE  /\ rows[j].id = names[j].id /\ (rows[j].dacl = "ReadFailed" => marked)
               /\ rows[j].dacl \in {"Acl", "NullDacl"} /\ rows[j].unsupported = 0 =>
                     \E i \in DOMAIN srv.entries :
                        LET e == srv.entries[i] IN
                        /\ e.id = rows[j].id
                        /\ rows[j].aces = (IF e.descriptor \in {"Absent", "NullPointer"} THEN <<>> ELSE srv.members[e.id])
                        /\ (rows[j].dacl = "NullDacl") = (e.descriptor \in {"Absent", "NullPointer"})
    <3>1. ShareRow(rows[j], names[j])
      BY <1>1, <2>2, <2>4 DEF ReadInv, RowsInv
    <3>2. PICK i \in 1 .. Len(srv.entries) : names[j] = srv.entries[i]
      BY <2>5
    <3>3. IsList(srv.members[srv.entries[i].id])
      BY <1>1, <2>3, <2>6 DEF IsServer
    <3>4. CASE rows[j] = ShareDaclScan(srv.entries[i])
      <4>1. /\ rows[j].id = srv.entries[i].id /\ rows[j].dacl \in {"NoSecurityDescriptor", "NullDacl", "Acl"}
            /\ rows[j].dacl \in {"Acl", "NullDacl"} /\ rows[j].unsupported = 0 =>
                 /\ rows[j].aces = (IF srv.entries[i].descriptor \in {"Absent", "NullPointer"} THEN <<>>
                                    ELSE srv.members[srv.entries[i].id])
                 /\ (rows[j].dacl = "NullDacl") = (srv.entries[i].descriptor \in {"Absent", "NullPointer"})
        BY <3>3, <3>4, ScanIs
      <4> QED
        BY <2>6, <3>2, <4>1
    <3>5. CASE rows[j] = UnreadShare(names[j]) /\ names[j].id \in gaps
      <4>1. rows[j].id = names[j].id /\ rows[j].dacl = "ReadFailed"
        BY <3>5 DEF UnreadShare
      <4>2. marked
        BY <2>1, <3>5
      <4> QED
        BY <4>1, <4>2
    <3> QED
      BY <3>1, <3>2, <3>4, <3>5 DEF ShareRow
  <2>9. SharesTrueOf(Range(rows), marked)
    <3>1. {s.id : s \in Range(rows)} = Ids(names)
      <4>1. Ids(names) = {names[j].id : j \in 1 .. Len(names)}
        BY <2>6 DEF Ids
      <4>2. \A s \in Range(rows) : s.id \in Ids(names)
        BY <2>7, <2>8, <4>1
      <4>3. \A j \in 1 .. Len(names) : names[j].id \in {s.id : s \in Range(rows)}
        BY <2>7, <2>8
      <4> QED
        BY <4>1, <4>2, <4>3
    <3>2. \A s \in Range(rows) : \E j \in 1 .. Len(names) : s = rows[j]
      BY <2>7
    <3> QED
      BY <2>2, <2>8, <3>1, <3>2 DEF SharesTrueOf
  <2>10. TellsTruth(Range(rows), marked)
    BY <1>1, <2>9 DEF TellsTruth, Promised
  <2> QED
    BY <1>1, <2>4, <2>10, DeliversKeeps
<1> QED
  BY <1>2, <1>3

LEMMA PolicyReadKeeps ==
    ASSUME ReadInv, PolicyRead
    PROVE  ReadInv' /\ ListInv'
<1>1. Done /\ job = "policy"
  BY DEF PolicyRead
<1>2. CASE Fails
  BY <1>1, <1>2, FailsKeeps
<1>3. CASE ~ Fails
  <2> DEFINE l == {rows[i].id : i \in {i \in DOMAIN rows : rows[i].read}}
  <2>1. PICK marked : marked = (gaps # {})
    OBVIOUS
  <2>2. Len(rows) = Len(srv.entries) /\ Delivers("Ok", l, marked)
    BY <1>3, <2>1 DEF PolicyRead
  <2>3. IsList(srv.entries) /\ IsList(rows)
    BY ServerIs DEF ReadInv, IsServer, SeqInv, IsList
  <2>4. DOMAIN rows = 1 .. Len(srv.entries) /\ DOMAIN srv.entries = 1 .. Len(srv.entries)
    BY <2>2, <2>3, ListIs
  <2>5. ASSUME ~ marked PROVE l = Truth
    <3>1. \A i \in 1 .. Len(srv.entries) : rows[i].id = srv.entries[i].id /\ rows[i].read
      BY <1>1, <2>1, <2>2, <2>5 DEF ReadInv, RowsInv, PolicyRow
    <3>2. l = {rows[i].id : i \in 1 .. Len(srv.entries)}
      BY <2>4, <3>1
    <3>3. Truth = {srv.entries[i].id : i \in 1 .. Len(srv.entries)}
      BY <1>1, <2>4 DEF Truth, Ids
    <3> QED
      BY <3>1, <3>2, <3>3
  <2> HIDE DEF l
  <2>6. TellsTruth(l, marked)
    BY <1>1, <2>5 DEF TellsTruth
  <2> QED
    BY <1>1, <2>2, <2>6, DeliversKeeps
<1> QED
  BY <1>2, <1>3

LEMMA DfsReadKeeps ==
    ASSUME ReadInv, DfsRead
    PROVE  ReadInv' /\ ListInv'
<1>1. Done /\ job = "dfs"
  BY DEF DfsRead
<1>2. PICK d : d = decide
  OBVIOUS
<1>3. Delivers("Ok", {d.at}, d.marked)
  BY <1>2 DEF DfsRead
<1>4. IsServer(job, srv)
  BY ServerIs DEF ReadInv
<1>5. (srv.final = srv.asked => srv.targets = {srv.asked}) /\ (srv.scope = "Link" => srv.targets = Ids(srv.entries))
  BY <1>1, <1>4 DEF IsServer
<1>6. outs # <<>>
  <2>1. Len(outs) = 2
    BY <1>1, DoneIs DEF Plan
  <2> QED
    BY <2>1
<1> DEFINE targets == Ids(srv.entries)
           active == {srv.entries[i].id : i \in {i \in DOMAIN srv.entries : srv.entries[i].own}}
<1>7. active \subseteq targets
  BY DEF Ids
<1> HIDE DEF targets, active
<1>8. build_link => srv.targets = targets
  BY <1>5 DEF build_link, targets
<1>9. ASSUME ~ Undetectable, ~ d.marked PROVE {d.at} = srv.targets
  <2>1. outs[1].ok \/ build_link
    BY <1>1, <1>6, <1>9 DEF Undetectable
  <2>2. CASE outs[1].ok /\ srv.final = srv.asked
    <3>1. d.at = srv.asked
      BY <1>2, <2>2 DEF decide
    <3> QED
      BY <1>5, <2>2, <3>1
  <2>3. CASE outs[1].ok /\ srv.final # srv.asked
    <3>1. d = [at |-> srv.final, marked |-> (IF build_link THEN targets \ {srv.final} ELSE {}) # {}
                                            \/ ~ (build_link /\ active = {srv.final})]
      BY <1>2, <2>3 DEF decide, targets, active
    <3>2. d.at = srv.final /\ build_link /\ active = {srv.final} /\ targets \ {srv.final} = {}
      BY <1>9, <3>1
    <3> QED
      BY <1>7, <1>8, <3>2
  <2>4. CASE ~ outs[1].ok /\ build_link
    <3>1. CASE Cardinality(active) = 1
      <4>1. d = [at |-> CHOOSE t \in active : TRUE, marked |-> targets \ active # {} \/ ~ TRUE]
        BY <1>2, <2>4, <3>1 DEF decide, targets, active
      <4>2. d.at = (CHOOSE t \in active : TRUE) /\ targets \ active = {}
        BY <1>9, <4>1
      <4>3. PICK t : active = {t}
        <5>1. IsFiniteSet(active)
          <6>1. IsFiniteSet(DOMAIN srv.entries)
            <7>1. DOMAIN srv.entries = 1 .. Len(srv.entries) /\ Len(srv.entries) \in Nat
              BY <1>4, ListIs DEF IsServer
            <7> QED
              BY <7>1, FS_Interval
          <6>2. IsFiniteSet({i \in DOMAIN srv.entries : srv.entries[i].own})
            BY <6>1, FS_Subset
          <6> DEFINE I == {i \in DOMAIN srv.entries : srv.entries[i].own}
                     f == [i \in I |-> srv.entries[i].id]
          <6>3. f \in Surjection(I, active)
            BY DEF active, Surjection
          <6> HIDE DEF f, active
          <6> QED
            BY <6>2, <6>3, FS_Surjection
        <5> QED
          BY <3>1, <5>1, FS_Singleton
      <4> QED
        BY <1>7, <1>8, <2>4, <4>2, <4>3
    <3>2. CASE Cardinality(active) # 1
      <4>1. d = [at |-> srv.asked, marked |-> targets # {} \/ ~ FALSE]
        BY <1>2, <2>4, <3>2 DEF decide, targets, active
      <4> QED
        BY <1>9, <4>1
    <3> QED
      BY <3>1, <3>2
  <2> QED
    BY <2>1, <2>2, <2>3, <2>4
<1>10. ~ Undetectable => TellsTruth({d.at}, d.marked)
  BY <1>1, <1>9 DEF TellsTruth, Truth
<1> QED
  BY <1>1, <1>3, <1>10, DeliversKeeps

----------------------------------------------------------------------------
(* Chains into local groups.                                               *)

\* A set of numbers that is not empty has a least one, and Min is in it.
LEMMA MinIs ==
    ASSUME NEW S, S \subseteq Nat, S # {}
    PROVE  Min(S) \in S
<1> DEFINE R == OpToRel(<, Nat)
<1>1. IsWellFoundedOn(R, Nat) /\ \A x, y \in Nat : y < x => <<y, x>> \in R
  BY NatLessThanWellFounded DEF OpToRel
<1>2. PICK x \in S : \A y \in S : ~ (<<y, x>> \in R)
  <2> HIDE DEF R
  <2> QED
    BY <1>1, WFMin
<1>3. \A y \in S : x =< y
  <2> HIDE DEF R
  <2> SUFFICES ASSUME NEW y \in S PROVE x =< y
    OBVIOUS
  <2>1. x \in Nat /\ y \in Nat /\ ~ (y < x)
    BY <1>1, <1>2
  <2> QED
    BY <2>1
<1> HIDE DEF R
<1> QED
  BY <1>3 DEF Min

\* The other way round, a list has the same readable entries.
LEMMA ReverseIs ==
    ASSUME NEW s, IsList(s)
    PROVE  Ids(Readable(Reverse(s))) = Ids(Readable(s))
<1> DEFINE n == Len(s)
           r == Reverse(s)
<1>1. s \in Seq(Range(s)) /\ n \in Nat /\ DOMAIN s = 1 .. n
  BY ListIs DEF IsList
<1> HIDE DEF n
<1>2. r = [i \in 1 .. n |-> s[(n - i) + 1]]
  BY DEF Reverse, n
<1>3. \A i \in 1 .. n : (n - i) + 1 \in 1 .. n /\ (n - ((n - i) + 1)) + 1 = i
  BY <1>1
<1>4. \A i \in 1 .. n : s[i] \in Range(s)
  BY <1>1 DEF n
<1> HIDE DEF r
<1>5. r \in Seq(Range(s)) /\ Len(r) = n /\ DOMAIN r = 1 .. n /\ \A i \in 1 .. n : r[i] = s[(n - i) + 1]
  BY <1>1, <1>2, <1>3, <1>4
<1>6. IsList(r)
  <2>1. r \in Seq({r[j] : j \in 1 .. n})
    BY <1>5
  <2>2. Range(r) = {r[j] : j \in 1 .. n}
    BY <1>5 DEF Range
  <2> QED
    BY <2>1, <2>2 DEF IsList
<1> DEFINE A == {s[i].id : i \in {k \in 1 .. n : s[k].readable}}
           B == {r[i].id : i \in {k \in 1 .. n : r[k].readable}}
<1>7. Ids(Readable(s)) = A /\ Ids(Readable(r)) = B
  BY <1>5, <1>6, ReadableIs DEF n
<1>8. ASSUME NEW i \in 1 .. n, r[i].readable PROVE r[i].id \in A
  <2>1. r[i] = s[(n - i) + 1] /\ (n - i) + 1 \in 1 .. n
    BY <1>3, <1>5
  <2> QED
    BY <1>8, <2>1
<1>9. ASSUME NEW i \in 1 .. n, s[i].readable PROVE s[i].id \in B
  <2>1. (n - i) + 1 \in 1 .. n /\ r[(n - i) + 1] = s[i]
    BY <1>3, <1>5
  <2> QED
    BY <1>9, <2>1
<1>10. A = B
  BY <1>8, <1>9
<1> QED
  BY <1>7, <1>10 DEF r

\* The route the code chooses is a member it knows.
LEMMA PathIs ==
    ASSUME NEW m, IsList(m), NEW p, p = local_group_path(m)
    PROVE  /\ p.complete => Last(p.nodes) \in Ids(m) /\ p.also_via \subseteq Ids(m) \cap Known
           /\ p = local_group_path(Reverse(m))
<1> DEFINE readable == Ids(Readable(m))
           known == (readable \cap Known) \ {0}
<1>1. readable \subseteq Ids(m)
  <2>1. readable = {m[i].id : i \in {k \in 1 .. Len(m) : m[k].readable}} /\ DOMAIN m = 1 .. Len(m)
    BY ReadableIs, ListIs
  <2> QED
    BY <2>1 DEF Ids
<1>2. p = local_group_path(Reverse(m))
  <2>1. Ids(Readable(Reverse(m))) = Ids(Readable(m))
    BY ReverseIs
  <2>2. \A a : Ids(Readable(a)) = Ids(Readable(m)) => local_group_path(a) = local_group_path(m)
    BY DEF local_group_path
  <2> QED
    BY <2>1, <2>2
<1>3. p = IF 0 \in readable THEN [nodes |-> <<0>>, complete |-> TRUE, also_via |-> known]
          ELSE IF known = {} THEN [nodes |-> <<0>>, complete |-> FALSE, also_via |-> {}]
          ELSE [nodes |-> <<0, Min(known)>>, complete |-> TRUE, also_via |-> known \ {Min(known)}]
  BY DEF local_group_path
<1> HIDE DEF readable
<1>4. known \subseteq Ids(m) \cap Known /\ known \subseteq Nat
  BY <1>1, RemoteAssumption
<1> HIDE DEF known
<1>5. CASE 0 \in readable
  <2>1. p.nodes = <<0>> /\ p.also_via = known
    BY <1>3, <1>5
  <2>2. Last(p.nodes) = 0
    BY <2>1 DEF Last
  <2> QED
    BY <1>1, <1>2, <1>4, <1>5, <2>1, <2>2
<1>6. CASE 0 \notin readable /\ known = {}
  <2>1. p = [nodes |-> <<0>>, complete |-> FALSE, also_via |-> {}]
    BY <1>3, <1>6
  <2>2. ~ p.complete
    BY <2>1
  <2> QED
    BY <1>2, <2>2
<1>7. CASE 0 \notin readable /\ known # {}
  <2>1. PICK k : k = Min(known)
    OBVIOUS
  <2>2. k \in known
    BY <1>4, <1>7, <2>1, MinIs
  <2>3. p = [nodes |-> <<0, k>>, complete |-> TRUE, also_via |-> known \ {k}]
    BY <1>3, <1>7, <2>1
  <2>4. p.nodes = <<0, k>> /\ p.also_via = known \ {k}
    BY <2>3
  <2>5. Last(p.nodes) = k
    BY <2>4 DEF Last
  <2> QED
    BY <1>2, <1>4, <2>2, <2>4, <2>5
<1> QED
  BY <1>5, <1>6, <1>7

LEMMA ChainsFollow ==
    ASSUME ReadInv, job = "sam"
    PROVE  ChainsAreTrue
<1>1. IsServer(job, srv)
  BY ServerIs DEF ReadInv
<1>2. IsList(rows)
  BY DEF ReadInv, SeqInv, IsList
<1>3. DOMAIN rows = 1 .. Len(rows)
  BY <1>2, ListIs
<1>4. \A i \in 1 .. Len(rows) : ChainRow(rows[i])
  BY DEF ReadInv, RowsInv
<1> SUFFICES ASSUME NEW i \in DOMAIN rows
             PROVE  LET members == srv.members[rows[i].id]
                        path    == rows[i].path
                    IN /\ path.complete => /\ Last(path.nodes) \in Ids(members)
                                           /\ path.also_via \subseteq Ids(members) \cap Known
                       /\ local_group_path(members) = local_group_path(Reverse(members))
  BY DEF ChainsAreTrue
<1>5. PICK r : r = rows[i]
  OBVIOUS
<1>6. r.id \in Ids(srv.second) /\ r.path \in {UnknownChain, local_group_path(srv.members[r.id])}
  BY <1>3, <1>4, <1>5 DEF ChainRow
<1>7. PICK m : m = srv.members[r.id]
  OBVIOUS
<1>8. IsList(m)
  <2>1. IsList(srv.second)
    BY <1>1 DEF IsServer
  <2>2. PICK k \in DOMAIN srv.second : r.id = srv.second[k].id
    BY <1>6 DEF Ids
  <2>3. srv.second[k] \in Range(srv.second)
    BY <2>2 DEF Range
  <2> QED
    BY <1>1, <1>7, <2>2, <2>3 DEF IsServer
<1>9. PICK p : p = local_group_path(m)
  OBVIOUS
<1>10. /\ p.complete => Last(p.nodes) \in Ids(m) /\ p.also_via \subseteq Ids(m) \cap Known
       /\ p = local_group_path(Reverse(m))
  BY <1>8, <1>9, PathIs
<1>11. UnknownChain.complete = FALSE
  BY DEF UnknownChain
<1>12. r.path.complete => Last(r.path.nodes) \in Ids(m) /\ r.path.also_via \subseteq Ids(m) \cap Known
  BY <1>6, <1>7, <1>9, <1>10, <1>11
<1> QED
  BY <1>5, <1>7, <1>9, <1>10, <1>12

----------------------------------------------------------------------------
(* The theorem.                                                            *)

LEMMA InitIs ==
    ASSUME Init
    PROVE  ReadInv /\ ListInv
<1>1. PICK c \in Jobs : job = c.job /\ srv = c.srv /\ calls = Plan[c.job]
  BY DEF Init, ReadInit
<1>2. from = 1 /\ turns = 0 /\ got = <<>> /\ outs = <<>> /\ rows = <<>> /\ gaps = {} /\ list = Reading
  BY DEF Init, ReadInit
<1>3. JobInv
  BY <1>1 DEF JobInv
<1>4. job \in DOMAIN Plan /\ calls = Plan[job] /\ Plan[job] \in Seq(Apis) /\ Len(Plan[job]) \in Nat /\ \A api : IsList(Source(api))
  BY <1>1, <1>3, ServerIs, PlanIs
<1>5. SeqInv
  BY <1>2, <1>4 DEF SeqInv
<1>6. CallsInv
  <2>1. Len(outs) = 0 /\ \A k \in 1 .. Len(calls) : 0 + k = k
    BY <1>2, <1>4
  <2> QED
    BY <1>4, <2>1 DEF CallsInv
<1>7. GotInv
  <2>1. IsFront(<<>>, 1, Source(Head(calls)))
    <3>1. PICK src : src = Source(Head(calls))
      OBVIOUS
    <3>2. Len(src) \in Nat
      BY <1>4, <3>1, ListIs
    <3>3. IsFront(<<>>, 1, src)
      BY <3>2 DEF IsFront
    <3> QED
      BY <3>1, <3>3
  <2>2. AllReadable(<<>>)
    BY DEF AllReadable
  <2> QED
    BY <1>2, <2>1, <2>2 DEF GotInv
<1>8. OutsInv
  BY <1>2 DEF OutsInv
<1>9. RowsInv
  <2>1. Len(srv.entries) \in Nat /\ Len(Readable(srv.entries)) \in Nat
    <3>1. IsList(srv.entries)
      BY <1>3, ServerIs DEF IsServer
    <3>2. IsList(Readable(srv.entries))
      BY <3>1, ReadableIs
    <3> QED
      BY <3>1, <3>2, ListIs
  <2>2. Len(rows) = 0 /\ 1 .. Len(rows) = {}
    BY <1>2
  <2> QED
    BY <2>1, <2>2 DEF RowsInv
<1>10. ListInv
  BY <1>2 DEF ListInv, Reading
<1> QED
  BY <1>3, <1>5, <1>6, <1>7, <1>8, <1>9, <1>10 DEF ReadInv

\* The analysis goes on without the answers.
LEMMA BeginKeeps ==
    ASSUME ReadInv, Begin
    PROVE  ReadInv' /\ ListInv'
<1>1. /\ from' = 1 /\ turns' = 0 /\ got' = <<>> /\ outs' = <<>> /\ rows' = <<>> /\ gaps' = {} /\ list' = Reading
      /\ calls' = <<"evaluate">> /\ UNCHANGED <<job, srv>>
  BY DEF Begin
<1>2. JobInv'
  BY <1>1 DEF ReadInv, JobInv
<1>3. SeqInv' /\ CallsInv'
  BY <1>1 DEF SeqInv, CallsInv, Apis
<1>4. GotInv'
  <2>1. Head(calls') = "evaluate" /\ "evaluate" \notin WholeApis
    BY <1>1 DEF WholeApis, PagedApis, SingleApis
  <2> QED
    BY <2>1 DEF GotInv
<1>5. OutsInv'
  BY <1>1 DEF OutsInv
<1>6. RowsInv'
  <2>1. Len(srv.entries) \in Nat /\ Len(Readable(srv.entries)) \in Nat
    <3>1. IsList(srv.entries)
      BY ServerIs DEF ReadInv, IsServer
    <3>2. IsList(Readable(srv.entries))
      BY <3>1, ReadableIs
    <3> QED
      BY <3>1, <3>2, ListIs
  <2>2. Len(rows') = 0 /\ 1 .. Len(rows') = {}
    BY <1>1
  <2> QED
    BY <1>1, <2>1, <2>2 DEF RowsInv
<1>7. ListInv'
  BY <1>1 DEF ListInv, Reading
<1> QED
  BY <1>2, <1>3, <1>4, <1>5, <1>6, <1>7 DEF ReadInv

\* A read that returns nothing yet leaves the list open.
LEMMA StillReading ==
    ASSUME list' = Reading
    PROVE  ListInv'
  BY DEF ListInv, Reading

LEMMA StepKeeps ==
    ASSUME ReadInv, ListInv, [Next]_vars
    PROVE  ReadInv' /\ ListInv'
<1>1. CASE PagedSearch \/ RangeRetrieval \/ LocalGroupNames \/ EnumeratePage \/ SingleCall \/ ConstructedSidList
  <2>1. list' = Reading
    BY <1>1 DEF PagedSearch, RangeRetrieval, LocalGroupNames, EnumeratePage, SingleCall, ConstructedSidList, Calling,
                Returns, GoesOn, paged_end
  <2> QED
    BY <1>1, <2>1, StillReading, PagedKeeps, RangeKeeps, LocalNamesKeeps, EnumKeeps, SingleKeeps, SidListKeeps
<1>2. CASE TimesOut
  <2>1. ReadInv' /\ list'.st = "Err"
    BY <1>2, TimesOutKeeps
  <2> QED
    BY <2>1 DEF ListInv
<1>3. CASE ReadGroup \/ ReadChain \/ ReadShare \/ QueryPolicy
  <2>1. list' = Reading
    BY <1>3 DEF ReadGroup, ReadChain, ReadShare, QueryPolicy, Done
  <2> QED
    BY <1>3, <2>1, StillReading, ReadGroupKeeps, ReadChainKeeps, ReadShareKeeps, QueryPolicyKeeps
<1>4. CASE TableRead \/ MembersRead \/ ListRead \/ ForestRead \/ AccountsRead \/ SamRead \/ AccountRead \/ SharesRead
           \/ PolicyRead \/ DfsRead
  BY <1>4, TableReadKeeps, MembersReadKeeps, ListReadKeeps, OffersKeep, AccountReadKeeps, SharesReadKeeps,
     PolicyReadKeeps, DfsReadKeeps
<1>5. CASE Begin
  BY <1>5, BeginKeeps
<1>6. CASE UNCHANGED readVars
  <2>1. UNCHANGED <<job, srv, calls, from, turns, got, outs, rows, gaps, list>>
    BY <1>6 DEF readVars
  <2>2. \A api : Source(api)' = Source(api)
    BY <2>1 DEF Source
  <2>3. JobInv' /\ SeqInv' /\ CallsInv' /\ GotInv' /\ OutsInv'
    BY <2>1, <2>2 DEF ReadInv, JobInv, SeqInv, CallsInv, GotInv, OutsInv
  <2>4. RowsInv'
    BY <2>1 DEF ReadInv, RowsInv, GroupRow, ShareRow, PolicyRow, ChainRow, ShareDaclScan
  <2>5. Undetectable' = Undetectable /\ Truth' = Truth
    BY <2>1 DEF Undetectable, account_domains, build_link, Truth, Pairs
  <2>6. ListInv'
    BY <2>1, <2>5 DEF ListInv, TellsTruth, SharesTrueOf
  <2> QED
    BY <2>3, <2>4, <2>6 DEF ReadInv
<1>7. CASE EvaluateObject \/ Finish \/ Store \/ Damage \/ Load \/ UNCHANGED vars
  <2>1. UNCHANGED readVars
    BY <1>7 DEF EvaluateObject, Finish, Store, Damage, Load, vars
  <2> QED
    BY <1>6, <2>1
<1> QED
  BY <1>1, <1>2, <1>3, <1>4, <1>5, <1>7 DEF Next, Reads

LEMMA InvariantHolds ==
    Spec => [](ReadInv /\ ListInv)
<1>1. Init => ReadInv /\ ListInv
  BY InitIs
<1>2. ReadInv /\ ListInv /\ [Next]_vars => (ReadInv /\ ListInv)'
  BY StepKeeps
<1> QED
  BY <1>1, <1>2, PTL DEF Spec

\* For lists of every length, every page size and every bound: a list that a read returns without
\* a mark is what the other machine has, each share is shown as it is or with a sign, and a route
\* into a local group is one of its members whatever the order of the answer (ldap_client.rs,
\* resolver.rs, local_groups.rs, scanner.rs, dfs.rs).
THEOREM UnmarkedIsTrueAlways ==
    Spec => []UnmarkedIsTrue
<1>1. ReadInv /\ ListInv => UnmarkedIsTrue
  <2> SUFFICES ASSUME ReadInv, ListInv PROVE UnmarkedIsTrue
    OBVIOUS
  <2>1. job = "sam" => ChainsAreTrue
    BY ChainsFollow
  <2> QED
    BY <2>1 DEF ListInv, TellsTruth, SharesTrueOf, SharesAreTrue, UnmarkedIsTrue
<1> QED
  BY <1>1, InvariantHolds, PTL

----------------------------------------------------------------------------
(* A list of lists, one behind the other.                                  *)

FlatUpTo(f, seqs, m) == f[1] = seqs[1] /\ \A k \in 2 .. m : f[k] = f[k - 1] \o seqs[k]

\* The recursion of FlattenSeq has a solution,
LEMMA FlatExists ==
    ASSUME NEW S, NEW seqs \in Seq(Seq(S)), Len(seqs) # 0
    PROVE  \E f \in [1 .. Len(seqs) -> Seq(S)] : FlatUpTo(f, seqs, Len(seqs))
<1> DEFINE m == Len(seqs) - 1
           T == {i \in 0 .. m : \E f \in [1 .. i + 1 -> Seq(S)] : FlatUpTo(f, seqs, i + 1)}
<1>0. m \in Nat /\ m + 1 = Len(seqs) /\ \A k \in 1 .. m + 1 : seqs[k] \in Seq(S)
  OBVIOUS
<1>1. 0 \in T
  <2> DEFINE f == [k \in 1 .. 1 |-> seqs[1]]
  <2>1. f \in [1 .. 1 -> Seq(S)] /\ FlatUpTo(f, seqs, 1)
    BY <1>0 DEF FlatUpTo
  <2> HIDE DEF f
  <2> QED
    BY <1>0, <2>1
<1>2. ASSUME NEW i \in 0 .. m - 1, i \in T PROVE i + 1 \in T
  <2>1. PICK f \in [1 .. i + 1 -> Seq(S)] : FlatUpTo(f, seqs, i + 1)
    BY <1>2
  <2> DEFINE x == f[i + 1] \o seqs[i + 2]
             h == [k \in 1 .. i + 2 |-> IF k = i + 2 THEN x ELSE f[k]]
  <2>2. i + 2 \in 1 .. m + 1 /\ f[i + 1] \in Seq(S) /\ i \in Nat /\ seqs[i + 2] \in Seq(S)
    BY <1>0
  <2>3. x \in Seq(S)
    BY <2>2
  <2> HIDE DEF x
  <2>4. h \in [1 .. i + 2 -> Seq(S)] /\ h[1] = f[1] /\ h[i + 2] = x /\ \A k \in 1 .. i + 1 : h[k] = f[k]
    BY <2>1, <2>2, <2>3
  <2> HIDE DEF h
  <2>5. \A k \in 2 .. i + 2 : h[k] = h[k - 1] \o seqs[k]
    <3> SUFFICES ASSUME NEW k \in 2 .. i + 2 PROVE h[k] = h[k - 1] \o seqs[k]
      OBVIOUS
    <3>1. CASE k = i + 2
      <4>1. h[k] = x /\ h[k - 1] = f[i + 1]
        <5>1. k - 1 = i + 1 /\ i + 1 \in 1 .. i + 1
          BY <2>2, <3>1
        <5> QED
          BY <2>4, <3>1, <5>1
      <4> QED
        BY <3>1, <4>1 DEF x
    <3>2. CASE k # i + 2
      <4>1. k \in 2 .. i + 1 /\ k \in 1 .. i + 1 /\ k - 1 \in 1 .. i + 1
        BY <2>2, <3>2
      <4> QED
        BY <2>1, <2>4, <4>1 DEF FlatUpTo
    <3> QED
      BY <3>1, <3>2
  <2>6. FlatUpTo(h, seqs, (i + 1) + 1)
    <3>1. (i + 1) + 1 = i + 2
      BY <2>2
    <3> QED
      BY <2>1, <2>4, <2>5, <3>1 DEF FlatUpTo
  <2>7. i + 1 \in 0 .. m /\ (i + 1) + 1 = i + 2
    BY <1>0
  <2> QED
    BY <2>4, <2>6, <2>7
<1> HIDE DEF T, m
<1>3. \A k \in 0 .. m : k \in T
  BY <1>0, <1>1, <1>2, CountsUp
<1>4. m \in T
  BY <1>0, <1>3
<1> QED
  BY <1>0, <1>4 DEF T

\* and FlattenSeq is what it says.
LEMMA FlatSolves ==
    ASSUME NEW S, NEW seqs \in Seq(Seq(S)), Len(seqs) # 0
    PROVE  \E f : f[Len(seqs)] = FlattenSeq(seqs) /\ FlatUpTo(f, seqs, Len(seqs))
<1> DEFINE m == Len(seqs)
           Def(f) == [i \in 1 .. m |-> IF i = 1 THEN seqs[i] ELSE f[i - 1] \o seqs[i]]
           L == CHOOSE f : f = Def(f)
<1>0. m \in Nat /\ m >= 1
  OBVIOUS
<1>1. PICK f \in [1 .. m -> Seq(S)] : FlatUpTo(f, seqs, m)
  BY FlatExists
<1>2. f = Def(f)
  <2>1. \A i \in 1 .. m : f[i] = IF i = 1 THEN seqs[i] ELSE f[i - 1] \o seqs[i]
    <3> SUFFICES ASSUME NEW i \in 1 .. m PROVE f[i] = IF i = 1 THEN seqs[i] ELSE f[i - 1] \o seqs[i]
      OBVIOUS
    <3>1. i = 1 \/ i \in 2 .. m
      BY <1>0
    <3> QED
      BY <1>1, <3>1 DEF FlatUpTo
  <2> QED
    BY <1>1, <2>1
<1>3. L = Def(L)
  <2> HIDE DEF Def
  <2> QED
    BY <1>2
<1>4. FlattenSeq(seqs) = L[m]
  <2>1. FlattenSeq(seqs) = IF m = 0 THEN seqs ELSE L[m]
    BY DEF FlattenSeq
  <2> QED
    BY <2>1
<1> HIDE DEF L
<1>5. FlatUpTo(L, seqs, m)
  <2> DEFINE G(i) == IF i = 1 THEN seqs[i] ELSE L[i - 1] \o seqs[i]
  <2>1. L = [i \in 1 .. m |-> G(i)]
    BY <1>3
  <2> HIDE DEF G, m
  <2>2. \A i \in 1 .. m : L[i] = G(i)
    BY <2>1
  <2>3. L[1] = seqs[1]
    <3>1. 1 \in 1 .. m
      BY <1>0
    <3> QED
      BY <2>2, <3>1 DEF G
  <2>4. \A k \in 2 .. m : k \in 1 .. m /\ k # 1
    BY <1>0
  <2> QED
    BY <2>2, <2>3, <2>4 DEF FlatUpTo, G
<1> QED
  BY <1>4, <1>5

\* Its parts are lists,
LEMMA FlatParts ==
    ASSUME NEW S, NEW seqs \in Seq(Seq(S)), Len(seqs) # 0, NEW f, FlatUpTo(f, seqs, Len(seqs))
    PROVE  \A k \in 1 .. Len(seqs) : f[k] \in Seq(S)
<1> DEFINE m == Len(seqs) - 1
           T == {i \in 0 .. m : f[i + 1] \in Seq(S)}
<1>0. m \in Nat /\ m + 1 = Len(seqs) /\ \A k \in 1 .. m + 1 : seqs[k] \in Seq(S)
  OBVIOUS
<1>1. 0 \in T
  BY <1>0 DEF FlatUpTo
<1>2. ASSUME NEW i \in 0 .. m - 1, i \in T PROVE i + 1 \in T
  <2>1. i + 2 \in 2 .. Len(seqs) /\ i + 2 \in 1 .. m + 1 /\ (i + 2) - 1 = i + 1 /\ i + 1 \in 0 .. m /\ (i + 1) + 1 = i + 2
    BY <1>0
  <2>2. f[i + 2] = f[i + 1] \o seqs[i + 2]
    BY <2>1 DEF FlatUpTo
  <2>3. f[i + 1] \in Seq(S) /\ seqs[i + 2] \in Seq(S)
    BY <1>0, <1>2, <2>1
  <2>4. f[(i + 1) + 1] \in Seq(S)
    <3> HIDE DEF T, m
    <3>1. f[i + 2] \in Seq(S)
      BY <2>2, <2>3
    <3> QED
      BY <2>1, <3>1
  <2> QED
    BY <2>1, <2>4
<1> HIDE DEF T, m
<1>3. \A k \in 0 .. m : k \in T
  BY <1>0, <1>1, <1>2, CountsUp
<1> SUFFICES ASSUME NEW k \in 1 .. Len(seqs) PROVE f[k] \in Seq(S)
  OBVIOUS
<1>4. k - 1 \in 0 .. m /\ (k - 1) + 1 = k
  BY <1>0
<1> QED
  BY <1>3, <1>4 DEF T

\* it holds the entries of its parts and no other,
Occurs(y, s) == \E i \in 1 .. Len(s) : s[i] = y
LEMMA OccursInBoth ==
    ASSUME NEW S, NEW s \in Seq(S), NEW t \in Seq(S), NEW y
    PROVE  Occurs(y, s \o t) <=> Occurs(y, s) \/ Occurs(y, t)
<1>1. /\ Len(s) \in Nat /\ Len(t) \in Nat /\ Len(s \o t) = Len(s) + Len(t)
      /\ \A i \in 1 .. Len(s) + Len(t) : (s \o t)[i] = IF i <= Len(s) THEN s[i] ELSE t[i - Len(s)]
  OBVIOUS
<1>2. ASSUME Occurs(y, s \o t) PROVE Occurs(y, s) \/ Occurs(y, t)
  <2>1. PICK i \in 1 .. Len(s) + Len(t) : (s \o t)[i] = y
    BY <1>1, <1>2 DEF Occurs
  <2>2. CASE i <= Len(s)
    <3>1. i \in 1 .. Len(s) /\ s[i] = y
      BY <1>1, <2>1, <2>2
    <3> QED
      BY <3>1 DEF Occurs
  <2>3. CASE ~ (i <= Len(s))
    <3>1. i - Len(s) \in 1 .. Len(t) /\ t[i - Len(s)] = y
      BY <1>1, <2>1, <2>3
    <3> QED
      BY <3>1 DEF Occurs
  <2> QED
    BY <2>2, <2>3
<1>3. ASSUME Occurs(y, s) PROVE Occurs(y, s \o t)
  <2>1. PICK i \in 1 .. Len(s) : s[i] = y
    BY <1>3 DEF Occurs
  <2>2. i \in 1 .. Len(s) + Len(t) /\ i <= Len(s)
    BY <1>1
  <2>3. (s \o t)[i] = y
    BY <1>1, <2>1, <2>2
  <2> QED
    BY <1>1, <2>2, <2>3 DEF Occurs
<1>4. ASSUME Occurs(y, t) PROVE Occurs(y, s \o t)
  <2>1. PICK i \in 1 .. Len(t) : t[i] = y
    BY <1>4 DEF Occurs
  <2>2. Len(s) + i \in 1 .. Len(s) + Len(t) /\ ~ (Len(s) + i <= Len(s)) /\ (Len(s) + i) - Len(s) = i
    BY <1>1
  <2>3. (s \o t)[Len(s) + i] = y
    BY <1>1, <2>1, <2>2
  <2> QED
    BY <1>1, <2>2, <2>3 DEF Occurs
<1> QED
  BY <1>2, <1>3, <1>4

LEMMA FlatHolds ==
    ASSUME NEW S, NEW seqs \in Seq(Seq(S))
    PROVE  /\ FlattenSeq(seqs) \in Seq(S)
           /\ \A y : Occurs(y, FlattenSeq(seqs)) <=> \E k \in 1 .. Len(seqs) : Occurs(y, seqs[k])
<1>1. CASE Len(seqs) = 0
  <2>1. seqs = <<>> /\ FlattenSeq(seqs) = <<>>
    BY <1>1 DEF FlattenSeq
  <2>2. \A y : ~ Occurs(y, <<>>) /\ 1 .. Len(seqs) = {}
    BY <2>1 DEF Occurs
  <2>3. FlattenSeq(seqs) \in Seq(S)
    <3>1. <<>> \in Seq(S)
      OBVIOUS
    <3> QED
      BY <2>1, <3>1, Zenon
  <2>4. \A y : ~ Occurs(y, FlattenSeq(seqs))
    BY <2>1, <2>2
  <2> QED
    BY <2>2, <2>3, <2>4
<1>2. CASE Len(seqs) # 0
  <2> DEFINE m == Len(seqs) - 1
  <2>0. m \in Nat /\ m + 1 = Len(seqs) /\ \A k \in 1 .. m + 1 : seqs[k] \in Seq(S)
    BY <1>2
  <2>1. PICK f : f[Len(seqs)] = FlattenSeq(seqs) /\ FlatUpTo(f, seqs, Len(seqs))
    BY <1>2, FlatSolves
  <2>2. \A k \in 1 .. Len(seqs) : f[k] \in Seq(S)
    BY <1>2, <2>1, FlatParts
  <2>3. ASSUME NEW y PROVE Occurs(y, FlattenSeq(seqs)) <=> \E k \in 1 .. Len(seqs) : Occurs(y, seqs[k])
    <3> DEFINE T == {i \in 0 .. m : Occurs(y, f[i + 1]) <=> \E k \in 1 .. i + 1 : Occurs(y, seqs[k])}
    <3>1. 0 \in T
      <4>1. f[0 + 1] = seqs[1] /\ 1 .. 0 + 1 = {1}
        BY <2>1 DEF FlatUpTo
      <4> QED
        BY <2>0, <4>1
    <3>2. ASSUME NEW i \in 0 .. m - 1, i \in T PROVE i + 1 \in T
      <4>1. i + 2 \in 2 .. Len(seqs) /\ i + 2 \in 1 .. m + 1 /\ (i + 2) - 1 = i + 1 /\ i + 1 \in 0 .. m
            /\ (i + 1) + 1 = i + 2 /\ i + 1 \in 1 .. Len(seqs)
        BY <2>0
      <4>2. f[i + 2] = f[i + 1] \o seqs[i + 2]
        BY <2>1, <4>1 DEF FlatUpTo
      <4>3. Occurs(y, f[i + 2]) <=> Occurs(y, f[i + 1]) \/ Occurs(y, seqs[i + 2])
        BY <2>0, <2>2, <4>1, <4>2, OccursInBoth
      <4>4. 1 .. i + 2 = 1 .. i + 1 \cup {i + 2}
        BY <2>0
      <4>5. Occurs(y, f[i + 1]) <=> \E k \in 1 .. i + 1 : Occurs(y, seqs[k])
        BY <3>2
      <4>6. Occurs(y, f[i + 2]) <=> \E k \in 1 .. i + 2 : Occurs(y, seqs[k])
        BY <4>3, <4>4, <4>5
      <4> QED
        BY <4>1, <4>6
    <3> HIDE DEF T, m
    <3>3. \A k \in 0 .. m : k \in T
      BY <2>0, <3>1, <3>2, CountsUp
    <3>4. m \in T
      BY <2>0, <3>3
    <3> QED
      BY <2>0, <2>1, <3>4 DEF T
  <2>4. FlattenSeq(seqs) \in Seq(S)
    BY <2>0, <2>1, <2>2
  <2> QED
    BY <2>3, <2>4
<1> QED
  BY <1>1, <1>2

\* one more part goes behind the others,
LEMMA FlatAppend ==
    ASSUME NEW S, NEW seqs \in Seq(Seq(S)), NEW x \in Seq(S)
    PROVE  FlattenSeq(Append(seqs, x)) = FlattenSeq(seqs) \o x
<1> DEFINE n == Len(seqs)
           t == Append(seqs, x)
<1>0. /\ n \in Nat /\ t \in Seq(Seq(S)) /\ Len(t) = n + 1 /\ Len(t) # 0 /\ t[n + 1] = x
      /\ \A i \in 1 .. n : t[i] = seqs[i]
  OBVIOUS
<1> HIDE DEF t
<1>1. PICK f : f[Len(t)] = FlattenSeq(t) /\ FlatUpTo(f, t, Len(t))
  BY <1>0, FlatSolves
<1>2. CASE n = 0
  <2>1. seqs = <<>> /\ FlattenSeq(seqs) = <<>>
    BY <1>2 DEF FlattenSeq
  <2>2. FlattenSeq(t) = x
    BY <1>0, <1>1, <1>2 DEF FlatUpTo
  <2>3. <<>> \o x = x
    OBVIOUS
  <2> QED
    BY <2>1, <2>2, <2>3, Zenon DEF t
<1>3. CASE n # 0
  <2> DEFINE m == n - 1
  <2>1. PICK g : g[n] = FlattenSeq(seqs) /\ FlatUpTo(g, seqs, n)
    BY <1>3, FlatSolves
  <2> DEFINE T == {i \in 0 .. m : f[i + 1] = g[i + 1]}
  <2>2. m \in Nat /\ m + 1 = n
    BY <1>0, <1>3
  <2>3. 0 \in T
    <3>1. f[1] = t[1] /\ g[1] = seqs[1] /\ t[1] = seqs[1]
      BY <1>0, <1>1, <2>1, <2>2 DEF FlatUpTo
    <3> QED
      BY <2>2, <3>1
  <2>4. ASSUME NEW i \in 0 .. m - 1, i \in T PROVE i + 1 \in T
    <3>1. /\ i + 2 \in 2 .. n /\ i + 2 \in 2 .. n + 1 /\ i + 2 \in 1 .. n /\ (i + 2) - 1 = i + 1
          /\ i + 1 \in 0 .. m /\ (i + 1) + 1 = i + 2
      BY <2>2
    <3>2. f[i + 2] = f[i + 1] \o t[i + 2] /\ g[i + 2] = g[i + 1] \o seqs[i + 2] /\ t[i + 2] = seqs[i + 2]
      BY <1>0, <1>1, <2>1, <3>1 DEF FlatUpTo
    <3>3. f[i + 1] = g[i + 1]
      BY <2>4
    <3>4. f[i + 2] = g[i + 2]
      BY <3>2, <3>3, Zenon
    <3> QED
      BY <3>1, <3>4
  <2> HIDE DEF T, m
  <2>5. \A k \in 0 .. m : k \in T
    BY <2>2, <2>3, <2>4, CountsUp
  <2>6. f[n] = g[n]
    <3>1. m \in T
      BY <2>2, <2>5
    <3> QED
      BY <2>2, <3>1 DEF T
  <2>7. f[n + 1] = f[n] \o x
    <3>1. n + 1 \in 2 .. n + 1 /\ (n + 1) - 1 = n
      BY <1>0, <1>3
    <3> QED
      BY <1>0, <1>1, <3>1 DEF FlatUpTo
  <2> QED
    BY <1>0, <1>1, <2>1, <2>6, <2>7, Zenon DEF t
<1> QED
  BY <1>2, <1>3

\* and parts of one entry each are a list again.
LEMMA FlatSingles ==
    ASSUME NEW S, NEW s \in Seq(S), NEW seqs \in Seq(Seq(S)), Len(seqs) = Len(s), \A i \in 1 .. Len(s) : seqs[i] = <<s[i]>>
    PROVE  FlattenSeq(seqs) = s
<1>1. CASE Len(s) = 0
  <2>1. seqs = <<>> /\ FlattenSeq(seqs) = <<>> /\ s = <<>>
    BY <1>1 DEF FlattenSeq
  <2> QED
    BY <2>1
<1>2. CASE Len(s) # 0
  <2> DEFINE m == Len(s) - 1
             Begins(r, k) == r \in Seq(S) /\ Len(r) = k /\ \A j \in 1 .. k : r[j] = s[j]
  <2>0. m \in Nat /\ m + 1 = Len(s) /\ \A i \in 1 .. m + 1 : s[i] \in S
    BY <1>2
  <2>1. PICK f : f[Len(s)] = FlattenSeq(seqs) /\ FlatUpTo(f, seqs, Len(s))
    BY <1>2, FlatSolves
  <2> DEFINE T == {i \in 0 .. m : Begins(f[i + 1], i + 1)}
  <2>2. 0 \in T
    <3>1. f[1] = <<s[1]>> /\ s[1] \in S
      BY <2>0, <2>1 DEF FlatUpTo
    <3>2. Begins(<<s[1]>>, 1)
      BY <3>1
    <3> HIDE DEF Begins
    <3>3. Begins(f[0 + 1], 0 + 1)
      <4>1. 0 + 1 = 1
        OBVIOUS
      <4> QED
        BY <3>1, <3>2, <4>1, Zenon
    <3> QED
      BY <2>0, <3>3
  <2>3. ASSUME NEW i \in 0 .. m - 1, i \in T PROVE i + 1 \in T
    <3>1. /\ i + 2 \in 2 .. Len(s) /\ i + 2 \in 1 .. Len(s) /\ (i + 2) - 1 = i + 1 /\ i + 1 \in 0 .. m
          /\ (i + 1) + 1 = i + 2 /\ i \in Nat /\ i + 2 \in 1 .. m + 1
      BY <2>0
    <3>2. f[i + 2] = f[i + 1] \o <<s[i + 2]>> /\ s[i + 2] \in S
      BY <2>0, <2>1, <3>1 DEF FlatUpTo
    <3>3. Begins(f[i + 1], i + 1)
      BY <2>3
    <3>4. ASSUME NEW r, Begins(r, i + 1) PROVE Begins(r \o <<s[i + 2]>>, i + 2)
      <4> DEFINE q == r \o <<s[i + 2]>>
      <4>1. r \in Seq(S) /\ Len(r) = i + 1 /\ \A j \in 1 .. i + 1 : r[j] = s[j]
        BY <3>4
      <4>2. q \in Seq(S) /\ Len(q) = i + 2 /\ q[i + 2] = s[i + 2] /\ \A j \in 1 .. i + 1 : q[j] = r[j]
        BY <3>1, <3>2, <4>1
      <4>3. 1 .. i + 2 = 1 .. i + 1 \cup {i + 2}
        BY <3>1
      <4> HIDE DEF q
      <4>4. Begins(q, i + 2)
        BY <4>1, <4>2, <4>3
      <4> QED
        BY <4>4 DEF q
    <3> HIDE DEF Begins
    <3>5. Begins(f[i + 2], i + 2)
      BY <3>2, <3>3, <3>4, Zenon
    <3> QED
      BY <3>1, <3>5
  <2> HIDE DEF T, m
  <2>4. \A k \in 0 .. m : k \in T
    BY <2>0, <2>2, <2>3, CountsUp
  <2>5. Begins(f[m + 1], m + 1)
    <3>1. m \in T
      BY <2>0, <2>4
    <3> QED
      BY <3>1 DEF T
  <2>6. PICK r : r = FlattenSeq(seqs)
    OBVIOUS
  <2>7. r \in Seq(S) /\ Len(r) = Len(s) /\ \A j \in 1 .. Len(s) : r[j] = s[j]
    BY <2>0, <2>1, <2>5, <2>6
  <2>8. r = s
    BY <2>7, SameList
  <2> QED
    BY <2>6, <2>8
<1> QED
  BY <1>1, <1>2

----------------------------------------------------------------------------
(* What is stated of a result.                                             *)

\* A name says exactly the rights of its mask (mask.rs).
LEMMA NameIs ==
    ASSUME NEW mask
    PROVE  Said(decompose(mask)) = mask
<1> DEFINE held == {i \in DOMAIN StandardLevels : StandardLevels[i] \subseteq mask}
<1>1. DOMAIN StandardLevels \subseteq Nat
  BY DEF StandardLevels
<1>2. base_level(mask) \subseteq mask
  <2>1. CASE held = {}
    BY <2>1 DEF base_level
  <2>2. CASE held # {}
    <3>1. held \subseteq Nat
      BY <1>1
    <3>2. Min(held) \in held
      <4> HIDE DEF held
      <4> QED
        BY <2>2, <3>1, MinIs
    <3>3. base_level(mask) = StandardLevels[Min(held)]
      BY <2>2 DEF base_level
    <3> QED
      BY <3>2, <3>3
  <2> QED
    BY <2>1, <2>2
<1>3. PICK base : base = base_level(mask)
  OBVIOUS
<1>4. decompose(mask) = IF base = ReadExecute /\ Write \subseteq mask
                        THEN [base |-> base, write |-> TRUE, extras |-> (mask \ base) \ Write]
                        ELSE [base |-> base, write |-> FALSE, extras |-> mask \ base]
  BY <1>3 DEF decompose
<1>5. CASE base = ReadExecute /\ Write \subseteq mask
  <2>1. decompose(mask) = [base |-> base, write |-> TRUE, extras |-> (mask \ base) \ Write]
    BY <1>4, <1>5, Zenon
  <2>2. Said(decompose(mask)) = base \cup ((mask \ base) \ Write) \cup Write
    BY <2>1 DEF Said
  <2> QED
    BY <1>2, <1>3, <1>5, <2>2
<1>6. CASE ~ (base = ReadExecute /\ Write \subseteq mask)
  <2>1. decompose(mask) = [base |-> base, write |-> FALSE, extras |-> mask \ base]
    BY <1>4, <1>6, Zenon
  <2>2. Said(decompose(mask)) = base \cup (mask \ base) \cup {}
    BY <2>1 DEF Said
  <2> QED
    BY <1>2, <1>3, <2>2
<1> QED
  BY <1>5, <1>6
LEMMA StatementIs ==
    ASSUME NEW mask, NEW d
    PROVE  rights_statement(mask, d).said = mask /\ rights_statement(mask, d).fact = d
  BY NameIs DEF rights_statement

\* A descriptor read without anything left out is the object's (acl.rs).
LEMMA ParsedIs ==
    ASSUME NEW o, IsList(o.aces)
    PROVE  LET d == parse_security(o) IN
           /\ d.kind = o.dacl /\ d.unsupported \in Nat /\ IsList(d.aces)
           /\ d.kind = "Null" => d.unsupported = 0
           /\ d.kind = "Unreadable" => d.unsupported = 1
           /\ d.kind # "Null" /\ d.unsupported = 0 => o.dacl # "Unreadable" /\ d.aces = o.aces
<1> DEFINE S == Range(o.aces)
           parts == [i \in DOMAIN o.aces |-> parse_ace(o.aces[i])]
           lost == {i \in DOMAIN o.aces : parse_ace(o.aces[i]) = <<>>}
           d == parse_security(o)
<1>0. IsList(<<>>)
  <2>1. <<>> \in Seq(Range(<<>>))
    OBVIOUS
  <2> QED
    BY <2>1 DEF IsList
<1>1. o.aces \in Seq(S) /\ Len(o.aces) \in Nat /\ DOMAIN o.aces = 1 .. Len(o.aces) /\ \A i \in DOMAIN o.aces : o.aces[i] \in S
  BY ListIs DEF IsList
<1>2. \A i \in DOMAIN o.aces : parse_ace(o.aces[i]) \in {<<o.aces[i]>>, <<>>}
  BY DEF parse_ace
<1>3. parts \in Seq(Seq(S)) /\ Len(parts) = Len(o.aces)
  <2> HIDE DEF S
  <2>1. PICK n : n = Len(o.aces)
    OBVIOUS
  <2>2. \A i \in 1 .. n : parse_ace(o.aces[i]) \in Seq(S)
    <3> SUFFICES ASSUME NEW i \in 1 .. n PROVE parse_ace(o.aces[i]) \in Seq(S)
      OBVIOUS
    <3>1. o.aces[i] \in S /\ parse_ace(o.aces[i]) \in {<<o.aces[i]>>, <<>>}
      BY <1>1, <1>2, <2>1
    <3>2. \A a \in S : <<a>> \in Seq(S) /\ <<>> \in Seq(S)
      OBVIOUS
    <3> QED
      BY <3>1, <3>2
  <2>3. parts = [i \in 1 .. n |-> parse_ace(o.aces[i])] /\ n \in Nat
    BY <1>1, <2>1
  <2>4. ASSUME NEW q, q = [i \in 1 .. n |-> parse_ace(o.aces[i])] PROVE q \in Seq(Seq(S)) /\ Len(q) = n
    <3>1. DOMAIN q = 1 .. n /\ \A i \in 1 .. n : q[i] \in Seq(S)
      BY <2>2, <2>4
    <3>2. q \in [1 .. n -> Seq(S)]
      BY <2>2, <2>4
    <3> QED
      BY <2>3, <3>2
  <2> HIDE DEF parts
  <2> QED
    BY <2>1, <2>3, <2>4
<1>4. FlattenSeq(parts) \in Seq(S)
  <2> HIDE DEF S, parts
  <2> QED
    BY <1>3, FlatHolds
<1>5. \A s : s \in Seq(S) => IsList(s)
  <2> SUFFICES ASSUME NEW s \in Seq(S) PROVE IsList(s)
    OBVIOUS
  <2>1. s \in Seq({s[i] : i \in 1 .. Len(s)}) /\ DOMAIN s = 1 .. Len(s)
    OBVIOUS
  <2> QED
    BY <2>1 DEF IsList, Range
<1>6. IsFiniteSet(lost) /\ Cardinality(lost) \in Nat
  <2>1. IsFiniteSet(1 .. Len(o.aces))
    BY <1>1, FS_Interval
  <2>2. lost \subseteq 1 .. Len(o.aces)
    BY <1>1
  <2>3. IsFiniteSet(lost)
    BY <2>1, <2>2, FS_Subset
  <2> QED
    BY <2>3, FS_CardinalityType
<1>7. Cardinality(lost) = 0 => FlattenSeq(parts) = o.aces
  <2> SUFFICES ASSUME Cardinality(lost) = 0 PROVE FlattenSeq(parts) = o.aces
    OBVIOUS
  <2>1. lost = {}
    <3> HIDE DEF lost
    <3> QED
      BY <1>6, FS_EmptySet
  <2>2. \A i \in 1 .. Len(o.aces) : parts[i] = <<o.aces[i]>>
    BY <1>1, <1>2, <2>1
  <2> HIDE DEF parts, S, lost
  <2> QED
    BY <1>1, <1>3, <2>2, FlatSingles
<1>8. CASE o.dacl = "Null"
  <2>1. d = [kind |-> "Null", aces |-> <<>>, unsupported |-> 0]
    BY <1>8 DEF parse_security
  <2> QED
    BY <1>0, <1>8, <2>1
<1>9. CASE o.dacl = "Unreadable"
  <2>1. d = [kind |-> "Unreadable", aces |-> <<>>, unsupported |-> 1]
    BY <1>9 DEF parse_security, parse_dacl
  <2> QED
    BY <1>0, <1>9, <2>1
<1>10. CASE o.dacl # "Null" /\ o.dacl # "Unreadable"
  <2>1. d = [kind |-> o.dacl, aces |-> FlattenSeq(parts), unsupported |-> Cardinality(lost)]
    BY <1>10 DEF parse_security, parse_dacl
  <2> HIDE DEF parts, lost, S
  <2>2. d.kind = o.dacl /\ d.aces = FlattenSeq(parts) /\ d.unsupported = Cardinality(lost)
    BY <2>1
  <2>3. IsList(d.aces)
    BY <1>4, <1>5, <2>2, Zenon
  <2> HIDE DEF d
  <2>4. d.unsupported \in Nat /\ (d.unsupported = 0 => d.aces = o.aces)
    BY <1>6, <1>7, <2>2, Zenon
  <2> QED
    BY <1>10, <2>2, <2>3, <2>4 DEF d
<1> QED
  BY <1>8, <1>9, <1>10

----------------------------------------------------------------------------
(* What a result leaves open.                                              *)

\* The layers of the markers (DiagnosticCode, model.rs).
LEMMA LayerIs ==
    ASSUME NEW d
    PROVE  /\ d.v = "UnsupportedShareAces" => uncertain_layer(d) = {"Share"}
           /\ d.v \in NtfsMarkers => uncertain_layer(d) = {"Ntfs"}
           /\ d.v \in TokenMarkers => uncertain_layer(d) = {"Token"}
           /\ d.v = "SelectiveAuthenticationUnknown" /\ d.open => uncertain_layer(d) = {"Logon"}
           /\ d.v = "DfsTargetEvaluated" /\ d.open => uncertain_layer(d) = {"Target"}
<1>1. CASE d.v = "UnsupportedShareAces"
  BY <1>1 DEF uncertain_layer, NtfsMarkers, TokenMarkers
<1>2. CASE d.v \in NtfsMarkers
  BY <1>2 DEF uncertain_layer, NtfsMarkers, TokenMarkers
<1>3. CASE d.v \in TokenMarkers
  BY <1>3 DEF uncertain_layer, NtfsMarkers, TokenMarkers
<1>4. CASE d.v = "SelectiveAuthenticationUnknown"
  BY <1>4 DEF uncertain_layer, NtfsMarkers, TokenMarkers
<1>5. CASE d.v = "DfsTargetEvaluated"
  BY <1>5 DEF uncertain_layer, NtfsMarkers, TokenMarkers
<1> QED
  BY <1>1, <1>2, <1>3, <1>4, <1>5

\* The markers of a result before the logon is added, and the logon's.
KnownMarkers(fso) ==
    facts.markers \cup facts.dfs \cup LogonMarkers \cup logon_dependent(fso)
    \cup (IF facts.unsupported > 0 THEN {Marker("UnsupportedShareAces")} ELSE {})
    \cup (IF fso.unsupported > 0 THEN {Marker("UnsupportedNtfsAces")} ELSE {})
ResultOf(o, fso, n, ds) ==
    [at |-> n, ntfs |-> ntfs_mask(fso), effective |-> effective_mask(fso),
     share |-> IF facts.status = "Applied" THEN <<facts.mask>> ELSE <<>>,
     status |-> facts.status, local |-> facts.local, unsupported |-> fso.unsupported,
     kind |-> facts.kind, disabled |-> facts.disabled, sensitive |-> o.sensitive,
     contributing |-> contributing(fso.aces, facts.known),
     matched |-> {a \in Range(fso.aces) : a.id \in facts.known}, diagnostics |-> ds]
LEMMA ResultIs ==
    ASSUME NEW o, NEW fso, NEW n
    PROVE  \E ds : /\ evaluated(o, fso, n) = ResultOf(o, fso, n, ds) /\ KnownMarkers(fso) \subseteq ds
                   /\ facts.logon = "Unknown" =>
                        \E open : OpenMarker("SelectiveAuthenticationUnknown", open) \in ds
                                  /\ (~ open => effective_mask(fso) = {})
<1> DEFINE p == ResultOf(o, fso, n, KnownMarkers(fso))
           open == ~ (p.effective = {} /\ ~ is_incomplete(p))
<1>1. evaluated(o, fso, n) = IF facts.logon = "Unknown" THEN Layers(p) ELSE p
  BY DEF evaluated, ResultOf, KnownMarkers
<1>2. p.effective = effective_mask(fso) /\ p.diagnostics = KnownMarkers(fso)
  BY DEF ResultOf
<1>3. CASE facts.logon = "Unknown"
  <2> DEFINE ds == KnownMarkers(fso) \cup {OpenMarker("SelectiveAuthenticationUnknown", open)}
  <2>1. evaluated(o, fso, n) = [p EXCEPT !.diagnostics = @ \cup {OpenMarker("SelectiveAuthenticationUnknown", open)}]
    BY <1>1, <1>3 DEF Layers
  <2> HIDE DEF open
  <2>2. evaluated(o, fso, n) = ResultOf(o, fso, n, ds)
    BY <2>1 DEF ResultOf
  <2>3. OpenMarker("SelectiveAuthenticationUnknown", open) \in ds /\ (~ open => effective_mask(fso) = {})
    BY <1>2 DEF open
  <2>4. KnownMarkers(fso) \subseteq ds
    OBVIOUS
  <2> HIDE DEF ds
  <2> QED
    BY <2>2, <2>3, <2>4
<1>4. CASE facts.logon # "Unknown"
  BY <1>1, <1>4
<1> QED
  BY <1>3, <1>4
LEMMA FieldsAre ==
    ASSUME NEW o, NEW fso, NEW n, NEW ds, NEW p, p = ResultOf(o, fso, n, ds)
    PROVE  /\ p.at = n /\ p.ntfs = ntfs_mask(fso) /\ p.effective = effective_mask(fso) /\ p.status = facts.status
           /\ p.share = (IF facts.status = "Applied" THEN <<facts.mask>> ELSE <<>>)
           /\ p.local = facts.local /\ p.unsupported = fso.unsupported /\ p.kind = facts.kind
           /\ p.disabled = facts.disabled /\ p.sensitive = o.sensitive /\ p.diagnostics = ds
           /\ p.contributing = contributing(fso.aces, facts.known)
           /\ p.matched = {a \in Range(fso.aces) : a.id \in facts.known}
  BY DEF ResultOf

\* What a result does not leave open was known (EffectivePermission::uncertainty).
LEMMA KnownLayers ==
    ASSUME NEW o, NEW fso, fso.unsupported \in Nat, facts.unsupported \in Nat, NEW n, NEW p, p = evaluated(o, fso, n)
    PROVE  /\ "Token" \notin uncertainty(p) => TokenKnown
           /\ "Ntfs" \notin uncertainty(p) => fso.unsupported = 0 /\ logon_dependent(fso) = {}
           /\ "Share" \notin uncertainty(p) => facts.status # "ReadFailed" /\ facts.unsupported = 0
           /\ "Target" \notin uncertainty(p) => ~ \E d \in facts.dfs : d.v = "DfsTargetEvaluated" /\ d.open
           /\ uncertainty(p) = {} /\ facts.logon = "Unknown" => p.effective = {}
<1>1. PICK ds : /\ p = ResultOf(o, fso, n, ds) /\ KnownMarkers(fso) \subseteq ds
                /\ facts.logon = "Unknown" =>
                        \E open : OpenMarker("SelectiveAuthenticationUnknown", open) \in ds
                                  /\ (~ open => effective_mask(fso) = {})
  BY ResultIs
<1>2. p.status = facts.status /\ p.local = facts.local /\ p.diagnostics = ds /\ p.effective = effective_mask(fso)
  BY <1>1, FieldsAre
<1>3. \A d \in ds : uncertain_layer(d) \subseteq uncertainty(p)
  BY <1>2 DEF uncertainty
<1>4. /\ facts.markers \subseteq ds /\ facts.dfs \subseteq ds /\ logon_dependent(fso) \subseteq ds
      /\ facts.unsupported > 0 => Marker("UnsupportedShareAces") \in ds
      /\ fso.unsupported > 0 => Marker("UnsupportedNtfsAces") \in ds
  BY <1>1 DEF KnownMarkers
<1>5. ASSUME "Token" \notin uncertainty(p) PROVE TokenKnown
  <2>1. facts.local # "NotAvailable"
    BY <1>2, <1>5 DEF uncertainty
  <2>2. \A m \in facts.markers : m.v \notin TokenMarkers
    BY <1>3, <1>4, <1>5, LayerIs
  <2> QED
    BY <2>1, <2>2 DEF TokenKnown
<1>6. ASSUME "Ntfs" \notin uncertainty(p) PROVE fso.unsupported = 0 /\ logon_dependent(fso) = {}
  <2>1. \A d \in ds : d.v \notin NtfsMarkers
    BY <1>3, <1>6, LayerIs
  <2>2. Marker("UnsupportedNtfsAces").v \in NtfsMarkers
    BY DEF Marker, NtfsMarkers
  <2>3. ~ (fso.unsupported > 0)
    BY <1>4, <2>1, <2>2
  <2>4. \A d \in logon_dependent(fso) : d.v \in NtfsMarkers
    BY DEF logon_dependent, RangeMarker, NtfsMarkers
  <2> QED
    BY <1>4, <2>1, <2>3, <2>4
<1>7. ASSUME "Share" \notin uncertainty(p) PROVE facts.status # "ReadFailed" /\ facts.unsupported = 0
  <2>1. facts.status # "ReadFailed"
    BY <1>2, <1>7 DEF uncertainty
  <2>2. Marker("UnsupportedShareAces").v = "UnsupportedShareAces"
    BY DEF Marker
  <2>3. ~ (facts.unsupported > 0)
    BY <1>3, <1>4, <1>7, <2>2, LayerIs
  <2> QED
    BY <2>1, <2>3
<1>8. ASSUME "Target" \notin uncertainty(p) PROVE ~ \E d \in facts.dfs : d.v = "DfsTargetEvaluated" /\ d.open
  BY <1>3, <1>4, <1>8, LayerIs
<1>9. ASSUME uncertainty(p) = {}, facts.logon = "Unknown" PROVE p.effective = {}
  <2>1. PICK open : OpenMarker("SelectiveAuthenticationUnknown", open) \in ds /\ (~ open => effective_mask(fso) = {})
    BY <1>1, <1>9
  <2> DEFINE d == OpenMarker("SelectiveAuthenticationUnknown", open)
  <2>2. d.v = "SelectiveAuthenticationUnknown" /\ d.open = open
    BY DEF OpenMarker
  <2>3. ~ open
    <3> SUFFICES ASSUME open PROVE FALSE
      OBVIOUS
    <3> HIDE DEF d
    <3>1. d.open
      BY <2>2, Zenon
    <3>2. uncertain_layer(d) = {"Logon"}
      BY <2>2, <3>1, LayerIs
    <3>3. "Logon" \in uncertainty(p)
      BY <1>3, <2>1, <3>2 DEF d
    <3> QED
      BY <1>9, <3>3
  <2> QED
    BY <1>2, <2>1, <2>3
<1> QED
  BY <1>5, <1>6, <1>7, <1>8, <1>9

----------------------------------------------------------------------------
(* What is true of an object, where it is known.                           *)

NtfsOf(o, t) == IF o.dacl = "Null" THEN Full ELSE granted(o.aces, t)
Tokens == {facts.true, facts.true \cup {LogonSid}}

LEMMA OutcomesAre ==
    ASSUME FactsInv, NEW k
    PROVE  /\ Outcomes(k) # {}
           /\ ~ facts.targets => \A x \in Outcomes(k) : \E t \in Tokens, s \in facts.real :
                 /\ x.ntfs = NtfsOf(Objects[k], t) /\ x.share = s
                 /\ \/ x.effective = {} /\ facts.logon \in {"Refused", "Unknown"}
                    \/ x.effective = NtfsOf(Objects[k], t) \cap s /\ facts.logon # "Refused"
<1> DEFINE refused == CASE facts.logon = "Refused" -> {TRUE} [] facts.logon = "Unknown" -> BOOLEAN [] OTHER -> {FALSE}
           Of(t, s, r) == [ntfs |-> NtfsOf(Objects[k], t), share |-> s,
                           effective |-> IF r THEN {} ELSE NtfsOf(Objects[k], t) \cap s]
           settled == {Of(t, s, r) : t \in Tokens, s \in facts.real, r \in refused}
           elsewhere == IF facts.targets THEN {[ntfs |-> m, share |-> m, effective |-> m] : m \in {{}, Full}} ELSE {}
<1>1. Outcomes(k) = settled \cup elsewhere
  BY DEF Outcomes, NtfsOf, Tokens
<1>2. /\ refused # {} /\ refused \subseteq BOOLEAN
      /\ \A r \in refused : (r = TRUE => facts.logon \in {"Refused", "Unknown"}) /\ (r = FALSE => facts.logon # "Refused")
  OBVIOUS
<1>3. \E s : s \in facts.real
  BY DEF FactsInv
<1>4. facts.true \in Tokens
  BY DEF Tokens
<1>5. \A t, s : Of(t, s, TRUE).effective = {} /\ Of(t, s, FALSE).effective = NtfsOf(Objects[k], t) \cap s
  OBVIOUS
<1>6. \A t, s, r : Of(t, s, r).ntfs = NtfsOf(Objects[k], t) /\ Of(t, s, r).share = s
  OBVIOUS
<1> HIDE DEF refused, Of
<1>7. settled # {}
  BY <1>2, <1>3, <1>4
<1>8. ASSUME ~ facts.targets, NEW x \in Outcomes(k)
      PROVE  \E t \in Tokens, s \in facts.real :
                 /\ x.ntfs = NtfsOf(Objects[k], t) /\ x.share = s
                 /\ \/ x.effective = {} /\ facts.logon \in {"Refused", "Unknown"}
                    \/ x.effective = NtfsOf(Objects[k], t) \cap s /\ facts.logon # "Refused"
  <2>1. PICK t \in Tokens, s \in facts.real, r \in refused : x = Of(t, s, r)
    BY <1>1, <1>8
  <2>2. r = TRUE \/ r = FALSE
    BY <1>2
  <2>3. x.ntfs = NtfsOf(Objects[k], t) /\ x.share = s
    BY <1>6, <2>1, Zenon
  <2>4. CASE r = TRUE
    <3>1. x = Of(t, s, TRUE) /\ facts.logon \in {"Refused", "Unknown"}
      BY <1>2, <2>1, <2>4, Zenon
    <3>2. x.effective = {}
      BY <1>5, <3>1, Zenon
    <3> QED
      BY <2>3, <3>1, <3>2, Zenon
  <2>5. CASE r = FALSE
    <3>1. x = Of(t, s, FALSE) /\ facts.logon # "Refused"
      BY <1>2, <2>1, <2>5, Zenon
    <3>2. x.effective = NtfsOf(Objects[k], t) \cap s
      BY <1>5, <3>1, Zenon
    <3> QED
      BY <2>3, <3>1, <3>2, Zenon
  <2> QED
    BY <2>2, <2>4, <2>5
<1> QED
  BY <1>1, <1>7, <1>8

LEMMA MasksAre ==
    /\ \A aces, t : granted(aces, t) \subseteq Full
    /\ \A fso : ntfs_mask(fso) \subseteq Full /\ effective_mask(fso) \subseteq Full
    /\ \A o, t : NtfsOf(o, t) \subseteq Full
<1>1. \A aces, t : granted(aces, t) \subseteq Full
  BY DEF granted
<1>2. \A fso : ntfs_mask(fso) \subseteq Full
  BY <1>1 DEF ntfs_mask
<1>3. \A fso : effective_mask(fso) \subseteq Full
  BY <1>2 DEF effective_mask
<1> QED
  BY <1>1, <1>2, <1>3 DEF NtfsOf

\* With the whole token and DACL, every possible token has the right that was computed.
LEMMA KnownNtfs ==
    ASSUME NEW o, IsList(o.aces), NEW fso, fso = parse_security(o), fso.unsupported = 0, logon_dependent(fso) = {},
           facts.known = facts.true, NEW t \in Tokens
    PROVE  NtfsOf(o, t) = ntfs_mask(fso)
<1>1. fso.kind = o.dacl /\ (fso.kind # "Null" => fso.aces = o.aces)
  BY ParsedIs
<1>2. CASE o.dacl = "Null"
  BY <1>1, <1>2 DEF NtfsOf, ntfs_mask
<1>3. CASE o.dacl # "Null"
  <2>1. ntfs_mask(fso) = granted(o.aces, facts.known) /\ NtfsOf(o, t) = granted(o.aces, t)
    BY <1>1, <1>3 DEF NtfsOf, ntfs_mask
  <2>2. granted(fso.aces, facts.known \cup {LogonSid}) = ntfs_mask(fso)
    BY <1>1, <1>3 DEF logon_dependent
  <2>3. t = facts.known \/ t = facts.known \cup {LogonSid}
    BY DEF Tokens
  <2> QED
    BY <1>1, <1>3, <2>1, <2>2, <2>3
<1> QED
  BY <1>2, <1>3

LEMMA KnownOutcomes ==
    ASSUME FactsInv, ~ facts.unseen, NEW k, IsList(Objects[k].aces), NEW n, NEW p,
           p = evaluated(Objects[k], parse_security(Objects[k]), n)
    PROVE  /\ ntfs_determinable(p) => {x.ntfs : x \in Outcomes(k)} = {p.ntfs}
           /\ p.share # <<>> /\ share_determinable(p) => {x.share : x \in Outcomes(k)} = {p.share[1]}
           /\ effective_determinable(p) => {x.effective : x \in Outcomes(k)} = {p.effective}
<1> DEFINE o == Objects[k]
           fso == parse_security(Objects[k])
           u == uncertainty(p)
<1>1. fso.unsupported \in Nat
  BY ParsedIs
<1>2. PICK ds : p = ResultOf(o, fso, n, ds)
  BY ResultIs
<1>3. /\ p.ntfs = ntfs_mask(fso) /\ p.effective = effective_mask(fso)
      /\ p.share = (IF facts.status = "Applied" THEN <<facts.mask>> ELSE <<>>)
  BY <1>2, FieldsAre
<1>4. /\ "Token" \notin u => TokenKnown
      /\ "Ntfs" \notin u => fso.unsupported = 0 /\ logon_dependent(fso) = {}
      /\ "Share" \notin u => facts.status # "ReadFailed" /\ facts.unsupported = 0
      /\ "Target" \notin u => ~ \E d \in facts.dfs : d.v = "DfsTargetEvaluated" /\ d.open
      /\ u = {} /\ facts.logon = "Unknown" => p.effective = {}
  <2>1. facts.unsupported \in Nat
    BY DEF FactsInv
  <2> HIDE DEF o, fso
  <2> QED
    BY <1>1, <2>1, KnownLayers DEF o, fso
<1>5. "Token" \notin u => facts.known = facts.true
  BY <1>4 DEF FactsInv
<1>6. "Target" \notin u => ~ facts.targets
  BY <1>4 DEF FactsInv
<1>7. "Token" \notin u /\ "Ntfs" \notin u => \A t \in Tokens : NtfsOf(o, t) = p.ntfs
  BY <1>3, <1>4, <1>5, KnownNtfs
<1>8. "Token" \notin u /\ "Share" \notin u =>
         /\ facts.status = "Applied" => facts.real = {facts.mask}
         /\ facts.status # "Applied" => facts.real = {Full}
  BY <1>4, <1>5 DEF FactsInv
<1> HIDE DEF u, fso, o
<1>9. Outcomes(k) # {}
  BY OutcomesAre
<1>10. ASSUME "Target" \notin u, NEW x \in Outcomes(k)
       PROVE  \E t \in Tokens, s \in facts.real :
                 /\ x.ntfs = NtfsOf(o, t) /\ x.share = s
                 /\ \/ x.effective = {} /\ facts.logon \in {"Refused", "Unknown"}
                    \/ x.effective = NtfsOf(o, t) \cap s /\ facts.logon # "Refused"
  BY <1>6, <1>10, OutcomesAre DEF o
<1>11. ASSUME ntfs_determinable(p) PROVE {x.ntfs : x \in Outcomes(k)} = {p.ntfs}
  <2>1. "Token" \notin u /\ "Ntfs" \notin u /\ "Target" \notin u
    BY <1>11 DEF ntfs_determinable, u
  <2>2. \A x \in Outcomes(k) : x.ntfs = p.ntfs
    BY <1>7, <1>10, <2>1
  <2> QED
    BY <1>9, <2>2
<1>12. ASSUME p.share # <<>>, share_determinable(p) PROVE {x.share : x \in Outcomes(k)} = {p.share[1]}
  <2>1. "Token" \notin u /\ "Share" \notin u /\ "Target" \notin u
    BY <1>12 DEF share_determinable, u
  <2>2. facts.status = "Applied" /\ p.share[1] = facts.mask
    BY <1>3, <1>12
  <2>3. \A x \in Outcomes(k) : x.share = p.share[1]
    BY <1>8, <1>10, <2>1, <2>2
  <2> QED
    BY <1>9, <2>3
<1>13. ASSUME effective_determinable(p) PROVE {x.effective : x \in Outcomes(k)} = {p.effective}
  <2>1. u = {}
    BY <1>13 DEF effective_determinable, u
  <2>2. ASSUME NEW x \in Outcomes(k) PROVE x.effective = p.effective
    <3>1. PICK t \in Tokens, s \in facts.real :
                 \/ x.effective = {} /\ facts.logon \in {"Refused", "Unknown"}
                 \/ x.effective = NtfsOf(o, t) \cap s /\ facts.logon # "Refused"
      BY <1>10, <2>1, <2>2
    <3>2. CASE x.effective = {} /\ facts.logon \in {"Refused", "Unknown"}
      <4>1. p.effective = {}
        BY <1>3, <1>4, <2>1, <3>2 DEF effective_mask
      <4> QED
        BY <3>2, <4>1
    <3>3. CASE x.effective = NtfsOf(o, t) \cap s /\ facts.logon # "Refused"
      <4>1. NtfsOf(o, t) = ntfs_mask(fso) /\ ntfs_mask(fso) \subseteq Full
        BY <1>3, <1>7, <2>1, MasksAre
      <4>2. facts.status = "Applied" => s = facts.mask
        BY <1>8, <2>1
      <4>3. facts.status # "Applied" => s = Full
        BY <1>8, <2>1
      <4>4. p.effective = IF facts.status = "Applied" THEN ntfs_mask(fso) \cap facts.mask ELSE ntfs_mask(fso)
        BY <1>3, <3>3 DEF effective_mask
      <4> QED
        BY <3>3, <4>1, <4>2, <4>3, <4>4
    <3> QED
      BY <3>1, <3>2, <3>3
  <2> QED
    BY <1>9, <2>2
<1> QED
  BY <1>11, <1>12, <1>13

----------------------------------------------------------------------------
(* What the pages say of a result.                                         *)

Stated(mask, d) == [said |-> mask, fact |-> d]
LEMMA AsStated ==
    ASSUME NEW mask, NEW d
    PROVE  rights_statement(mask, d) = Stated(mask, d)
  BY NameIs DEF rights_statement, Stated

LEMMA PagesAre ==
    ASSUME NEW p, NEW page \in LivePages(p)
    PROVE  /\ page.ntfs \in {Stated(p.ntfs, ntfs_determinable(p)), NoStatement}
           /\ p.share # <<>> => page.share \in {Stated(p.share[1], share_determinable(p)), NoStatement}
           /\ page.effective = Stated(p.effective, effective_determinable(p))
           /\ page.account \in {AccountStatus(p), "Unknown"}
           /\ effective_determinable(p) \/ page.attention
<1> DEFINE N == Stated(p.ntfs, ntfs_determinable(p))
           E == Stated(p.effective, effective_determinable(p))
           S == Stated(p.share[1], share_determinable(p))
           Fits(q) == /\ q.ntfs \in {N, NoStatement}
                      /\ p.share # <<>> => q.share \in {S, NoStatement}
                      /\ q.effective = E /\ q.account \in {AccountStatus(p), "Unknown"}
                      /\ effective_determinable(p) \/ q.attention
<1>1. NtfsStated(p) = N /\ EffectiveStated(p) = E
  BY AsStated DEF NtfsStated, EffectiveStated
<1>2. p.share # <<>> => ShareStated(p) = S
  BY AsStated DEF ShareStated
<1>3. p.share # <<>> => share_line(p) \in {S, NoStatement}
  BY <1>2 DEF share_line
<1>4. ~ effective_determinable(p) => uncertainty(p) # {}
  BY DEF effective_determinable
<1>5. \A n, s, e, a, t : LET q == Page(n, s, e, a, t) IN q.ntfs = n /\ q.share = s /\ q.effective = e /\ q.account = a /\ q.attention = t
  BY DEF Page
<1> HIDE DEF N, E, S
<1>6. ASSUME NEW n \in {N, NoStatement}, NEW s, p.share # <<>> => s \in {S, NoStatement},
             NEW a \in {AccountStatus(p), "Unknown"}, NEW t, effective_determinable(p) \/ t
      PROVE  Fits(Page(n, s, E, a, t))
  BY <1>5, <1>6
<1> HIDE DEF Fits
<1>7. Fits(print_report(p))
  BY <1>1, <1>3, <1>4, <1>6 DEF print_report
<1>8. Fits(scan_row(p))
  BY <1>1, <1>6 DEF scan_row
<1>9. Fits(record_for(p))
  BY <1>1, <1>2, <1>4, <1>6 DEF record_for
<1>10. Fits(JsonPermission(p))
  <2>1. JsonPermission(p) = Page(N, IF p.share = <<>> THEN NoStatement ELSE S, E, AccountStatus(p),
                                 uncertainty(p) # {} \/ p.diagnostics # {})
    BY DEF JsonPermission, N, E, S, Stated
  <2> QED
    BY <1>4, <1>6, <2>1
<1>11. Fits(rights_cell(p))
  BY <1>1, <1>2, <1>6 DEF rights_cell
<1>12. Fits(ScanRow(p))
  <2>1. effective_determinable(p) \/ row_severity(p) # 0
    BY DEF row_severity
  <2> QED
    BY <1>1, <1>6, <2>1 DEF ScanRow
<1>13. Fits(apply_result(p))
  BY <1>1, <1>3, <1>6 DEF apply_result
<1>14. Fits(page)
  BY <1>7, <1>8, <1>9, <1>10, <1>11, <1>12, <1>13, Zenon DEF LivePages
<1> QED
  BY <1>14 DEF Fits, N, E, S

\* The account's state, where it is stated, is the one that is known.
LEMMA AccountIs ==
    ASSUME NEW p, NEW f, p.kind = f.kind, p.disabled = f.disabled, f.diagnostics \subseteq p.diagnostics,
           AccountStatus(p) \in {"Active", "Disabled"}
    PROVE  AccountStatus(f) = AccountStatus(p)
<1>1. \A v : Has(f, v) => Has(p, v)
  BY DEF Has
<1>2. p.kind # "Orphaned" /\ p.kind \notin {"Group", "WellKnown"} /\ p.kind # "Unknown"
  BY DEF AccountStatus
<1>3. AccountStatus(p) = IF \E v \in {"IdentityDisabledStatusUnknown", "IdentityNotResolvable", "IdentityLookupFailed"} : Has(p, v)
                         THEN "Unknown" ELSE IF p.disabled THEN "Disabled" ELSE "Active"
  BY <1>2 DEF AccountStatus
<1>4. AccountStatus(f) = IF \E v \in {"IdentityDisabledStatusUnknown", "IdentityNotResolvable", "IdentityLookupFailed"} : Has(f, v)
                         THEN "Unknown" ELSE IF f.disabled THEN "Disabled" ELSE "Active"
  BY <1>2 DEF AccountStatus
<1>5. ~ \E v \in {"IdentityDisabledStatusUnknown", "IdentityNotResolvable", "IdentityLookupFailed"} : Has(p, v)
  BY <1>3
<1> QED
  BY <1>1, <1>3, <1>4, <1>5

Account(ds) == AccountStatus([kind |-> facts.kind, disabled |-> facts.disabled, diagnostics |-> ds])
LEMMA AccountOf ==
    ASSUME FactsInv, NEW p, p.kind = facts.kind, p.disabled = facts.disabled, facts.markers \subseteq p.diagnostics,
           AccountStatus(p) \in {"Active", "Disabled"}
    PROVE  AccountStatus(p) = facts.account
<1> DEFINE f == [kind |-> facts.kind, disabled |-> facts.disabled, diagnostics |-> facts.markers]
<1>1. f.kind = facts.kind /\ f.disabled = facts.disabled /\ f.diagnostics = facts.markers
  OBVIOUS
<1>2. AccountStatus(f) \in {"Active", "Disabled"} => AccountStatus(f) = facts.account
  BY DEF FactsInv
<1> HIDE DEF f
<1>3. AccountStatus(f) = AccountStatus(p)
  BY <1>1, AccountIs
<1> QED
  BY <1>2, <1>3

LEMMA ResultPagesAreTrue ==
    ASSUME FactsInv, ~ facts.unseen, NEW k, IsList(Objects[k].aces), NEW n, NEW p,
           p = evaluated(Objects[k], parse_security(Objects[k]), n), NEW page \in LivePages(p)
    PROVE  PageIsTrue(page, p, k)
<1>1. /\ ntfs_determinable(p) => {x.ntfs : x \in Outcomes(k)} = {p.ntfs}
      /\ p.share # <<>> /\ share_determinable(p) => {x.share : x \in Outcomes(k)} = {p.share[1]}
      /\ effective_determinable(p) => {x.effective : x \in Outcomes(k)} = {p.effective}
  BY KnownOutcomes
<1>2. /\ page.ntfs \in {Stated(p.ntfs, ntfs_determinable(p)), NoStatement}
      /\ p.share # <<>> => page.share \in {Stated(p.share[1], share_determinable(p)), NoStatement}
      /\ page.effective = Stated(p.effective, effective_determinable(p))
      /\ page.account \in {AccountStatus(p), "Unknown"}
      /\ effective_determinable(p) \/ page.attention
  BY PagesAre
<1> DEFINE RN == {x.ntfs : x \in Outcomes(k)}
           RS == {x.share : x \in Outcomes(k)}
           RE == {x.effective : x \in Outcomes(k)}
<1>3. /\ ntfs_determinable(p) => RN = {p.ntfs}
      /\ p.share # <<>> /\ share_determinable(p) => RS = {p.share[1]}
      /\ effective_determinable(p) => RE = {p.effective}
  BY <1>1, Zenon
<1> HIDE DEF RN, RS, RE
<1>4. IsTrue(page.ntfs, p.ntfs, RN)
  <2>1. page.ntfs.said \in {p.ntfs, {}} /\ (page.ntfs.fact => page.ntfs.said = p.ntfs /\ ntfs_determinable(p))
    BY <1>2 DEF Stated, NoStatement
  <2> QED
    BY <1>3, <2>1 DEF IsTrue
<1>5. p.share # <<>> => IsTrue(page.share, p.share[1], RS)
  <2> SUFFICES ASSUME p.share # <<>> PROVE IsTrue(page.share, p.share[1], RS)
    OBVIOUS
  <2>1. /\ page.share.said \in {p.share[1], {}}
        /\ page.share.fact => page.share.said = p.share[1] /\ share_determinable(p)
    BY <1>2 DEF Stated, NoStatement
  <2> QED
    BY <1>3, <2>1 DEF IsTrue
<1>6. IsTrue(page.effective, p.effective, RE)
  <2>1. page.effective.said = p.effective /\ (page.effective.fact => effective_determinable(p))
    BY <1>2 DEF Stated
  <2> QED
    BY <1>3, <2>1 DEF IsTrue
<1>7. page.account \in {"Active", "Disabled"} => page.account = facts.account
  <2> SUFFICES ASSUME page.account \in {"Active", "Disabled"} PROVE page.account = facts.account
    OBVIOUS
  <2>1. page.account = AccountStatus(p)
    BY <1>2
  <2>2. PICK ds : p = ResultOf(Objects[k], parse_security(Objects[k]), n, ds)
                  /\ KnownMarkers(parse_security(Objects[k])) \subseteq ds
    BY ResultIs
  <2>3. p.kind = facts.kind /\ p.disabled = facts.disabled /\ p.diagnostics = ds
    BY <2>2, FieldsAre
  <2>4. facts.markers \subseteq p.diagnostics
    BY <2>2, <2>3 DEF KnownMarkers
  <2> QED
    BY <2>1, <2>3, <2>4, AccountOf
<1>8. page.effective.fact \/ page.attention
  <2>1. page.effective.fact = effective_determinable(p)
    BY <1>2 DEF Stated
  <2> QED
    BY <1>2, <2>1
<1> QED
  BY <1>4, <1>5, <1>6, <1>7, <1>8, Zenon DEF PageIsTrue, RN, RS, RE

----------------------------------------------------------------------------
(* Tables, headers and lists.                                              *)

\* The three tables of marker colours (output.rs, html.rs, worker.rs).
LEMMA ColoursAgree == TablesAgree
<1> SUFFICES ASSUME NEW v \in AllMarkers, NEW o \in BOOLEAN, NEW d, d = OpenMarker(v, o)
             PROVE  /\ (d \in print_diagnostics({d})) = (severity(d) > 0)
                    /\ badge(d) = <<"neutral", "medium", "high">>[severity(d) + 1]
  BY DEF TablesAgree
<1>1. d.v = v /\ d.open = o
  BY DEF OpenMarker
<1>2. HighBadges = ConcernMarkers /\ MediumBadges = NoticeMarkers /\ Alarming = ConcernMarkers \cup NoticeMarkers
  <2>1. HighBadges = ConcernMarkers
    BY DEF HighBadges, ConcernMarkers
  <2>2. MediumBadges = NoticeMarkers
    BY DEF MediumBadges, NoticeMarkers
  <2>3. Alarming = ConcernMarkers \cup NoticeMarkers
    BY DEF Alarming, ConcernMarkers, NoticeMarkers
  <2> QED
    BY <2>1, <2>2, <2>3
<1>3. OpenMarkers \cap NoticeMarkers = {}
  BY DEF OpenMarkers, NoticeMarkers
<1>4. (d \in print_diagnostics({d})) <=> (d.v \in Alarming \/ (d.v \in OpenMarkers /\ d.open))
  BY DEF print_diagnostics
<1>5. CASE d.v \in ConcernMarkers \/ (d.v \in OpenMarkers /\ d.open)
  <2>1. severity(d) = 2 /\ badge(d) = "high"
    BY <1>2, <1>5 DEF severity, badge
  <2> QED
    BY <1>2, <1>4, <1>5, <2>1
<1>6. CASE ~ (d.v \in ConcernMarkers \/ (d.v \in OpenMarkers /\ d.open)) /\ d.v \in NoticeMarkers
  <2>1. severity(d) = 1 /\ badge(d) = "medium"
    BY <1>2, <1>6 DEF severity, badge
  <2> QED
    BY <1>2, <1>4, <1>6, <2>1
<1>7. CASE ~ (d.v \in ConcernMarkers \/ (d.v \in OpenMarkers /\ d.open)) /\ d.v \notin NoticeMarkers
  <2>1. severity(d) = 0 /\ badge(d) = "neutral"
    BY <1>2, <1>7 DEF severity, badge
  <2> QED
    BY <1>2, <1>4, <1>7, <2>1
<1> QED
  BY <1>5, <1>6, <1>7

\* The cache answers with the descriptor of the same bytes (acl.rs).
ParsedFrom(dacl, aces) == parse_security([dacl |-> dacl, aces |-> aces])
LEMMA BytesDecide ==
    ASSUME NEW o
    PROVE  parse_security(o) = ParsedFrom(o.dacl, o.aces)
<1> DEFINE q == [dacl |-> o.dacl, aces |-> o.aces]
<1>1. q.dacl = o.dacl /\ q.aces = o.aces
  OBVIOUS
<1> HIDE DEF q
<1>2. parse_dacl(q) = parse_dacl(o)
  BY <1>1 DEF parse_dacl
<1>3. parse_security(q) = parse_security(o)
  BY <1>1, <1>2, Zenon DEF parse_security
<1> QED
  BY <1>3 DEF ParsedFrom, q
LEMMA CachedIs ==
    ASSUME CacheInv, NEW k \in DOMAIN Objects
    PROVE  read_file_system_object(Objects[k]) = parse_security(Objects[k])
<1> DEFINE o == Objects[k]
<1>1. CASE ~ cache_hit(o)
  BY <1>1 DEF read_file_system_object
<1>2. CASE cache_hit(o)
  <2>1. o.hash \in DOMAIN cache /\ cache[o.hash] # <<>> /\ cache[o.hash][1].sd = Bytes(o)
    BY <1>2 DEF cache_hit, CacheInv
  <2>2. PICK j \in DOMAIN Objects : cache[o.hash] = <<[sd |-> Bytes(Objects[j]), fields |-> parse_security(Objects[j])]>>
    BY <2>1 DEF CacheInv
  <2>3. cache[o.hash][1].sd = Bytes(Objects[j]) /\ cache[o.hash][1].fields = parse_security(Objects[j])
    BY <2>2
  <2>4. Objects[j].dacl = o.dacl /\ Objects[j].aces = o.aces
    BY <2>1, <2>3 DEF Bytes
  <2>5. parse_security(Objects[j]) = parse_security(o)
    <3> HIDE DEF o
    <3> QED
      BY <2>4, BytesDecide, Zenon
  <2>6. read_file_system_object(o) = cache[o.hash][1].fields
    BY <1>2 DEF read_file_system_object
  <2> QED
    BY <2>3, <2>5, <2>6
<1> QED
  BY <1>1, <1>2

\* The rows of a list of at most one note.
LEMMA NoteRows ==
    /\ SetToSeq({}) = <<>>
    /\ \A y : SetToSeq({y}) = <<y>>
<1>1. SetToSeq({}) = <<>>
  <2>1. Cardinality({}) = 0
    BY FS_EmptySet
  <2> DEFINE F == [1 .. 0 -> {}]
  <2>2. <<>> \in F /\ IsInjective(<<>>) /\ \A f \in F : f = <<>>
    BY DEF IsInjective
  <2>3. SetToSeq({}) = CHOOSE f \in F : IsInjective(f)
    BY <2>1, Zenon DEF SetToSeq
  <2> HIDE DEF F
  <2>4. SetToSeq({}) \in F
    BY <2>2, <2>3
  <2> QED
    BY <2>2, <2>4
<1>2. ASSUME NEW y PROVE SetToSeq({y}) = <<y>>
  <2>1. Cardinality({y}) = 1
    BY FS_Singleton
  <2> DEFINE F == [1 .. 1 -> {y}]
  <2>2. <<y>> \in F /\ \A f \in F : f = <<y>>
    OBVIOUS
  <2>3. IsInjective(<<y>>)
    BY DEF IsInjective
  <2>4. SetToSeq({y}) = CHOOSE f \in F : IsInjective(f)
    BY <2>1, Zenon DEF SetToSeq
  <2> HIDE DEF F
  <2>5. SetToSeq({y}) \in F
    BY <2>2, <2>3, <2>4
  <2> QED
    BY <2>2, <2>5
<1> QED
  BY <1>1, <1>2

LEMMA TrusteeTable ==
    ASSUME NEW t, IsList(t.aces)
    PROVE  /\ t.notes = {} /\ t.aces # <<>> =>
                write_trustees_table(t) = [i \in DOMAIN t.aces |-> AceRow(t.aces[i])]
           /\ \A n : t.notes = {n} =>
                /\ write_trustees_table(t) # <<>>
                /\ \E i \in DOMAIN write_trustees_table(t) : ~ IsAce(write_trustees_table(t)[i])
                /\ t.aces = <<>> => \A i \in DOMAIN write_trustees_table(t) : ~ IsAce(write_trustees_table(t)[i])
<1> DEFINE listed == [i \in DOMAIN t.aces |-> AceRow(t.aces[i])]
           row(n) == TrusteeRow("Diagnostic", 0, {}, n)
           m == Len(t.aces)
<1>1. m \in Nat /\ DOMAIN t.aces = 1 .. m
  BY ListIs
<1>2. PICK R : listed \in Seq(R) /\ Len(listed) = m
  <2> DEFINE A == {AceRow(t.aces[i]) : i \in DOMAIN t.aces}
  <2>1. listed \in [1 .. m -> A]
    BY <1>1
  <2>2. listed \in Seq(A) /\ Len(listed) = m
    <3> HIDE DEF listed, A, m
    <3> QED
      BY <1>1, <2>1
  <2> HIDE DEF listed, A
  <2> QED
    BY <2>2
<1>3. trustee_rows(t) = listed \o SetToSeq({row(n) : n \in t.notes})
  BY DEF trustee_rows
<1>4. \A n : ~ IsAce(row(n))
  BY DEF IsAce, TrusteeRow
<1> HIDE DEF listed, row, m
<1>5. ASSUME t.notes = {}, t.aces # <<>> PROVE write_trustees_table(t) = listed
  <2>1. {row(n) : n \in t.notes} = {}
    BY <1>5
  <2>2. trustee_rows(t) = listed \o <<>>
    BY <1>3, <2>1, NoteRows, Zenon
  <2>3. listed \o <<>> = listed
    BY <1>2
  <2>4. m # 0
    BY <1>1, <1>5 DEF IsList, m
  <2>5. listed # <<>>
    BY <1>2, <2>4
  <2> QED
    BY <2>2, <2>3, <2>5 DEF write_trustees_table
<1>6. ASSUME NEW n, t.notes = {n}
      PROVE  LET w == write_trustees_table(t) IN
             /\ w # <<>> /\ (\E i \in DOMAIN w : ~ IsAce(w[i]))
             /\ t.aces = <<>> => \A i \in DOMAIN w : ~ IsAce(w[i])
  <2>1. PICK y : y = row(n)
    OBVIOUS
  <2>2. {row(x) : x \in t.notes} = {y}
    BY <1>6, <2>1
  <2>3. trustee_rows(t) = listed \o <<y>>
    BY <1>3, <2>2, NoteRows, Zenon
  <2>4. PICK w : w = listed \o <<y>>
    OBVIOUS
  <2>5. Len(w) = m + 1 /\ DOMAIN w = 1 .. m + 1 /\ w[m + 1] = y
    <3>1. listed \in Seq(R \cup {y}) /\ <<y>> \in Seq(R \cup {y}) /\ Len(<<y>>) = 1 /\ <<y>>[1] = y
      BY <1>2
    <3>2. w \in Seq(R \cup {y})
      BY <2>4, <3>1
    <3> QED
      BY <1>1, <1>2, <2>4, <3>1, <3>2
  <2>6. w # <<>> /\ m + 1 \in DOMAIN w
    BY <1>1, <2>5
  <2>7. write_trustees_table(t) = w
    BY <2>3, <2>4, <2>6, Zenon DEF write_trustees_table
  <2>8. ~ IsAce(w[m + 1])
    BY <1>4, <2>1, <2>5, Zenon
  <2>9. ASSUME t.aces = <<>>, NEW i \in DOMAIN w PROVE ~ IsAce(w[i])
    <3>1. m = 0
      BY <2>9 DEF m
    <3>2. i = m + 1
      BY <2>5, <2>9, <3>1
    <3> QED
      BY <2>8, <3>2
  <2> QED
    BY <2>6, <2>7, <2>8, <2>9
<1> QED
  BY <1>5, <1>6 DEF listed

LEMMA TrusteesWhole ==
    ASSUME CacheInv, NEW k \in DOMAIN Objects
    PROVE  TrusteesAreWhole(k)
<1> DEFINE o == Objects[k]
           fso == parse_security(o)
           t == build_path_trustees(fso)
           shown == write_trustees_table(t)
<1>1. read_file_system_object(o) = fso
  BY CachedIs
<1>2. IsList(o.aces)
  BY AuditAssumption
<1>3. /\ fso.kind = o.dacl /\ fso.unsupported \in Nat /\ IsList(fso.aces)
      /\ fso.kind # "Null" /\ fso.unsupported = 0 => o.dacl # "Unreadable" /\ fso.aces = o.aces
  <2> HIDE DEF o
  <2> QED
    BY <1>2, ParsedIs
<1> HIDE DEF o, fso
<1>4. IsList(<<>>)
  <2>1. <<>> \in Seq(Range(<<>>))
    OBVIOUS
  <2> QED
    BY <2>1 DEF IsList
<1>5. CASE fso.kind = "Null"
  <2>1. t.aces = <<>> /\ t.notes = {"NULL DACL"}
    BY <1>5 DEF build_path_trustees
  <2> HIDE DEF t
  <2>2. /\ shown # <<>> /\ \E i \in DOMAIN shown : ~ IsAce(shown[i])
    BY <1>4, <2>1, TrusteeTable, Zenon
  <2>3. t.notes # {"empty DACL"}
    BY <2>1
  <2> HIDE DEF shown
  <2> QED
    BY <1>1, <2>2, <2>3, Zenon DEF TrusteesAreWhole, o, fso, t, shown
<1>6. CASE fso.kind # "Null"
  <2>0. PICK e : e = "empty DACL"
    OBVIOUS
  <2>1. /\ t.aces = fso.aces
        /\ t.notes = IF fso.kind = "Unreadable" THEN {"unknown"}
                    ELSE IF fso.unsupported > 0 THEN {"incomplete"}
                    ELSE IF fso.aces = <<>> THEN {e} ELSE {}
    BY <1>6, <2>0, Zenon DEF build_path_trustees
  <2>10. e # "unknown" /\ e # "incomplete"
    BY <2>0, Zenon
  <2> HIDE DEF t
  <2>2. CASE t.notes = {}
    <3>1. fso.unsupported = 0 /\ fso.aces # <<>>
      <4>1. \A x : t.notes # {x}
        BY <2>2
      <4>2. fso.kind # "Unreadable" /\ ~ (fso.unsupported > 0) /\ fso.aces # <<>>
        BY <2>1, <4>1, Zenon
      <4> QED
        BY <1>3, <4>2
    <3>2. t.aces = o.aces /\ t.aces # <<>>
      BY <1>3, <1>6, <2>1, <3>1
    <3>3. shown = [i \in DOMAIN t.aces |-> AceRow(t.aces[i])]
      BY <1>3, <2>1, <2>2, <3>2, TrusteeTable, Zenon
    <3>4. shown # <<>>
      <4>1. Len(t.aces) \in Nat /\ DOMAIN t.aces = 1 .. Len(t.aces)
        BY <1>3, <2>1, ListIs
      <4>2. Len(t.aces) # 0
        BY <1>3, <2>1, <3>2 DEF IsList
      <4>3. 1 \in DOMAIN shown
        BY <3>3, <4>1, <4>2
      <4> QED
        BY <4>3
    <3>5. shown = [i \in DOMAIN o.aces |-> AceRow(o.aces[i])]
      BY <3>2, <3>3, Zenon
    <3>6. t.notes # {"empty DACL"}
      BY <2>2, Zenon
    <3> HIDE DEF shown
    <3> QED
      BY <1>1, <3>4, <3>5, <3>6, Zenon DEF TrusteesAreWhole, o, fso, t, shown
  <2>3. CASE t.notes # {}
    <3>1. PICK n : t.notes = {n}
      BY <2>1, <2>3
    <3>2. /\ shown # <<>> /\ (\E i \in DOMAIN shown : ~ IsAce(shown[i]))
          /\ t.aces = <<>> => \A i \in DOMAIN shown : ~ IsAce(shown[i])
      BY <1>3, <2>1, <3>1, TrusteeTable, Zenon
    <3>3. t.notes = {e} => t.aces = <<>> /\ o.aces = <<>>
      <4> SUFFICES ASSUME t.notes = {e} PROVE t.aces = <<>> /\ o.aces = <<>>
        OBVIOUS
      <4>0. t.notes # {"unknown"} /\ t.notes # {"incomplete"} /\ t.notes # {}
        BY <2>10, Zenon
      <4>2. fso.kind # "Unreadable" /\ ~ (fso.unsupported > 0) /\ fso.aces = <<>>
        BY <2>1, <4>0, Zenon
      <4>1. fso.unsupported = 0 /\ fso.aces = <<>>
        BY <1>3, <4>2
      <4> QED
        BY <1>3, <1>6, <2>1, <4>1
    <3> HIDE DEF shown
    <3> QED
      BY <1>1, <2>0, <3>2, <3>3, Zenon DEF TrusteesAreWhole, o, fso, t, shown
  <2> QED
    BY <2>2, <2>3
<1> QED
  BY <1>5, <1>6

\* Without a sign the token is whole (scan_wide_uncertainty, membership_diagnostics).
LEMMA SilenceIsKnown ==
    ASSUME NEW ds, facts.markers \subseteq ds, UNION {uncertain_layer(d) : d \in ds} = {}, facts.local # "NotAvailable"
    PROVE  TokenKnown
<1>1. ASSUME NEW m \in facts.markers PROVE m.v \notin TokenMarkers
  <2> SUFFICES ASSUME m.v \in TokenMarkers PROVE FALSE
    OBVIOUS
  <2>1. uncertain_layer(m) = {"Token"}
    BY LayerIs
  <2>2. "Token" \in UNION {uncertain_layer(d) : d \in ds}
    BY <2>1
  <2> QED
    BY <2>2
<1> QED
  BY <1>1 DEF TokenKnown

LEMMA HeaderTrue ==
    ASSUME FactsInv, ~ facts.unseen
    PROVE  HeaderIsTrue
<1> DEFINE f == [kind |-> facts.kind, disabled |-> facts.disabled, diagnostics |-> facts.markers]
           share == IF facts.status = "Applied" THEN rights_statement(facts.mask, scan_wide_uncertainty(facts) = {})
                    ELSE NoStatement
           signs == scan_wide_uncertainty(facts) \cup UNION {uncertain_layer(d) : d \in facts.dfs}
           h == [account |-> AccountStatus(f), share |-> share, signs |-> signs]
<1>1. print_scan_header(facts) = h
  BY Zenon DEF print_scan_header
<1>2. AccountStatus(f) \in {"Active", "Disabled"} => AccountStatus(f) = facts.account
  BY DEF FactsInv
<1>3. ASSUME share.fact, signs = {} PROVE facts.real = {share.said}
  <2>1. scan_wide_uncertainty(facts) = {}
    BY <1>3
  <2>2. facts.status = "Applied"
    BY <1>3 DEF NoStatement
  <2>3. share.said = facts.mask
    BY <2>2, StatementIs
  <2> HIDE DEF share, signs
  <2>4. UNION {uncertain_layer(d) : d \in facts.markers} = {} /\ facts.local # "NotAvailable" /\ ~ (facts.unsupported > 0)
    BY <2>1 DEF scan_wide_uncertainty
  <2>5. TokenKnown
    BY <2>4, SilenceIsKnown
  <2>6. facts.known = facts.true /\ facts.unsupported = 0
    BY <2>4, <2>5 DEF FactsInv
  <2> QED
    BY <2>2, <2>3, <2>6 DEF FactsInv
<1> HIDE DEF share, signs, f
<1>4. h.account = AccountStatus(f) /\ h.share = share /\ h.signs = signs
  OBVIOUS
<1> HIDE DEF h
<1>5. /\ h.share.fact /\ h.signs = {} => facts.real = {h.share.said}
      /\ h.account \in {"Active", "Disabled"} => h.account = facts.account
  BY <1>2, <1>3, <1>4
<1> QED
  BY <1>1, <1>5, Zenon DEF HeaderIsTrue

LEMMA MembershipTrue ==
    ASSUME FactsInv, ~ facts.unseen
    PROVE  MembershipIsTrue
<1> DEFINE md == membership_diagnostics(facts)
           f == [kind |-> facts.kind, disabled |-> facts.disabled, diagnostics |-> md]
           r == into_membership_report(facts)
<1>0. f.kind = facts.kind /\ f.disabled = facts.disabled /\ f.diagnostics = md /\ facts.markers \subseteq md
  BY DEF membership_diagnostics
<1>1. r.groups = facts.known /\ r.diagnostics = md /\ r.account = AccountStatus(f)
  BY DEF into_membership_report
<1>2. AccountStatus(f) \in {"Active", "Disabled"} => AccountStatus(f) = facts.account
  <2> HIDE DEF f, md
  <2> QED
    BY <1>0, AccountOf
<1>3. ASSUME Gaps(md) = {} PROVE facts.known = facts.true
  <2>1. facts.local # "NotAvailable"
    <3> SUFFICES ASSUME facts.local = "NotAvailable" PROVE FALSE
      OBVIOUS
    <3>1. PICK m : m = Marker("GroupResolutionIncomplete")
      OBVIOUS
    <3>2. m \in md /\ m.v = "GroupResolutionIncomplete"
      BY <3>1 DEF membership_diagnostics, Marker
    <3>3. m.v \in TokenMarkers
      BY <3>2 DEF TokenMarkers
    <3>4. uncertain_layer(m) = {"Token"}
      BY <3>3, LayerIs
    <3> HIDE DEF md
    <3>5. "Token" \in Gaps(md)
      BY <3>2, <3>4 DEF Gaps
    <3> QED
      BY <1>3, <3>5
  <2>2. UNION {uncertain_layer(d) : d \in md} = {}
    BY <1>3 DEF Gaps
  <2> HIDE DEF md
  <2>3. TokenKnown
    BY <1>0, <2>1, <2>2, SilenceIsKnown
  <2> QED
    BY <2>3 DEF FactsInv
<1> HIDE DEF md, f, r
<1>4. ASSUME NEW view, view \in {print_membership_report(r), membership_report_to_view(r)}
      PROVE  /\ view.signs = {} => view.items = facts.true
             /\ view.account \in {"Active", "Disabled"} => view.account = facts.account
  <2>1. view.items = r.groups /\ view.account = r.account /\ Gaps(r.diagnostics) \subseteq view.signs
    <3>1. CASE view = print_membership_report(r)
      <4> DEFINE more == IF Marker("DomainGroupRecursionIncomplete") \in r.diagnostics THEN {"No AD/LDAP connection"} ELSE {}
      <4>1. view = [items |-> r.groups, account |-> r.account, signs |-> Gaps(r.diagnostics) \cup more]
        BY <3>1, Zenon DEF print_membership_report
      <4> HIDE DEF more
      <4> QED
        BY <4>1
    <3>2. CASE view = membership_report_to_view(r)
      BY <3>2 DEF membership_report_to_view
    <3> QED
      BY <1>4, <3>1, <3>2
  <2> QED
    BY <1>1, <1>2, <1>3, <2>1
<1> QED
  BY <1>4, Zenon DEF MembershipIsTrue, r

\* The shares of a returned list are the rows read (scanner.rs).
LEMMA SharesListed ==
    ASSUME ReadInv, ReturnedInv, list.st = "Ok", job = "shares", NEW s \in list.list
    PROVE  /\ \E i \in DOMAIN srv.entries : s = ShareDaclScan(srv.entries[i]) \/ s = UnreadShare(srv.entries[i])
           /\ s.dacl \in {"ReadFailed", "NoSecurityDescriptor", "NullDacl", "Acl"} /\ s.unsupported \in Nat /\ IsList(s.aces)
<1>1. IsServer(job, srv) /\ IsList(srv.entries)
  BY ServerIs DEF ReadInv, IsServer
<1>2. PICK names : names = Readable(srv.entries)
  OBVIOUS
<1>3. list.list = Range(rows) /\ Len(rows) = Len(names)
  BY <1>2 DEF ReturnedInv
<1>4. IsList(rows) /\ DOMAIN rows = 1 .. Len(rows)
  <2>1. IsList(rows)
    BY DEF ReadInv, SeqInv, IsList
  <2> QED
    BY <2>1, ListIs
<1>5. PICK j \in 1 .. Len(rows) : s = rows[j]
  BY <1>3, <1>4 DEF Range
<1>6. ShareRow(s, names[j])
  BY <1>2, <1>5 DEF ReadInv, RowsInv
<1>7. PICK i \in 1 .. Len(srv.entries) : names[j] = srv.entries[i]
  BY <1>1, <1>2, <1>3, <1>5, ReadableIs
<1>8. i \in DOMAIN srv.entries /\ srv.entries[i] \in Range(srv.entries)
  BY <1>1, ListIs
<1>9. PICK e : e = srv.entries[i]
  OBVIOUS
<1>10. IsList(srv.members[e.id])
  BY <1>1, <1>8, <1>9 DEF IsServer
<1>11. IsList(<<>>)
  <2>1. <<>> \in Seq(Range(<<>>))
    OBVIOUS
  <2> QED
    BY <2>1 DEF IsList
<1>12. s = ShareDaclScan(e) \/ s = UnreadShare(e)
  BY <1>6, <1>7, <1>9 DEF ShareRow
<1>13. /\ s.dacl \in {"ReadFailed", "NoSecurityDescriptor", "NullDacl", "Acl"} /\ s.unsupported \in Nat /\ IsList(s.aces)
  <2>1. CASE s = UnreadShare(e)
    <3>1. s.dacl = "ReadFailed" /\ s.unsupported = 0 /\ s.aces = <<>>
      BY <2>1 DEF UnreadShare
    <3> QED
      BY <1>11, <3>1
  <2>2. CASE s = ShareDaclScan(e) /\ e.descriptor = "None"
    <3>1. s.dacl = "NoSecurityDescriptor" /\ s.unsupported = 0 /\ s.aces = <<>>
      BY <2>2 DEF ShareDaclScan
    <3> QED
      BY <1>11, <3>1
  <2>3. CASE s = ShareDaclScan(e) /\ e.descriptor \in {"Absent", "NullPointer"}
    <3>1. s = [id |-> e.id, dacl |-> "NullDacl", aces |-> <<>>, unsupported |-> 0]
      BY <2>3 DEF ShareDaclScan, classify_dacl
    <3>2. s.dacl = "NullDacl" /\ s.unsupported = 0 /\ s.aces = <<>>
      BY <3>1
    <3> QED
      BY <1>11, <3>2
  <2>4. CASE s = ShareDaclScan(e) /\ e.descriptor \notin {"None", "Absent", "NullPointer"}
    <3>1. PICK m, p, q : m = srv.members[e.id] /\ p = Len(m) /\ q = Len(Readable(m))
      OBVIOUS
    <3>2. s = [id |-> e.id, dacl |-> "Acl", aces |-> Readable(m), unsupported |-> p - q]
      BY <2>4, <3>1 DEF ShareDaclScan, classify_dacl
    <3>3. s.dacl = "Acl" /\ s.unsupported = p - q /\ s.aces = Readable(m)
      BY <3>2
    <3>4. IsList(m) /\ IsList(Readable(m)) /\ q <= p
      BY <1>10, <3>1, ReadableIs
    <3>5. p \in Nat /\ q \in Nat
      BY <3>1, <3>4, ListIs
    <3>6. p - q \in Nat
      BY <3>4, <3>5
    <3> QED
      BY <3>3, <3>4, <3>6
  <2> QED
    BY <1>12, <2>1, <2>2, <2>3, <2>4
<1> QED
  BY <1>8, <1>9, <1>12, <1>13

LEMMA ListingTrue ==
    ASSUME ReadInv, ListInv, ReturnedInv, list.st = "Ok", ~ Undetectable
    PROVE  ListingIsTrue
<1>1. TellsTruth(list.list, list.marked)
  BY DEF ListInv
<1>2. list.marked \in BOOLEAN
  BY DEF ReturnedInv
<1>3. ASSUME job = "members", NEW r, r = Listing(list, members_diagnostics(list))
      PROVE  r.failed \/ r.signs # {} \/ r.items = Truth
  <2>1. r.signs = members_diagnostics(list) /\ r.items = list.list
    BY <1>3 DEF Listing
  <2>2. CASE list.marked
    BY <2>1, <2>2 DEF members_diagnostics
  <2>3. CASE ~ list.marked
    BY <1>1, <1>3, <2>1, <2>3 DEF TellsTruth, Promised
  <2> QED
    BY <1>2, <2>2, <2>3
<1>4. job = "members" => \A r \in {print_group_members_report(list), group_members_report_to_view(list)} :
                             r.failed \/ r.signs # {} \/ r.items = Truth
  BY <1>3, Zenon DEF print_group_members_report, group_members_report_to_view
<1>5. job = "trusts" => print_trusts(list).failed \/ print_trusts(list).items = Truth
  <2> SUFFICES ASSUME job = "trusts" PROVE print_trusts(list).items = Truth
    OBVIOUS
  <2>1. ~ list.marked
    BY DEF ReturnedInv
  <2>2. list.list = Truth
    BY <1>1, <2>1 DEF TellsTruth, Promised
  <2> QED
    BY <2>2 DEF print_trusts, Listing
<1>6. ASSUME job = "shares"
      PROVE  LET console == print_shares(list)
                 window  == shares_to_view(list)
                 Real(id) == srv.members[id]
             IN /\ \A r \in {console, window} : r.failed \/ {s.id : s \in r.items} = Ids(Readable(srv.entries))
                /\ \A s \in console.items : ~ s.incomplete /\ s.note \in {"", "empty"} => s.aces = Real(s.id)
                /\ \A s \in window.items : ~ s.incomplete /\ s.level = 0 =>
                                              s.aces = [i \in DOMAIN Real(s.id) |-> AceRow(Real(s.id)[i])]
  <2> DEFINE Line(s) == [id |-> s.id, aces |-> s.aces,
                         note |-> IF s.dacl # "Acl" THEN s.dacl ELSE IF s.aces = <<>> THEN "empty" ELSE "",
                         incomplete |-> s.unsupported > 0]
             View(s) == [id |-> s.id, aces |-> share_ace_rows(s),
                         level |-> CASE s.dacl = "ReadFailed" -> 2
                                     [] s.dacl \in {"NullDacl", "NoSecurityDescriptor"} -> 1 [] OTHER -> 0,
                         incomplete |-> s.unsupported > 0]
             console == print_shares(list)
             window == shares_to_view(list)
  <2>1. console.items = {Line(s) : s \in list.list} /\ window.items = {View(s) : s \in list.list}
    BY DEF print_shares, shares_to_view
  <2>2. SharesTrueOf(list.list, list.marked)
    BY <1>1, <1>6 DEF TellsTruth
  <2>3. ASSUME NEW s \in list.list, s.dacl = "Acl", ~ (s.unsupported > 0) PROVE s.aces = srv.members[s.id]
    <3>1. s.unsupported \in Nat
      BY <1>6, SharesListed
    <3>2. s.unsupported = 0
      BY <2>3, <3>1
    <3>3. PICK i \in DOMAIN srv.entries :
             LET e == srv.entries[i] IN
             /\ e.id = s.id
             /\ s.aces = (IF e.descriptor \in {"Absent", "NullPointer"} THEN <<>> ELSE srv.members[e.id])
             /\ (s.dacl = "NullDacl") = (e.descriptor \in {"Absent", "NullPointer"})
      BY <2>2, <2>3, <3>2 DEF SharesTrueOf
    <3>4. srv.entries[i].descriptor \notin {"Absent", "NullPointer"}
      BY <2>3, <3>3
    <3> QED
      BY <3>3, <3>4
  <2>4. \A s \in list.list : s.dacl \in {"ReadFailed", "NoSecurityDescriptor", "NullDacl", "Acl"}
    BY <1>6, SharesListed
  <2>5. \A s : /\ Line(s).id = s.id /\ Line(s).aces = s.aces /\ Line(s).incomplete = (s.unsupported > 0)
               /\ View(s).id = s.id /\ View(s).aces = share_ace_rows(s) /\ View(s).incomplete = (s.unsupported > 0)
    OBVIOUS
  <2>6. ASSUME NEW s \in list.list, Line(s).note \in {"", "empty"} PROVE s.dacl = "Acl"
    BY <2>4, <2>6
  <2>7. ASSUME NEW s \in list.list, View(s).level = 0 PROVE s.dacl = "Acl"
    <3>1. View(s).level = CASE s.dacl = "ReadFailed" -> 2
                            [] s.dacl \in {"NullDacl", "NoSecurityDescriptor"} -> 1 [] OTHER -> 0
      OBVIOUS
    <3> HIDE DEF View
    <3>2. s.dacl # "ReadFailed" /\ s.dacl # "NullDacl" /\ s.dacl # "NoSecurityDescriptor"
      BY <2>7, <3>1
    <3> QED
      BY <2>4, <3>2
  <2> HIDE DEF Line, View, console, window
  <2>8. {s.id : s \in list.list} = Ids(Readable(srv.entries))
    BY <2>2 DEF SharesTrueOf
  <2>9. {s.id : s \in console.items} = Ids(Readable(srv.entries)) /\ {s.id : s \in window.items} = Ids(Readable(srv.entries))
    <3> DEFINE names == Ids(Readable(srv.entries))
    <3>1. names = {s.id : s \in list.list}
      BY <2>8
    <3> HIDE DEF names
    <3>2. {s.id : s \in console.items} = names
      <4>1. \A y \in console.items : \E s \in list.list : y = Line(s)
        BY <2>1
      <4>2. ASSUME NEW y \in console.items PROVE y.id \in names
        <5>1. PICK s \in list.list : y = Line(s)
          BY <4>1
        <5>2. y.id = s.id
          BY <2>5, <5>1, Zenon
        <5> QED
          BY <3>1, <5>2
      <4>3. \A s \in list.list : Line(s) \in console.items
        BY <2>1
      <4>4. \A s \in list.list : s.id \in {y.id : y \in console.items}
        <5> SUFFICES ASSUME NEW s \in list.list PROVE s.id \in {y.id : y \in console.items}
          OBVIOUS
        <5>1. PICK y \in console.items : y = Line(s)
          BY <4>3
        <5>2. y.id = s.id
          BY <2>5, <5>1, Zenon
        <5> QED
          BY <5>2
      <4>5. {y.id : y \in console.items} \subseteq names
        BY <4>2
      <4>6. names \subseteq {y.id : y \in console.items}
        BY <3>1, <4>4
      <4> QED
        BY <4>5, <4>6
    <3>3. {s.id : s \in window.items} = names
      <4>1. \A y \in window.items : \E s \in list.list : y = View(s)
        BY <2>1
      <4>2. ASSUME NEW y \in window.items PROVE y.id \in names
        <5>1. PICK s \in list.list : y = View(s)
          BY <4>1
        <5>2. y.id = s.id
          BY <2>5, <5>1, Zenon
        <5> QED
          BY <3>1, <5>2
      <4>3. \A s \in list.list : View(s) \in window.items
        BY <2>1
      <4>4. \A s \in list.list : s.id \in {y.id : y \in window.items}
        <5> SUFFICES ASSUME NEW s \in list.list PROVE s.id \in {y.id : y \in window.items}
          OBVIOUS
        <5>1. PICK y \in window.items : y = View(s)
          BY <4>3
        <5>2. y.id = s.id
          BY <2>5, <5>1, Zenon
        <5> QED
          BY <5>2
      <4>5. {y.id : y \in window.items} \subseteq names
        BY <4>2
      <4>6. names \subseteq {y.id : y \in window.items}
        BY <3>1, <4>4
      <4> QED
        BY <4>5, <4>6
    <3> QED
      BY <3>2, <3>3 DEF names
  <2>10. \A r \in {console, window} : r.failed \/ {s.id : s \in r.items} = Ids(Readable(srv.entries))
    BY <2>9, Zenon
  <2>11. ASSUME NEW y \in console.items, ~ y.incomplete, y.note \in {"", "empty"} PROVE y.aces = srv.members[y.id]
    <3>1. PICK s \in list.list : y = Line(s)
      BY <2>1, <2>11
    <3>2. s.dacl = "Acl" /\ ~ (s.unsupported > 0)
      BY <2>5, <2>6, <2>11, <3>1, Zenon
    <3> QED
      BY <2>3, <2>5, <3>1, <3>2, Zenon
  <2>12. ASSUME NEW y \in window.items, ~ y.incomplete, y.level = 0
         PROVE  y.aces = [i \in DOMAIN srv.members[y.id] |-> AceRow(srv.members[y.id][i])]
    <3>1. PICK s \in list.list : y = View(s)
      BY <2>1, <2>12
    <3>2. s.dacl = "Acl" /\ ~ (s.unsupported > 0)
      BY <2>5, <2>7, <2>12, <3>1, Zenon
    <3>3. s.aces = srv.members[s.id] /\ y.aces = share_ace_rows(s) /\ y.id = s.id
      BY <2>3, <2>5, <3>1, <3>2, Zenon
    <3>4. share_ace_rows(s) = [i \in DOMAIN s.aces |-> AceRow(s.aces[i])]
      BY DEF share_ace_rows
    <3> QED
      BY <3>3, <3>4, Zenon
  <2> QED
    BY <2>10, <2>11, <2>12, Zenon DEF console, window
<1> QED
  BY <1>4, <1>5, <1>6, Zenon DEF ListingIsTrue

----------------------------------------------------------------------------
(* Results that were stored and loaded.                                    *)

\* What a damaged row leaves of a result (into_permission, scan_store.rs).
LEMMA LoadedFields ==
    ASSUME NEW o, NEW fso, NEW n, NEW ds, NEW p, p = ResultOf(o, fso, n, ds), NEW bad, NEW q,
           <<q>> = into_permission([p |-> p, damaged |-> bad])
    PROVE  /\ q.effective = p.effective
           /\ bad \cap {"diagnostics", "status", "local"} # {} => Marker("PersistedEvidenceDecodeFailed") \in q.diagnostics
           /\ bad \cap {"diagnostics", "status", "local"} = {} =>
                 q.diagnostics = p.diagnostics /\ q.status = p.status /\ q.local = p.local
<1> DEFINE lost == IF bad \cap {"diagnostics", "status", "local"} = {} THEN {} ELSE {Marker("PersistedEvidenceDecodeFailed")}
           d == (IF "diagnostics" \in bad THEN {} ELSE p.diagnostics) \cup lost
           s == IF "status" \in bad THEN "NotApplicable" ELSE p.status
           l == IF "local" \in bad THEN "NotQueried" ELSE p.local
           c == IF "kind" \in bad THEN "Unknown" ELSE p.kind
           u == IF "unsupported" \in bad THEN 0 ELSE p.unsupported
           left == [p EXCEPT !.diagnostics = d, !.status = s, !.local = l, !.kind = c, !.unsupported = u]
           r == [p |-> p, damaged |-> bad]
<1>1. r.p = p /\ r.damaged = bad
  OBVIOUS
<1>2. into_permission(r) = IF bad \cap {"mask", "evidence"} # {} THEN <<>> ELSE <<left>>
  <2> HIDE DEF r
  <2> QED
    BY <1>1, Zenon DEF into_permission
<1>3. left.effective = p.effective /\ left.diagnostics = d /\ left.status = s /\ left.local = l
  <2> HIDE DEF d, s, l, c, u
  <2> QED
    BY DEF ResultOf
<1> HIDE DEF left, r
<1>4. q = left
  <2>1. <<q>> # <<>>
    OBVIOUS
  <2>2. <<q>> = <<left>>
    BY <1>2, <2>1, Zenon DEF r
  <2> QED
    BY <2>2
<1>5. bad \cap {"diagnostics", "status", "local"} # {} => Marker("PersistedEvidenceDecodeFailed") \in d
  OBVIOUS
<1>6. bad \cap {"diagnostics", "status", "local"} = {} => d = p.diagnostics /\ s = p.status /\ l = p.local
  OBVIOUS
<1> HIDE DEF d, s, l
<1> QED
  BY <1>3, <1>4, <1>5, <1>6

LEMMA LoadedIsTrue ==
    ASSUME FactsInv, ~ facts.unseen, NEW k, IsList(Objects[k].aces), NEW n, NEW p,
           p = evaluated(Objects[k], parse_security(Objects[k]), n), NEW bad, NEW q,
           <<q>> = into_permission([p |-> p, damaged |-> bad])
    PROVE  IsTrue(delta_row(q).effective, q.effective, {x.effective : x \in Outcomes(k)})
<1> DEFINE fso == parse_security(Objects[k])
           RE == {x.effective : x \in Outcomes(k)}
           cut == bad \cap {"diagnostics", "status", "local"}
<1>1. PICK ds : p = ResultOf(Objects[k], fso, n, ds) /\ KnownMarkers(fso) \subseteq ds
  BY ResultIs
<1>2. p.diagnostics = ds /\ p.unsupported = fso.unsupported
  BY <1>1, FieldsAre
<1>3. effective_determinable(p) => RE = {p.effective}
  BY KnownOutcomes
<1> HIDE DEF RE
<1>4. /\ q.effective = p.effective
      /\ cut # {} => Marker("PersistedEvidenceDecodeFailed") \in q.diagnostics
      /\ cut = {} => q.diagnostics = p.diagnostics /\ q.status = p.status /\ q.local = p.local
  <2>1. PICK o, f : o = Objects[k] /\ f = fso
    OBVIOUS
  <2>2. p = ResultOf(o, f, n, ds)
    BY <1>1, <2>1
  <2> QED
    BY <2>2, LoadedFields
<1>5. delta_row(q).effective = Stated(q.effective, effective_determinable(q))
  BY AsStated DEF delta_row, Page, EffectiveStated
<1>6. ASSUME effective_determinable(q) PROVE effective_determinable(p)
  <2>1. uncertainty(q) = {}
    BY <1>6 DEF effective_determinable
  <2>2. cut = {}
    <3> SUFFICES ASSUME cut # {} PROVE FALSE
      OBVIOUS
    <3>1. PICK m : m = Marker("PersistedEvidenceDecodeFailed")
      OBVIOUS
    <3>2. m \in q.diagnostics /\ m.v \in TokenMarkers
      BY <1>4, <3>1 DEF Marker, TokenMarkers
    <3>3. uncertain_layer(m) = {"Token"}
      BY <3>2, LayerIs
    <3>4. "Token" \in uncertainty(q)
      BY <3>2, <3>3 DEF uncertainty
    <3> QED
      BY <2>1, <3>4
  <2>3. q.diagnostics = p.diagnostics /\ q.status = p.status /\ q.local = p.local
    BY <1>4, <2>2
  <2>4. p.unsupported > 0 => Has(p, "UnsupportedNtfsAces")
    <3> SUFFICES ASSUME p.unsupported > 0 PROVE Has(p, "UnsupportedNtfsAces")
      OBVIOUS
    <3>1. PICK m : m = Marker("UnsupportedNtfsAces")
      OBVIOUS
    <3>2. m \in KnownMarkers(fso) /\ m.v = "UnsupportedNtfsAces"
      BY <1>2, <3>1 DEF KnownMarkers, Marker
    <3> QED
      BY <1>1, <1>2, <3>2 DEF Has
  <2>5. UNION {uncertain_layer(d) : d \in p.diagnostics} \subseteq uncertainty(q)
    BY <2>3 DEF uncertainty
  <2>6. p.status # "ReadFailed" /\ p.local # "NotAvailable"
    BY <2>1, <2>3 DEF uncertainty
  <2>7. UNION {uncertain_layer(d) : d \in p.diagnostics} = {}
    BY <2>1, <2>5
  <2>8. uncertainty(p) = {}
    BY <2>4, <2>6, <2>7, Zenon DEF uncertainty
  <2> QED
    BY <2>8 DEF effective_determinable
<1>7. IsTrue(delta_row(q).effective, q.effective, RE)
  <2>1. delta_row(q).effective.said = q.effective /\ delta_row(q).effective.fact = effective_determinable(q)
    BY <1>5 DEF Stated
  <2> QED
    BY <1>3, <1>4, <1>6, <2>1 DEF IsTrue
<1> QED
  BY <1>7 DEF RE

\* Nothing is claimed that the known data does not settle.
LEMMA ClaimsFollow ==
    ReadInv /\ ListInv /\ AuditInv => NeverOverclaims
<1> SUFFICES ASSUME ReadInv, ListInv, AuditInv PROVE NeverOverclaims
  OBVIOUS
<1>1. ReturnedInv /\ CacheInv /\ PermsInv /\ StoreInv /\ (stage # "read" => FactsInv)
  BY DEF AuditInv
<1>2. stage = "read" /\ list.st = "Ok" /\ ~ Undetectable => ListingIsTrue
  BY <1>1, ListingTrue
<1>3. ASSUME stage # "read", ~ facts.unseen, NEW i \in DOMAIN perms
      PROVE  /\ TrusteesAreWhole(objs[i])
             /\ \A page \in LivePages(perms[i]) : PageIsTrue(page, perms[i], objs[i])
  <2>1. FactsInv
    BY <1>1, <1>3
  <2>2. objs[i] \in DOMAIN Objects /\ perms[i] = evaluated(Objects[objs[i]], parse_security(Objects[objs[i]]), i)
    BY <1>1 DEF PermsInv
  <2>3. IsList(Objects[objs[i]].aces)
    BY <2>2, AuditAssumption
  <2>4. TrusteesAreWhole(objs[i])
    BY <1>1, <2>2, TrusteesWhole
  <2>5. ASSUME NEW page \in LivePages(perms[i]) PROVE PageIsTrue(page, perms[i], objs[i])
    BY <1>3, <2>1, <2>2, <2>3, <2>5, ResultPagesAreTrue
  <2> QED
    BY <2>4, <2>5
<1>4. ASSUME stage # "read", ~ facts.unseen, NEW i \in DOMAIN loaded.perms
      PROVE  IsTrue(delta_row(loaded.perms[i]).effective, loaded.perms[i].effective, {x.effective : x \in Outcomes(objs[i])})
  <2>1. FactsInv
    BY <1>1, <1>4
  <2>2. i \in DOMAIN perms
    BY <1>1, <1>4 DEF StoreInv
  <2>3. PICK bad : <<loaded.perms[i]>> = into_permission([p |-> perms[i], damaged |-> bad])
    BY <1>1, <1>4 DEF StoreInv
  <2>4. objs[i] \in DOMAIN Objects /\ perms[i] = evaluated(Objects[objs[i]], parse_security(Objects[objs[i]]), i)
    BY <1>1, <2>2 DEF PermsInv
  <2>5. IsList(Objects[objs[i]].aces)
    BY <2>4, AuditAssumption
  <2>6. PICK q, p, k : q = loaded.perms[i] /\ p = perms[i] /\ k = objs[i]
    OBVIOUS
  <2>7. <<q>> = into_permission([p |-> p, damaged |-> bad]) /\ p = evaluated(Objects[k], parse_security(Objects[k]), i)
        /\ IsList(Objects[k].aces)
    BY <2>3, <2>4, <2>5, <2>6
  <2>8. IsTrue(delta_row(q).effective, q.effective, {x.effective : x \in Outcomes(k)})
    BY <1>4, <2>1, <2>7, LoadedIsTrue
  <2> QED
    BY <2>6, <2>8, Zenon
<1>5. stage # "read" /\ ~ facts.unseen => HeaderIsTrue /\ MembershipIsTrue
  BY <1>1, HeaderTrue, MembershipTrue
<1> QED
  BY <1>2, <1>3, <1>4, <1>5, ColoursAgree, Zenon DEF NeverOverclaims

----------------------------------------------------------------------------
(* Findings.                                                               *)

RuleNames == {"FULL_CONTROL", "WRITE_ACCESS", "PARTIAL_WRITE", "PERMISSION_CHANGE", "OWNER_CHANGE", "DELETE_RIGHT",
              "DELETE_CHILD_RIGHT", "BROAD_GROUP_WRITE", "DIRECT_USER_ACE", "SENSITIVE_PATH"}
Findings == [rule : RuleNames, of : Nat, sure : BOOLEAN, incomplete : BOOLEAN]
LEMMA WhenIs ==
    ASSUME NEW S, NEW f \in S, NEW cond \in BOOLEAN
    PROVE  When(cond, f) \in Seq(S) /\ \A y : Occurs(y, When(cond, f)) <=> cond /\ y = f
<1>1. CASE cond = TRUE
  <2>1. When(cond, f) = <<f>>
    BY <1>1 DEF When
  <2>2. <<f>> \in Seq(S) /\ Len(<<f>>) = 1 /\ <<f>>[1] = f
    OBVIOUS
  <2>3. \A y : Occurs(y, <<f>>) <=> y = f
    BY <2>2 DEF Occurs
  <2> QED
    BY <1>1, <2>1, <2>2, <2>3, Zenon
<1>2. CASE cond = FALSE
  <2>1. When(cond, f) = <<>>
    BY <1>2 DEF When
  <2>2. <<>> \in Seq(S) /\ \A y : ~ Occurs(y, <<>>)
    BY DEF Occurs
  <2> QED
    BY <1>2, <2>1, <2>2, Zenon
<1> QED
  BY <1>1, <1>2
LEMMA FindingIs ==
    ASSUME NEW p, p.at \in Nat, NEW v \in RuleNames, NEW sure \in BOOLEAN
    PROVE  /\ Finding(v, p, sure) \in Findings
           /\ Finding(v, p, sure).rule = v /\ Finding(v, p, sure).of = p.at /\ Finding(v, p, sure).sure = sure
           /\ Finding(v, p, sure).incomplete = is_incomplete(p)
<1>1. is_incomplete(p) \in BOOLEAN
  BY DEF is_incomplete
<1> QED
  BY <1>1 DEF Finding, Findings

\* What a rule may report of a result, and what it says is in the right it judges (rules.rs).
IsFindingOf(y, rule, p) ==
    /\ y.rule \in RuleIds[rule] /\ y.of = p.at /\ y.incomplete = is_incomplete(p)
    /\ y.sure => y.rule = "DIRECT_USER_ACE" \/ effective_determinable(p)
    /\ Says(y.rule, effective_upper_bound(p))
Reports(s, rule, p) == s \in Seq(Findings) /\ \A y : Occurs(y, s) => IsFindingOf(y, rule, p)
LEMMA ReportsBoth ==
    ASSUME NEW rule, NEW p, NEW s, NEW t, Reports(s, rule, p), Reports(t, rule, p)
    PROVE  Reports(s \o t, rule, p) /\ \A y : Occurs(y, s) \/ Occurs(y, t) => Occurs(y, s \o t)
<1>1. s \in Seq(Findings) /\ t \in Seq(Findings)
  BY DEF Reports
<1>2. s \o t \in Seq(Findings)
  BY <1>1
<1>3. \A y : Occurs(y, s \o t) <=> Occurs(y, s) \/ Occurs(y, t)
  BY <1>1, OccursInBoth
<1> QED
  BY <1>2, <1>3 DEF Reports

\* One finding of one rule, reported when its right is there.
LEMMA OneFinding ==
    ASSUME NEW p, p.at \in Nat, NEW rule \in Rules, NEW v \in RuleNames, v \in RuleIds[rule],
           NEW sure \in BOOLEAN, sure => v = "DIRECT_USER_ACE" \/ effective_determinable(p),
           NEW cond \in BOOLEAN, cond => Says(v, effective_upper_bound(p))
    PROVE  /\ Reports(When(cond, Finding(v, p, sure)), rule, p)
           /\ cond => Occurs(Finding(v, p, sure), When(cond, Finding(v, p, sure)))
<1> DEFINE f == Finding(v, p, sure)
<1>1. f \in Findings /\ f.rule = v /\ f.of = p.at /\ f.sure = sure /\ f.incomplete = is_incomplete(p)
  BY FindingIs
<1> HIDE DEF f
<1>2. When(cond, f) \in Seq(Findings) /\ \A y : Occurs(y, When(cond, f)) <=> cond /\ y = f
  BY <1>1, WhenIs
<1>3. cond => IsFindingOf(f, rule, p)
  BY <1>1 DEF IsFindingOf
<1>4. Reports(When(cond, f), rule, p)
  BY <1>2, <1>3 DEF Reports
<1> QED
  BY <1>2, <1>4 DEF f

Fires(v, s) == \E y : Occurs(y, s) /\ y.rule = v
LEMMA RuleFires ==
    ASSUME NEW p, p.at \in Nat, NEW rule \in Rules, NEW v \in RuleNames, v \in RuleIds[rule], v # "DIRECT_USER_ACE",
           NEW cond \in BOOLEAN, cond => Says(v, effective_upper_bound(p)),
           NEW s, s = When(cond, Finding(v, p, effective_determinable(p)))
    PROVE  Reports(s, rule, p) /\ (cond => Fires(v, s))
<1>1. effective_determinable(p) \in BOOLEAN
  BY DEF effective_determinable
<1>2. PICK sure \in BOOLEAN : sure = effective_determinable(p)
  BY <1>1
<1>3. s = When(cond, Finding(v, p, sure)) /\ (sure => effective_determinable(p))
  BY <1>2, Zenon
<1>4. Reports(s, rule, p) /\ (cond => Occurs(Finding(v, p, sure), s))
  BY <1>3, OneFinding
<1>5. Finding(v, p, sure).rule = v
  BY FindingIs
<1> QED
  BY <1>4, <1>5 DEF Fires

LEMMA RuleOf ==
    /\ RuleIds[1] = {"FULL_CONTROL"} /\ RuleIds[2] = {"WRITE_ACCESS", "PARTIAL_WRITE"}
    /\ RuleIds[3] = {"PERMISSION_CHANGE", "OWNER_CHANGE", "DELETE_RIGHT", "DELETE_CHILD_RIGHT"}
    /\ RuleIds[4] = {"BROAD_GROUP_WRITE"} /\ RuleIds[5] = {"DIRECT_USER_ACE"} /\ RuleIds[6] = {"SENSITIVE_PATH"}
    /\ Rules = 1 .. 6
  BY DEF RuleIds, Rules

LEMMA FullControlIs ==
    ASSUME NEW p, p.at \in Nat
    PROVE  /\ Reports(FullControlRule(p), 1, p)
           /\ Full \subseteq effective_upper_bound(p) => Fires("FULL_CONTROL", FullControlRule(p))
<1> DEFINE m == effective_upper_bound(p)
<1>1. AuditedRight(p).mask = m /\ AuditedRight(p).sure = effective_determinable(p)
  BY DEF AuditedRight
<1>2. PICK c \in BOOLEAN : c = (Full \subseteq m)
  OBVIOUS
<1>3. FullControlRule(p) = When(c, Finding("FULL_CONTROL", p, effective_determinable(p)))
  BY <1>1, <1>2, Zenon DEF FullControlRule
<1>4. c => Says("FULL_CONTROL", m)
  BY <1>2 DEF Says
<1>5. 1 \in Rules /\ "FULL_CONTROL" \in RuleIds[1] /\ "FULL_CONTROL" \in RuleNames
  BY RuleOf DEF RuleNames
<1> HIDE DEF m
<1>6. PICK s : s = FullControlRule(p)
  OBVIOUS
<1>7. Reports(s, 1, p) /\ (c => Fires("FULL_CONTROL", s))
  BY <1>3, <1>4, <1>5, <1>6, RuleFires DEF m
<1> QED
  BY <1>2, <1>6, <1>7, Zenon DEF m

LEMMA WriteAccessIs ==
    ASSUME NEW p, p.at \in Nat
    PROVE  /\ Reports(WriteAccessRule(p), 2, p)
           /\ ~ (Full \subseteq effective_upper_bound(p)) /\ effective_upper_bound(p) \cap ContentWriteBits # {} =>
                 Fires("WRITE_ACCESS", WriteAccessRule(p)) \/ Fires("PARTIAL_WRITE", WriteAccessRule(p))
<1> DEFINE m == effective_upper_bound(p)
           full == Full \subseteq m
           high == Modify \subseteq m \/ Write \subseteq m
           some == m \cap ContentWriteBits # {}
<1>1. AuditedRight(p).mask = m /\ AuditedRight(p).sure = effective_determinable(p)
  BY DEF AuditedRight
<1>2. PICK c, d \in BOOLEAN : c = (~ full /\ high) /\ d = (~ full /\ ~ high /\ some)
  OBVIOUS
<1>3. WriteAccessRule(p) = When(c, Finding("WRITE_ACCESS", p, effective_determinable(p)))
                           \o When(d, Finding("PARTIAL_WRITE", p, effective_determinable(p)))
  BY <1>1, <1>2, Zenon DEF WriteAccessRule
<1>4. (c => Says("WRITE_ACCESS", m)) /\ (d => Says("PARTIAL_WRITE", m))
  BY <1>2 DEF Says
<1>5. 2 \in Rules /\ {"WRITE_ACCESS", "PARTIAL_WRITE"} \subseteq RuleIds[2] /\ {"WRITE_ACCESS", "PARTIAL_WRITE"} \subseteq RuleNames
  BY RuleOf DEF RuleNames
<1>6. PICK s, t : /\ s = When(c, Finding("WRITE_ACCESS", p, effective_determinable(p)))
                  /\ t = When(d, Finding("PARTIAL_WRITE", p, effective_determinable(p)))
  OBVIOUS
<1>7. ~ full /\ some => c \/ d
  BY <1>2
<1> HIDE DEF m, full, some, high
<1>8. Reports(s, 2, p) /\ (c => Fires("WRITE_ACCESS", s))
  BY <1>4, <1>5, <1>6, RuleFires DEF m
<1>9. Reports(t, 2, p) /\ (d => Fires("PARTIAL_WRITE", t))
  BY <1>4, <1>5, <1>6, RuleFires DEF m
<1>10. Reports(s \o t, 2, p) /\ \A y : Occurs(y, s) \/ Occurs(y, t) => Occurs(y, s \o t)
  BY <1>8, <1>9, ReportsBoth
<1>11. (c => Fires("WRITE_ACCESS", s \o t)) /\ (d => Fires("PARTIAL_WRITE", s \o t))
  BY <1>8, <1>9, <1>10, Zenon DEF Fires
<1>12. WriteAccessRule(p) = s \o t
  BY <1>3, <1>6, Zenon
<1> QED
  BY <1>7, <1>10, <1>11, <1>12, Zenon DEF m, full, some

LEMMA AdminRightsIs ==
    ASSUME NEW p, p.at \in Nat
    PROVE  /\ Reports(AdminRightsRule(p), 3, p)
           /\ ~ (Full \subseteq effective_upper_bound(p)) => \A i \in DOMAIN AdminRights :
                 AdminRights[i][1] \in effective_upper_bound(p) => Fires(AdminRights[i][2], AdminRightsRule(p))
<1> DEFINE m == effective_upper_bound(p)
           One(i) == When(AdminRights[i][1] \in m, Finding(AdminRights[i][2], p, effective_determinable(p)))
<1>1. AuditedRight(p).mask = m /\ AuditedRight(p).sure = effective_determinable(p)
  BY DEF AuditedRight
<1>2. AdminRightsRule(p) = IF Full \subseteq m THEN <<>> ELSE One(1) \o One(2) \o One(3) \o One(4)
  BY <1>1, Zenon DEF AdminRightsRule
<1>3. 3 \in Rules /\ DOMAIN AdminRights = 1 .. 4 /\ \A i \in 1 .. 4 : /\ AdminRights[i][2] \in RuleIds[3]
                                           /\ AdminRights[i][2] \in RuleNames /\ AdminRights[i][2] # "DIRECT_USER_ACE"
  BY RuleOf DEF AdminRights, RuleNames
<1>4. ASSUME NEW i \in 1 .. 4, AdminRights[i][1] \in m PROVE Says(AdminRights[i][2], m)
  <2>1. CASE i = 1
    BY <1>4, <2>1 DEF AdminRights, Says
  <2>2. CASE i = 2
    BY <1>4, <2>2 DEF AdminRights, Says
  <2>3. CASE i = 3
    BY <1>4, <2>3 DEF AdminRights, Says
  <2>4. CASE i = 4
    BY <1>4, <2>4 DEF AdminRights, Says
  <2> QED
    BY <2>1, <2>2, <2>3, <2>4
<1>5. ASSUME NEW i \in 1 .. 4 PROVE Reports(One(i), 3, p) /\ (AdminRights[i][1] \in m => Fires(AdminRights[i][2], One(i)))
  <2>1. PICK c \in BOOLEAN : c = (AdminRights[i][1] \in m)
    <3>1. (AdminRights[i][1] \in m) \in BOOLEAN
      OBVIOUS
    <3> HIDE DEF m
    <3> QED
      BY <3>1, Zenon
  <2>2. PICK v : v = AdminRights[i][2]
    OBVIOUS
  <2>3. PICK s : s = One(i)
    OBVIOUS
  <2> HIDE DEF m
  <2>4. s = When(c, Finding(v, p, effective_determinable(p)))
    BY <2>1, <2>2, <2>3, Zenon
  <2>5. v \in RuleIds[3] /\ v \in RuleNames /\ v # "DIRECT_USER_ACE" /\ (c => Says(v, m))
    BY <1>3, <1>4, <2>1, <2>2
  <2>6. Reports(s, 3, p) /\ (c => Fires(v, s))
    BY <1>3, <2>4, <2>5, RuleFires DEF m
  <2> HIDE DEF One
  <2> QED
    BY <2>1, <2>2, <2>3, <2>6, Zenon
<1> HIDE DEF One
<1>6. PICK a, b, c, d : a = One(1) /\ b = One(2) /\ c = One(3) /\ d = One(4)
  OBVIOUS
<1>7. PICK s : s = a \o b \o c \o d
  OBVIOUS
<1>8. Reports(a, 3, p) /\ Reports(b, 3, p) /\ Reports(c, 3, p) /\ Reports(d, 3, p)
  <2>1. 1 \in 1 .. 4 /\ 2 \in 1 .. 4 /\ 3 \in 1 .. 4 /\ 4 \in 1 .. 4
    OBVIOUS
  <2> QED
    BY <1>5, <1>6, <2>1, Zenon
<1>9. /\ Reports(s, 3, p) /\ \A y : Occurs(y, a) \/ Occurs(y, b) \/ Occurs(y, c) \/ Occurs(y, d) => Occurs(y, s)
  <2>1. Reports(a \o b, 3, p) /\ \A y : Occurs(y, a) \/ Occurs(y, b) => Occurs(y, a \o b)
    BY <1>8, ReportsBoth
  <2>2. Reports((a \o b) \o c, 3, p) /\ \A y : Occurs(y, a \o b) \/ Occurs(y, c) => Occurs(y, (a \o b) \o c)
    BY <1>8, <2>1, ReportsBoth
  <2>3. /\ Reports(((a \o b) \o c) \o d, 3, p)
        /\ \A y : Occurs(y, (a \o b) \o c) \/ Occurs(y, d) => Occurs(y, ((a \o b) \o c) \o d)
    BY <1>8, <2>2, ReportsBoth
  <2> QED
    BY <1>7, <2>1, <2>2, <2>3, Zenon
<1>10. ASSUME NEW i \in 1 .. 4, AdminRights[i][1] \in m PROVE Fires(AdminRights[i][2], s)
  <2>1. Fires(AdminRights[i][2], One(i))
    BY <1>5, <1>10
  <2>2. PICK y : Occurs(y, One(i)) /\ y.rule = AdminRights[i][2]
    BY <2>1, Zenon DEF Fires
  <2>3. i = 1 \/ i = 2 \/ i = 3 \/ i = 4
    OBVIOUS
  <2>4. Occurs(y, a) \/ Occurs(y, b) \/ Occurs(y, c) \/ Occurs(y, d)
    BY <1>6, <2>2, <2>3, Zenon
  <2>5. Occurs(y, s)
    BY <1>9, <2>4, Zenon
  <2> QED
    BY <2>2, <2>5, Zenon DEF Fires
<1>11. Reports(<<>>, 3, p)
  BY DEF Reports, Occurs
<1> HIDE DEF m
<1>12. CASE Full \subseteq m
  BY <1>2, <1>11, <1>12, Zenon DEF m
<1>13. CASE ~ (Full \subseteq m)
  <2>1. AdminRightsRule(p) = s
    BY <1>2, <1>6, <1>7, <1>13, Zenon
  <2> QED
    BY <1>3, <1>9, <1>10, <2>1, Zenon DEF m
<1> QED
  BY <1>12, <1>13

LEMMA OtherRulesAre ==
    ASSUME NEW p, p.at \in Nat
    PROVE  /\ Reports(BroadGroupWriteRule(p), 4, p) /\ Reports(DirectUserAceRule(p), 5, p)
           /\ Reports(SensitivePathRule(p), 6, p)
           /\ effective_upper_bound(p) # {} /\ p.sensitive => Fires("SENSITIVE_PATH", SensitivePathRule(p))
<1> DEFINE m == effective_upper_bound(p)
           broad == \E c \in p.contributing : c.id \in BroadSids /\ c.mask \cap m \cap ContentWriteBits # {}
           direct == p.kind \in {"User", "Computer"} /\ \E a \in p.matched : ~ a.inherited /\ a.id = 0
           path == m # {} /\ p.sensitive
<1>1. AuditedRight(p).mask = m /\ AuditedRight(p).sure = effective_determinable(p)
  BY DEF AuditedRight
<1>2. broad \in BOOLEAN /\ direct \in BOOLEAN /\ path \in BOOLEAN
  OBVIOUS
<1>3. PICK b, d, c \in BOOLEAN : b = broad /\ d = direct /\ c = path
  <2> HIDE DEF broad, direct, path
  <2> QED
    BY <1>2, Zenon
<1>4. /\ BroadGroupWriteRule(p) = When(b, Finding("BROAD_GROUP_WRITE", p, effective_determinable(p)))
      /\ DirectUserAceRule(p) = When(d, Finding("DIRECT_USER_ACE", p, TRUE))
      /\ SensitivePathRule(p) = When(c, Finding("SENSITIVE_PATH", p, effective_determinable(p)))
  <2>1. BroadGroupWriteRule(p) = When(broad, Finding("BROAD_GROUP_WRITE", p, effective_determinable(p)))
    BY <1>1, Zenon DEF BroadGroupWriteRule
  <2>2. DirectUserAceRule(p) = When(direct, Finding("DIRECT_USER_ACE", p, TRUE))
    BY Zenon DEF DirectUserAceRule
  <2>3. SensitivePathRule(p) = When(path, Finding("SENSITIVE_PATH", p, effective_determinable(p)))
    BY <1>1, Zenon DEF SensitivePathRule
  <2> HIDE DEF broad, direct, path
  <2> QED
    BY <1>3, <2>1, <2>2, <2>3, Zenon
<1>5. (b => Says("BROAD_GROUP_WRITE", m)) /\ Says("DIRECT_USER_ACE", m) /\ (c => Says("SENSITIVE_PATH", m))
  <2>1. broad => m \cap ContentWriteBits # {}
    OBVIOUS
  <2>2. path => m # {}
    OBVIOUS
  <2> HIDE DEF broad, direct, path, m
  <2> QED
    BY <1>3, <2>1, <2>2 DEF Says
<1>6. /\ 4 \in Rules /\ 5 \in Rules /\ 6 \in Rules
      /\ "BROAD_GROUP_WRITE" \in RuleIds[4] /\ "DIRECT_USER_ACE" \in RuleIds[5] /\ "SENSITIVE_PATH" \in RuleIds[6]
      /\ {"BROAD_GROUP_WRITE", "DIRECT_USER_ACE", "SENSITIVE_PATH"} \subseteq RuleNames
  BY RuleOf DEF RuleNames
<1>7. m # {} /\ p.sensitive => c
  BY <1>3, Zenon
<1>8. PICK s, t, u : /\ s = BroadGroupWriteRule(p) /\ t = DirectUserAceRule(p) /\ u = SensitivePathRule(p)
  OBVIOUS
<1> HIDE DEF broad, direct, path, m
<1>9. Reports(s, 4, p)
  BY <1>4, <1>5, <1>6, <1>8, RuleFires DEF m
<1>10. Reports(t, 5, p)
  BY <1>4, <1>5, <1>6, <1>8, OneFinding DEF m
<1>11. Reports(u, 6, p) /\ (c => Fires("SENSITIVE_PATH", u))
  BY <1>4, <1>5, <1>6, <1>8, RuleFires DEF m
<1> QED
  BY <1>7, <1>8, <1>9, <1>10, <1>11, Zenon DEF m

\* All rules: they report what is so, and every right they are there for.
LEMMA EvaluateIs ==
    ASSUME NEW p, p.at \in Nat, NEW rule \in Rules
    PROVE  Reports(Evaluate(rule, p), rule, p)
<1>1. CASE rule = 1
  BY <1>1, FullControlIs DEF Evaluate
<1>2. CASE rule = 2
  BY <1>2, WriteAccessIs DEF Evaluate
<1>3. CASE rule = 3
  BY <1>3, AdminRightsIs DEF Evaluate
<1>4. CASE rule = 4
  BY <1>4, OtherRulesAre DEF Evaluate
<1>5. CASE rule = 5
  BY <1>5, OtherRulesAre DEF Evaluate
<1>6. CASE rule = 6
  <2>1. Evaluate(rule, p) = SensitivePathRule(p)
    BY <1>6 DEF Evaluate
  <2> QED
    BY <1>6, <2>1, OtherRulesAre
<1> QED
  BY <1>1, <1>2, <1>3, <1>4, <1>5, <1>6, RuleOf

LEMMA BoundIsCovered ==
    ASSUME NEW p, p.at \in Nat, NEW found, \A rule \in Rules, v \in RuleNames : Fires(v, Evaluate(rule, p)) => v \in found,
           NEW mask, mask \subseteq effective_upper_bound(p)
    PROVE  Covered(found, mask, p.sensitive)
<1> DEFINE m == effective_upper_bound(p)
<1>0. 1 \in Rules /\ 2 \in Rules /\ 3 \in Rules /\ 6 \in Rules
      /\ {"FULL_CONTROL", "WRITE_ACCESS", "PARTIAL_WRITE", "SENSITIVE_PATH"} \subseteq RuleNames
  BY DEF Rules, RuleNames
<1>1. /\ Evaluate(1, p) = FullControlRule(p) /\ Evaluate(2, p) = WriteAccessRule(p)
      /\ Evaluate(3, p) = AdminRightsRule(p) /\ Evaluate(6, p) = SensitivePathRule(p)
  BY DEF Evaluate
<1>2. \A i \in DOMAIN AdminRights : AdminRights[i][2] \in RuleNames
  BY DEF AdminRights, RuleNames
<1>3. Full \subseteq m => "FULL_CONTROL" \in found
  BY <1>0, <1>1, FullControlIs, Zenon
<1>4. ~ (Full \subseteq m) /\ m \cap ContentWriteBits # {} => "WRITE_ACCESS" \in found \/ "PARTIAL_WRITE" \in found
  BY <1>0, <1>1, WriteAccessIs, Zenon
<1>5. ~ (Full \subseteq m) => \A i \in DOMAIN AdminRights : AdminRights[i][1] \in m => AdminRights[i][2] \in found
  BY <1>0, <1>1, <1>2, AdminRightsIs, Zenon
<1>6. m # {} /\ p.sensitive => "SENSITIVE_PATH" \in found
  BY <1>0, <1>1, OtherRulesAre, Zenon
<1> HIDE DEF m
<1>7. mask \subseteq m
  BY DEF m
<1>8. Full \subseteq mask => "FULL_CONTROL" \in found
  BY <1>3, <1>7
<1>9. mask \cap ContentWriteBits # {} => found \cap {"FULL_CONTROL", "WRITE_ACCESS", "PARTIAL_WRITE"} # {}
  <2>1. mask \cap ContentWriteBits # {} => m \cap ContentWriteBits # {}
    BY <1>7
  <2>2. ASSUME mask \cap ContentWriteBits # {}
        PROVE  "FULL_CONTROL" \in found \/ "WRITE_ACCESS" \in found \/ "PARTIAL_WRITE" \in found
    BY <1>3, <1>4, <2>1, <2>2, Zenon
  <2> QED
    BY <2>2
<1>10. \A i \in DOMAIN AdminRights : AdminRights[i][1] \in mask => found \cap {"FULL_CONTROL", AdminRights[i][2]} # {}
  <2> SUFFICES ASSUME NEW i \in DOMAIN AdminRights, AdminRights[i][1] \in mask
               PROVE  found \cap {"FULL_CONTROL", AdminRights[i][2]} # {}
    OBVIOUS
  <2>1. AdminRights[i][1] \in m
    BY <1>7
  <2>2. "FULL_CONTROL" \in found \/ AdminRights[i][2] \in found
    BY <1>3, <1>5, <2>1, Zenon
  <2> QED
    BY <2>2
<1>11. mask # {} /\ p.sensitive => "SENSITIVE_PATH" \in found
  <2>1. mask # {} => m # {}
    BY <1>7
  <2> QED
    BY <1>6, <2>1, Zenon
<1> QED
  BY <1>8, <1>9, <1>10, <1>11, Zenon DEF Covered

\* The results and their indices.
LEMMA PermsAre ==
    ASSUME PermsInv
    PROVE  /\ Len(perms) \in Nat /\ DOMAIN perms = 1 .. Len(perms)
           /\ \A i \in DOMAIN perms : /\ perms[i].at = i /\ perms[i].ntfs \subseteq Full /\ perms[i].effective \subseteq Full
                                      /\ objs[i] \in DOMAIN Objects
<1>1. IsList(perms)
  BY DEF PermsInv, IsList
<1>2. ASSUME NEW i \in DOMAIN perms
      PROVE  /\ perms[i].at = i /\ perms[i].ntfs \subseteq Full /\ perms[i].effective \subseteq Full
             /\ objs[i] \in DOMAIN Objects
  <2> DEFINE o == Objects[objs[i]]
             fso == parse_security(o)
  <2>1. objs[i] \in DOMAIN Objects /\ perms[i] = evaluated(o, fso, i)
    BY <1>2 DEF PermsInv
  <2> HIDE DEF fso, o
  <2>2. PICK ds : perms[i] = ResultOf(o, fso, i, ds)
    BY <2>1, ResultIs
  <2>3. perms[i].at = i /\ perms[i].ntfs = ntfs_mask(fso) /\ perms[i].effective = effective_mask(fso)
    BY <2>2, FieldsAre
  <2> QED
    BY <2>1, <2>3, MasksAre
<1> QED
  BY <1>1, <1>2, ListIs

\* The list of a rule holds its findings for every result (RiskAccumulator),
LEMMA RuleListIs ==
    ASSUME PermsInv, NEW rule \in Rules
    PROVE  /\ acc[rule] \in Seq(Findings)
           /\ \A y : Occurs(y, acc[rule]) <=> \E i \in DOMAIN perms : Occurs(y, Evaluate(rule, perms[i]))
<1> DEFINE n == Len(perms)
           parts == [i \in DOMAIN perms |-> Evaluate(rule, perms[i])]
<1>1. n \in Nat /\ DOMAIN perms = 1 .. n /\ \A i \in 1 .. n : perms[i].at \in Nat
  BY PermsAre
<1>2. \A i \in 1 .. n : Evaluate(rule, perms[i]) \in Seq(Findings)
  BY <1>1, EvaluateIs DEF Reports
<1>3. acc[rule] = FlattenSeq(parts)
  BY DEF PermsInv
<1>4. parts = [i \in 1 .. n |-> Evaluate(rule, perms[i])]
  BY <1>1
<1> HIDE DEF n
<1>5. ASSUME NEW q, q = [i \in 1 .. n |-> Evaluate(rule, perms[i])]
      PROVE  q \in Seq(Seq(Findings)) /\ Len(q) = n /\ \A i \in 1 .. n : q[i] = Evaluate(rule, perms[i])
  <2>1. q \in [1 .. n -> Seq(Findings)]
    BY <1>2, <1>5
  <2> QED
    BY <1>1, <1>5, <2>1
<1> HIDE DEF parts
<1>6. parts \in Seq(Seq(Findings)) /\ Len(parts) = n /\ \A i \in 1 .. n : parts[i] = Evaluate(rule, perms[i])
  BY <1>4, <1>5
<1>7. /\ FlattenSeq(parts) \in Seq(Findings)
      /\ \A y : Occurs(y, FlattenSeq(parts)) <=> \E k \in 1 .. Len(parts) : Occurs(y, parts[k])
  BY <1>6, FlatHolds
<1>8. ASSUME NEW y PROVE Occurs(y, acc[rule]) <=> \E i \in DOMAIN perms : Occurs(y, Evaluate(rule, perms[i]))
  <2>1. Occurs(y, acc[rule]) <=> \E k \in 1 .. n : Occurs(y, parts[k])
    BY <1>3, <1>6, <1>7, Zenon
  <2> QED
    BY <1>1, <1>6, <2>1, Zenon
<1> QED
  BY <1>3, <1>7, <1>8

\* and all of them are those of evaluate_all.
LEMMA AllFindings ==
    ASSUME PermsInv, NEW all, all = finish(acc)
    PROVE  /\ all = evaluate_all(perms) /\ all \in Seq(Findings)
           /\ \A y : Occurs(y, all) <=> \E rule \in Rules, i \in DOMAIN perms : Occurs(y, Evaluate(rule, perms[i]))
<1>1. acc = [r \in Rules |-> FlattenSeq([i \in DOMAIN perms |-> Evaluate(r, perms[i])])]
  BY DEF PermsInv
<1>2. all = evaluate_all(perms)
  BY <1>1, Zenon DEF evaluate_all, finish
<1>3. acc \in Seq(Seq(Findings)) /\ Len(acc) = 6
  <2>1. \A r \in Rules : acc[r] \in Seq(Findings)
    BY RuleListIs
  <2>2. Rules = 1 .. 6 /\ DOMAIN acc = Rules
    BY <1>1, RuleOf
  <2>3. acc = [r \in 1 .. 6 |-> acc[r]]
    BY <1>1, <2>2
  <2>4. acc \in [1 .. 6 -> Seq(Findings)]
    BY <2>1, <2>2, <2>3
  <2>5. ASSUME NEW S, NEW n \in Nat, NEW q \in [1 .. n -> S] PROVE q \in Seq(S) /\ Len(q) = n
    BY <2>5
  <2>6. 6 \in Nat
    OBVIOUS
  <2> QED
    BY <2>4, <2>5, <2>6, Zenon
<1>4. all \in Seq(Findings) /\ \A y : Occurs(y, all) <=> \E k \in 1 .. Len(acc) : Occurs(y, acc[k])
  BY <1>3, FlatHolds DEF finish
<1>5. ASSUME NEW y
      PROVE  Occurs(y, all) <=> \E rule \in Rules, i \in DOMAIN perms : Occurs(y, Evaluate(rule, perms[i]))
  <2>1. 1 .. Len(acc) = Rules
    BY <1>3, RuleOf
  <2>2. Occurs(y, all) <=> \E k \in Rules : Occurs(y, acc[k])
    BY <1>4, <2>1, Zenon
  <2> QED
    BY <2>2, RuleListIs, Zenon
<1> QED
  BY <1>2, <1>4, <1>5

\* With a known token, DACL and target no outcome goes beyond the upper bound (model.rs).
LEMMA OutcomesAreBounded ==
    ASSUME FactsInv, ~ facts.unseen, NEW k, IsList(Objects[k].aces), NEW n, NEW p,
           p = evaluated(Objects[k], parse_security(Objects[k]), n),
           p.unsupported = 0, uncertainty(p) \cap {"Token", "Target"} = {}, NEW x \in Outcomes(k)
    PROVE  x.effective \subseteq effective_upper_bound(p)
<1> DEFINE o == Objects[k]
           fso == parse_security(Objects[k])
           u == uncertainty(p)
           ends == {d.max : d \in {d \in p.diagnostics : d.v = "LogonDependentTrustees"}}
           upper == p.ntfs \cup UNION ends
           cut == p.status = "Applied" /\ p.share # <<>> /\ u \cap {"Share", "Target"} = {}
<1>1. PICK ds : p = ResultOf(o, fso, n, ds) /\ KnownMarkers(fso) \subseteq ds
  BY ResultIs
<1>2. /\ p.ntfs = ntfs_mask(fso) /\ p.status = facts.status /\ p.diagnostics = ds /\ p.unsupported = fso.unsupported
      /\ p.share = (IF facts.status = "Applied" THEN <<facts.mask>> ELSE <<>>)
  BY <1>1, FieldsAre
<1>3. fso.kind = o.dacl /\ fso.unsupported \in Nat /\ (fso.kind # "Null" => fso.aces = o.aces)
  <2>1. IsList(o.aces) /\ fso.unsupported = 0
    BY <1>2
  <2> HIDE DEF o
  <2> QED
    BY <2>1, ParsedIs DEF o
<1>4. /\ TokenKnown /\ ~ \E d \in facts.dfs : d.v = "DfsTargetEvaluated" /\ d.open
      /\ "Share" \notin u => facts.status # "ReadFailed" /\ facts.unsupported = 0
  <2>1. facts.unsupported \in Nat
    BY DEF FactsInv
  <2>2. p = evaluated(o, fso, n) /\ "Token" \notin u /\ "Target" \notin u
    OBVIOUS
  <2> HIDE DEF o, fso
  <2> QED
    BY <1>3, <2>1, <2>2, KnownLayers DEF u
<1>5. facts.known = facts.true /\ ~ facts.targets
  BY <1>4 DEF FactsInv
<1>6. u = {} => {y.effective : y \in Outcomes(k)} = {p.effective}
  BY KnownOutcomes DEF effective_determinable
<1>7. effective_upper_bound(p) = IF u = {} THEN p.effective ELSE (IF cut THEN upper \cap p.share[1] ELSE upper) \cup p.effective
  BY Zenon DEF effective_upper_bound
<1> HIDE DEF ends
<1>8. PICK t \in Tokens, s \in facts.real : x.effective = {} \/ x.effective = NtfsOf(o, t) \cap s
  BY <1>5, OutcomesAre DEF o
<1> HIDE DEF o, fso
<1>9. NtfsOf(o, facts.known) = p.ntfs
  BY <1>2, <1>3 DEF NtfsOf, ntfs_mask
<1>10. NtfsOf(o, facts.known \cup {LogonSid}) \subseteq upper
  <2> DEFINE with == granted(fso.aces, facts.known \cup {LogonSid})
             hi == ntfs_mask(fso) \cup with
  <2>1. CASE fso.kind = "Null"
    BY <1>2, <1>3, <2>1 DEF NtfsOf, ntfs_mask
  <2>2. CASE fso.kind # "Null"
    <3>1. NtfsOf(o, facts.known \cup {LogonSid}) = with
      BY <1>3, <2>2 DEF NtfsOf
    <3>2. CASE with = ntfs_mask(fso)
      BY <1>2, <3>1, <3>2
    <3>3. CASE with # ntfs_mask(fso)
      <4>1. PICK m : m = RangeMarker("LogonDependentTrustees", hi)
        OBVIOUS
      <4>2. logon_dependent(fso) = {m}
        BY <2>2, <3>3, <4>1, Zenon DEF logon_dependent
      <4>3. m \in p.diagnostics
        BY <1>1, <1>2, <4>2 DEF KnownMarkers
      <4>4. m.v = "LogonDependentTrustees" /\ m.max = hi
        BY <4>1 DEF RangeMarker
      <4> HIDE DEF hi, with
      <4>5. hi \in ends
        BY <4>3, <4>4 DEF ends
      <4>6. with \subseteq hi
        BY DEF hi
      <4> QED
        BY <3>1, <4>5, <4>6
    <3> QED
      BY <3>2, <3>3
  <2> QED
    BY <2>1, <2>2
<1>11. NtfsOf(o, t) \subseteq upper
  <2>1. t = facts.known \/ t = facts.known \cup {LogonSid}
    BY <1>5, <1>8 DEF Tokens
  <2> QED
    BY <1>9, <1>10, <2>1
<1>12. cut => s = p.share[1]
  <2> SUFFICES ASSUME cut PROVE s = p.share[1]
    OBVIOUS
  <2>1. facts.status = "Applied" /\ "Share" \notin u
    BY <1>2
  <2>2. facts.real = {facts.mask} /\ p.share[1] = facts.mask
    BY <1>2, <1>4, <1>5, <2>1 DEF FactsInv
  <2> QED
    BY <1>8, <2>2
<1> HIDE DEF u, upper, cut
<1>13. CASE u = {}
  BY <1>6, <1>7, <1>13
<1>14. CASE u # {} /\ cut
  BY <1>7, <1>8, <1>11, <1>12, <1>14
<1>15. CASE u # {} /\ ~ cut
  BY <1>7, <1>8, <1>11, <1>15
<1> QED
  BY <1>13, <1>14, <1>15

LEMMA FindingsFollow ==
    AuditInv => FindingsAreSound
<1> SUFFICES ASSUME AuditInv, stage = "report", NEW all, all = finish(acc)
             PROVE  /\ all = evaluate_all(perms)
                    /\ write_summary(perms, all).open = not_determinable_paths(perms)
                    /\ ~ facts.unseen =>
                       /\ \A table \in {print_risk_findings(all), write_risk_table(all)} : \A i \in DOMAIN table :
                             ~ table[i].flagged => \A x \in Outcomes(objs[all[i].of]) : Says(all[i].rule, x.effective)
                       /\ \A i \in DOMAIN all : all[i].sure => \A x \in Outcomes(objs[all[i].of]) : Says(all[i].rule, x.effective)
                       /\ \A n \in DOMAIN perms :
                             perms[n].unsupported = 0 /\ uncertainty(perms[n]) \cap {"Token", "Target"} = {} =>
                                \A x \in Outcomes(objs[n]) :
                                   Covered({all[i].rule : i \in {i \in DOMAIN all : all[i].of = n}}, x.effective, perms[n].sensitive)
  BY Zenon DEF FindingsAreSound
<1>1. PermsInv /\ FactsInv
  BY DEF AuditInv
<1>2. /\ all = evaluate_all(perms) /\ all \in Seq(Findings)
      /\ \A y : Occurs(y, all) <=> \E rule \in Rules, i \in DOMAIN perms : Occurs(y, Evaluate(rule, perms[i]))
  BY <1>1, AllFindings
<1>3. write_summary(perms, all).open = not_determinable_paths(perms)
  <2>1. {i \in DOMAIN perms : is_incomplete(perms[i])} = {i \in DOMAIN perms : ~ effective_determinable(perms[i])}
    BY DEF is_incomplete, effective_determinable
  <2> QED
    BY <2>1 DEF write_summary, not_determinable_paths
<1>4. DOMAIN all = 1 .. Len(all) /\ \A i \in DOMAIN all : Occurs(all[i], all)
  BY <1>2 DEF Occurs
<1>5. \A i \in DOMAIN perms : /\ objs[i] \in DOMAIN Objects /\ IsList(Objects[objs[i]].aces) /\ perms[i].at \in Nat /\ perms[i].at = i
                              /\ perms[i] = evaluated(Objects[objs[i]], parse_security(Objects[objs[i]]), i)
  BY <1>1, PermsAre, AuditAssumption DEF PermsInv
<1>6. ASSUME NEW i \in DOMAIN all
      PROVE  \E n \in DOMAIN perms : /\ all[i].of = n /\ all[i].incomplete = is_incomplete(perms[n])
                                     /\ all[i].sure => all[i].rule = "DIRECT_USER_ACE" \/ effective_determinable(perms[n])
                                     /\ Says(all[i].rule, effective_upper_bound(perms[n]))
  <2>1. PICK rule \in Rules, n \in DOMAIN perms : Occurs(all[i], Evaluate(rule, perms[n]))
    BY <1>2, <1>4, <1>6, Zenon
  <2>2. IsFindingOf(all[i], rule, perms[n])
    BY <1>5, <2>1, EvaluateIs, Zenon DEF Reports
  <2>3. perms[n].at = n
    BY <1>5
  <2> QED
    BY <2>2, <2>3, Zenon DEF IsFindingOf
<1>7. ASSUME ~ facts.unseen, NEW n \in DOMAIN perms, effective_determinable(perms[n]), NEW x \in Outcomes(objs[n])
      PROVE  x.effective = effective_upper_bound(perms[n])
  <2>1. PICK p, k : p = perms[n] /\ k = objs[n]
    OBVIOUS
  <2>2. /\ IsList(Objects[k].aces) /\ p = evaluated(Objects[k], parse_security(Objects[k]), n)
        /\ effective_determinable(p) /\ x \in Outcomes(k)
    BY <1>5, <1>7, <2>1, Zenon
  <2>3. {y.effective : y \in Outcomes(k)} = {p.effective}
    BY <1>1, <1>7, <2>2, KnownOutcomes
  <2>4. x.effective = p.effective
    BY <2>2, <2>3
  <2>5. effective_upper_bound(p) = p.effective
    BY <2>2 DEF effective_upper_bound, effective_determinable
  <2> QED
    BY <2>1, <2>4, <2>5, Zenon
<1>8. ASSUME ~ facts.unseen, NEW i \in DOMAIN all, ~ all[i].incomplete \/ all[i].sure, NEW x \in Outcomes(objs[all[i].of])
      PROVE  Says(all[i].rule, x.effective)
  <2>1. PICK n \in DOMAIN perms : /\ all[i].of = n /\ all[i].incomplete = is_incomplete(perms[n])
                                  /\ all[i].sure => all[i].rule = "DIRECT_USER_ACE" \/ effective_determinable(perms[n])
                                  /\ Says(all[i].rule, effective_upper_bound(perms[n]))
    BY <1>6, <1>8
  <2>2. is_incomplete(perms[n]) <=> ~ effective_determinable(perms[n])
    BY DEF is_incomplete, effective_determinable
  <2>3. CASE effective_determinable(perms[n])
    <3>1. x.effective = effective_upper_bound(perms[n])
      BY <1>7, <1>8, <2>1, <2>3, Zenon
    <3> QED
      BY <2>1, <3>1, Zenon
  <2>4. CASE ~ effective_determinable(perms[n])
    <3>1. all[i].rule = "DIRECT_USER_ACE"
      <4>1. is_incomplete(perms[n])
        BY <2>2, <2>4
      <4>2. all[i].incomplete
        BY <2>1, <4>1, Zenon
      <4> QED
        BY <1>8, <2>1, <2>4, <4>2, Zenon
    <3>2. Says("DIRECT_USER_ACE", x.effective)
      BY DEF Says
    <3> QED
      BY <3>1, <3>2, Zenon
  <2> QED
    BY <2>3, <2>4
<1>9. ASSUME ~ facts.unseen, NEW table \in {print_risk_findings(all), write_risk_table(all)}, NEW i \in DOMAIN table,
             ~ table[i].flagged, NEW x \in Outcomes(objs[all[i].of])
      PROVE  Says(all[i].rule, x.effective)
  <2>1. table = [j \in DOMAIN all |-> [finding |-> all[j], flagged |-> all[j].incomplete]]
    BY <1>9 DEF print_risk_findings, write_risk_table
  <2>2. i \in DOMAIN all /\ table[i].flagged = all[i].incomplete
    BY <1>9, <2>1
  <2>3. ~ all[i].incomplete
    BY <1>9, <2>2, Zenon
  <2> QED
    BY <1>8, <1>9, <2>2, <2>3, Zenon
<1>10. ASSUME ~ facts.unseen, NEW n \in DOMAIN perms, perms[n].unsupported = 0,
              uncertainty(perms[n]) \cap {"Token", "Target"} = {}, NEW x \in Outcomes(objs[n])
       PROVE  Covered({all[i].rule : i \in {i \in DOMAIN all : all[i].of = n}}, x.effective, perms[n].sensitive)
  <2> DEFINE found == {all[i].rule : i \in {i \in DOMAIN all : all[i].of = n}}
  <2>1. PICK p, k : p = perms[n] /\ k = objs[n]
    OBVIOUS
  <2>2. /\ IsList(Objects[k].aces) /\ p = evaluated(Objects[k], parse_security(Objects[k]), n)
        /\ p.unsupported = 0 /\ uncertainty(p) \cap {"Token", "Target"} = {} /\ x \in Outcomes(k)
    BY <1>5, <1>10, <2>1, Zenon
  <2>3. x.effective \subseteq effective_upper_bound(p)
    BY <1>1, <1>10, <2>2, OutcomesAreBounded
  <2>4. p.at \in Nat /\ p.at = n
    BY <1>5, <2>1
  <2>5. ASSUME NEW rule \in Rules, NEW v \in RuleNames, Fires(v, Evaluate(rule, p)) PROVE v \in found
    <3>1. PICK y : Occurs(y, Evaluate(rule, p)) /\ y.rule = v
      BY <2>5, Zenon DEF Fires
    <3>2. y.of = n
      BY <2>4, <3>1, EvaluateIs, Zenon DEF Reports, IsFindingOf
    <3>3. Occurs(y, all)
      BY <1>2, <2>1, <3>1, Zenon
    <3>4. PICK i \in DOMAIN all : all[i] = y
      BY <1>4, <3>3, Zenon DEF Occurs
    <3> QED
      BY <3>1, <3>2, <3>4
  <2> HIDE DEF found
  <2>6. Covered(found, x.effective, p.sensitive)
    BY <2>3, <2>4, <2>5, BoundIsCovered
  <2> QED
    BY <2>1, <2>6, Zenon DEF found
<1> QED
  BY <1>2, <1>3, <1>8, <1>9, <1>10, Zenon

LEMMA TypesFollow ==
    AuditInv => TypeOK
<1> SUFFICES ASSUME AuditInv PROVE TypeOK
  OBVIOUS
<1>1. ReturnedInv /\ PermsInv /\ stage \in {"read", "evaluate", "report", "stored", "loaded"}
  BY DEF AuditInv
<1>2. list.st \in {"Reading", "Ok", "Err"} /\ list.marked \in BOOLEAN
  BY <1>1 DEF ReturnedInv
<1>3. Len(perms) = Len(objs) /\ Len(perms) <= MaxObjects
  BY <1>1 DEF PermsInv
<1>4. \A i \in DOMAIN perms : perms[i].at = i /\ {perms[i].ntfs, perms[i].effective} \subseteq SUBSET Full
  BY <1>1, PermsAre
<1>5. ASSUME NEW r \in Rules, NEW i \in DOMAIN acc[r] PROVE acc[r][i].rule \in RuleIds[r]
  <2>1. PICK s : s = acc[r]
    OBVIOUS
  <2>2. s \in Seq(Findings) /\ \A y : Occurs(y, s) => \E k \in DOMAIN perms : Occurs(y, Evaluate(r, perms[k]))
    BY <1>1, <2>1, RuleListIs
  <2>3. Occurs(s[i], s)
    BY <1>5, <2>1, <2>2 DEF Occurs
  <2>4. PICK k \in DOMAIN perms : Occurs(s[i], Evaluate(r, perms[k]))
    BY <2>2, <2>3, Zenon
  <2>5. perms[k].at \in Nat
    BY <1>1, <2>4, PermsAre
  <2>6. Reports(Evaluate(r, perms[k]), r, perms[k])
    BY <2>5, EvaluateIs
  <2> QED
    BY <2>1, <2>4, <2>6, Zenon DEF Reports, IsFindingOf
<1> QED
  BY <1>1, <1>2, <1>3, <1>4, <1>5, Zenon DEF TypeOK

----------------------------------------------------------------------------
(* The invariant of the results.                                           *)

LEMMA NothingJudged ==
    accumulator = [r \in Rules |-> FlattenSeq([i \in DOMAIN <<>> |-> Evaluate(r, <<>>[i])])]
<1>1. FlattenSeq(<<>>) = <<>>
  BY DEF FlattenSeq
<1>2. ASSUME NEW r PROVE [i \in DOMAIN <<>> |-> Evaluate(r, <<>>[i])] = <<>>
  <2>1. DOMAIN <<>> = {}
    OBVIOUS
  <2> QED
    BY <2>1
<1>3. \A r : FlattenSeq([i \in DOMAIN <<>> |-> Evaluate(r, <<>>[i])]) = <<>>
  BY <1>1, <1>2, Zenon
<1> QED
  BY <1>3, Zenon DEF accumulator

LEMMA AuditInitIs ==
    Init => AuditInv
<1> SUFFICES ASSUME Init PROVE AuditInv
  OBVIOUS
<1>1. /\ list = Reading /\ stage = "read" /\ perms = <<>> /\ objs = <<>> /\ acc = accumulator /\ loaded = NoRun
      /\ cache = [h \in {Objects[k].hash : k \in DOMAIN Objects} |-> <<>>]
  BY DEF Init, ReadInit, AuditInit
<1>2. ReturnedInv
  BY <1>1 DEF ReturnedInv, Reading
<1>3. CacheInv
  BY <1>1 DEF CacheInv
<1>4. PermsInv
  <2>1. perms \in Seq(Range(perms)) /\ Len(perms) = 0 /\ DOMAIN perms = {} /\ objs \in Seq(DOMAIN Objects) /\ Len(objs) = 0
    BY <1>1
  <2>2. Len(perms) <= MaxObjects
    BY <2>1, AuditAssumption
  <2>3. acc = [r \in Rules |-> FlattenSeq([i \in DOMAIN perms |-> Evaluate(r, perms[i])])]
    BY <1>1, NothingJudged, Zenon
  <2> QED
    BY <2>1, <2>2, <2>3 DEF PermsInv
<1>5. StoreInv
  BY <1>1 DEF StoreInv, NoRun
<1> QED
  BY <1>1, <1>2, <1>3, <1>4, <1>5 DEF AuditInv

\* What a read returns.
LEMMA DeliversReturned ==
    ASSUME NEW st \in {"Ok", "Err"}, NEW l, NEW marked \in BOOLEAN, Delivers(st, l, marked),
           st = "Err" => l = {} /\ marked, st = "Ok" /\ job = "trusts" => ~ marked,
           st = "Ok" /\ job = "shares" => l = Range(rows) /\ Len(rows) = Len(Readable(srv.entries))
    PROVE  ReturnedInv'
<1>1. list' = [st |-> st, list |-> l, marked |-> marked] /\ UNCHANGED <<job, srv, rows>>
  BY DEF Delivers
<1>2. list'.st = st /\ list'.list = l /\ list'.marked = marked
  BY <1>1
<1> QED
  BY <1>1, <1>2 DEF ReturnedInv
LEMMA FailsReturned ==
    ASSUME Fails
    PROVE  ReturnedInv'
  BY DeliversReturned DEF Fails
LEMMA OpenReturned ==
    ASSUME list' = Reading
    PROVE  ReturnedInv'
  BY DEF ReturnedInv, Reading

LEMMA ReadsReturn ==
    ASSUME ReadInv, TableRead \/ MembersRead \/ ListRead \/ ForestRead \/ AccountsRead \/ SamRead \/ AccountRead \/ SharesRead
                    \/ PolicyRead \/ DfsRead
    PROVE  ReturnedInv'
<1>1. CASE TableRead
  <2>1. PICK marked \in BOOLEAN : marked = (gaps # {} \/ Cardinality(account_domains) > 1)
    OBVIOUS
  <2>2. job = "table" /\ (Fails \/ \E l : Delivers("Ok", l, marked))
    BY <1>1, <2>1 DEF TableRead
  <2> QED
    BY <2>2, FailsReturned, DeliversReturned
<1>2. CASE MembersRead
  <2>1. PICK marked \in BOOLEAN : marked = (~ outs[2].ok \/ ~ outs[3].ok \/ universal_on_domain_bind)
    OBVIOUS
  <2>2. job = "members" /\ (Fails \/ \E l : Delivers("Ok", l, marked))
    BY <1>2, <2>1 DEF MembersRead
  <2> QED
    BY <2>2, FailsReturned, DeliversReturned
<1>3. CASE ListRead
  <2>1. job # "shares" /\ (Fails \/ \E l : Delivers("Ok", l, FALSE))
    BY <1>3 DEF ListRead
  <2> QED
    BY <2>1, FailsReturned, DeliversReturned
<1>4. CASE ForestRead
  <2>1. PICK marked \in BOOLEAN : marked = (~ outs[1].ok)
    OBVIOUS
  <2>2. job = "forest" /\ (Fails \/ \E l : Delivers("Ok", l, marked))
    BY <1>4, <2>1 DEF ForestRead
  <2> QED
    BY <2>2, FailsReturned, DeliversReturned
<1>5. CASE AccountsRead \/ SamRead
  <2>1. job \in {"accounts", "sam"} /\ \E l : Delivers("Ok", l, TRUE)
    BY <1>5 DEF AccountsRead, SamRead
  <2> QED
    BY <2>1, DeliversReturned
<1>6. CASE AccountRead
  <2>1. PICK marked \in BOOLEAN : marked = (~ outs[1].ok \/ ~ (outs[2].ok /\ AllReadable(outs[2].s)))
    OBVIOUS
  <2>2. job = "account" /\ \E l : Delivers("Ok", l, marked)
    BY <1>6, <2>1 DEF AccountRead
  <2> QED
    BY <2>2, DeliversReturned
<1>7. CASE SharesRead
  <2>1. Done /\ job = "shares"
    BY <1>7 DEF SharesRead
  <2>2. CASE ~ outs[1].ok
    BY <1>7, <2>2, FailsReturned DEF SharesRead
  <2>3. CASE outs[1].ok
    <3>1. PICK marked \in BOOLEAN : marked = (gaps # {})
      OBVIOUS
    <3>2. outs[1].s = srv.entries
      BY <2>1, <2>3, FirstAnswer
    <3>3. Len(rows) = Len(Readable(srv.entries)) /\ Delivers("Ok", Range(rows), marked)
      BY <1>7, <2>3, <3>1, <3>2 DEF SharesRead, ShareNames
    <3> QED
      BY <2>1, <3>3, DeliversReturned
  <2> QED
    BY <2>2, <2>3
<1>8. CASE PolicyRead
  <2>1. PICK marked \in BOOLEAN : marked = (gaps # {})
    OBVIOUS
  <2>2. job = "policy" /\ (Fails \/ \E l : Delivers("Ok", l, marked))
    BY <1>8, <2>1 DEF PolicyRead
  <2> QED
    BY <2>2, FailsReturned, DeliversReturned
<1>9. CASE DfsRead
  <2>1. job = "dfs" /\ Delivers("Ok", {decide.at}, decide.marked)
    BY <1>9 DEF DfsRead
  <2>2. decide.marked \in BOOLEAN
    <3> DEFINE Evaluated(at, others, known) == [at |-> at, marked |-> others # {} \/ ~ known]
    <3>1. \A at, others, known : Evaluated(at, others, known).marked \in BOOLEAN
      OBVIOUS
    <3>2. \E at, others, known : decide = Evaluated(at, others, known)
      <4> HIDE DEF Evaluated
      <4>1. PICK active : active = {srv.entries[i].id : i \in {i \in DOMAIN srv.entries : srv.entries[i].own}}
        OBVIOUS
      <4>2. decide = IF outs[1].ok
                     THEN IF srv.final = srv.asked THEN Evaluated(srv.asked, {}, TRUE)
                          ELSE Evaluated(srv.final, IF build_link THEN Ids(srv.entries) \ {srv.final} ELSE {},
                                         build_link /\ active = {srv.final})
                     ELSE IF ~ build_link THEN Evaluated(srv.asked, {}, TRUE)
                          ELSE IF Cardinality(active) = 1
                          THEN Evaluated(CHOOSE t \in active : TRUE, Ids(srv.entries) \ active, TRUE)
                          ELSE Evaluated(srv.asked, Ids(srv.entries), FALSE)
        BY <4>1, Zenon DEF decide, Evaluated
      <4> QED
        BY <4>2, Zenon
    <3> QED
      BY <3>1, <3>2, Zenon
  <2> QED
    BY <2>1, <2>2, DeliversReturned
<1> QED
  BY <1>1, <1>2, <1>3, <1>4, <1>5, <1>6, <1>7, <1>8, <1>9

----------------------------------------------------------------------------
(* The facts of an analysis.                                               *)

\* The share of an analysis, with what its status and its entries leave open.
IsShare(share) ==
    /\ share.real # {} /\ share.unsupported \in Nat
    /\ share.status \in {"Applied", "Unrestricted", "NotApplicable", "ReadFailed"}
    /\ share.status \in {"Unrestricted", "NotApplicable"} => share.real = {Everything}
    /\ share.status = "Applied" /\ share.unsupported = 0 => share.real = {share.aces}

\* The account is in every token, so the DACL of Everything grants it all.
LEMMA EverythingGrants ==
    ASSUME NEW t
    PROVE  granted(Everything, Known \cup t) = Full
<1> DEFINE token == Known \cup t
<1>1. 0 \in token
  BY RemoteAssumption
<1>2. DOMAIN Everything = 1 .. 1 /\ Everything[1].id = 0 /\ Everything[1].allow = TRUE /\ Everything[1].mask = Full
  BY DEF Everything
<1> HIDE DEF token
<1>3. ASSUME NEW bit \in Full PROVE Decides(Everything, token, 1, bit)
  <2>1. \A j \in 1 .. (1 - 1) : FALSE
    OBVIOUS
  <2> QED
    BY <1>1, <1>2, <1>3, <2>1 DEF Decides
<1>4. 1 \in DOMAIN Everything /\ Everything[1].allow
  BY <1>2
<1>5. \A bit \in Full : bit \in granted(Everything, token)
  BY <1>3, <1>4, Zenon DEF granted
<1>6. granted(Everything, token) \subseteq Full
  BY MasksAre
<1> QED
  BY <1>5, <1>6 DEF token

LEMMA FactsFit ==
    ASSUME NEW groups, NEW true, NEW markers, NEW local, NEW share, NEW who, IsShare(share),
           facts' = Facts(groups, true, markers, local, share, who),
           AccountStatus([kind |-> who.kind, disabled |-> who.disabled, diagnostics |-> markers]) \in {"Active", "Disabled"}
              => AccountStatus([kind |-> who.kind, disabled |-> who.disabled, diagnostics |-> markers]) = who.account,
           ~ Undetectable =>
              /\ local # "NotAvailable" /\ (\A m \in markers : m.v \notin TokenMarkers) => Known \cup groups = Known \cup true
              /\ who.targets => \E d \in who.dfs : d.v = "DfsTargetEvaluated" /\ d.open
    PROVE  FactsInv'
<1> DEFINE real == {granted(dacl, Known \cup true) : dacl \in share.real}
<1>1. /\ facts'.known = Known \cup groups /\ facts'.true = Known \cup true /\ facts'.markers = markers
      /\ facts'.local = local /\ facts'.status = share.status /\ facts'.unsupported = share.unsupported
      /\ facts'.mask = granted(share.aces, Known \cup groups) /\ facts'.real = real
  BY DEF Facts
<1>2. /\ facts'.dfs = who.dfs /\ facts'.targets = who.targets /\ facts'.kind = who.kind /\ facts'.disabled = who.disabled
      /\ facts'.account = who.account /\ facts'.unseen = Undetectable
  BY DEF Facts
<1>3. real # {} /\ \A m \in real : m \subseteq Full
  BY MasksAre DEF IsShare
<1>4. granted(share.aces, Known \cup groups) \subseteq Full
  BY MasksAre
<1>5. share.status \in {"Unrestricted", "NotApplicable"} => real = {Full}
  <2> SUFFICES ASSUME share.status \in {"Unrestricted", "NotApplicable"} PROVE real = {Full}
    OBVIOUS
  <2>1. share.real = {Everything}
    BY DEF IsShare
  <2>2. real = {granted(Everything, Known \cup true)}
    BY <2>1, Zenon
  <2> QED
    BY <2>2, EverythingGrants
<1>6. share.status = "Applied" /\ share.unsupported = 0 /\ Known \cup groups = Known \cup true
         => real = {granted(share.aces, Known \cup groups)}
  <2> SUFFICES ASSUME share.status = "Applied", share.unsupported = 0, Known \cup groups = Known \cup true
               PROVE  real = {granted(share.aces, Known \cup groups)}
    OBVIOUS
  <2>1. share.real = {share.aces}
    BY DEF IsShare
  <2>2. real = {granted(share.aces, Known \cup true)}
    BY <2>1, Zenon
  <2> QED
    BY <2>2, Zenon
<1> HIDE DEF real
<1>7. ~ facts'.unseen => /\ TokenKnown' => facts'.known = facts'.true
                         /\ facts'.targets => \E d \in facts'.dfs : d.v = "DfsTargetEvaluated" /\ d.open
  BY <1>1, <1>2 DEF TokenKnown
<1>8. share.unsupported \in Nat /\ share.status \in {"Applied", "Unrestricted", "NotApplicable", "ReadFailed"}
  BY DEF IsShare
<1>9. LET a == AccountStatus([kind |-> facts'.kind, disabled |-> facts'.disabled, diagnostics |-> facts'.markers])
      IN a \in {"Active", "Disabled"} => a = facts'.account
  BY <1>1, <1>2, Zenon
<1>10. /\ facts'.mask \subseteq Full /\ facts'.real # {} /\ (\A m \in facts'.real : m \subseteq Full)
       /\ facts'.unsupported \in Nat /\ facts'.status \in {"Applied", "Unrestricted", "NotApplicable", "ReadFailed"}
       /\ facts'.status \in {"Unrestricted", "NotApplicable"} => facts'.real = {Full}
       /\ facts'.status = "Applied" /\ facts'.unsupported = 0 /\ facts'.known = facts'.true => facts'.real = {facts'.mask}
  BY <1>1, <1>3, <1>4, <1>5, <1>6, <1>8
<1> QED
  BY <1>7, <1>9, <1>10 DEF FactsInv

\* What a scanned share shows of its descriptor.
LEMMA ScanShows ==
    ASSUME NEW e, NEW x, x = ShareDaclScan(e)
    PROVE  /\ e.descriptor = "None" => x.dacl = "NoSecurityDescriptor"
           /\ e.descriptor \in {"Absent", "NullPointer"} => x.dacl = "NullDacl"
           /\ e.descriptor \notin {"None", "Absent", "NullPointer"} => x.dacl = "Acl"
<1>1. CASE e.descriptor = "None"
  <2>1. x = [id |-> e.id, dacl |-> "NoSecurityDescriptor", aces |-> <<>>, unsupported |-> 0]
    BY <1>1 DEF ShareDaclScan
  <2>2. x.dacl = "NoSecurityDescriptor"
    BY <2>1
  <2> QED
    BY <1>1, <2>2
<1>2. CASE e.descriptor \in {"Absent", "NullPointer"}
  <2>1. x = [id |-> e.id, dacl |-> "NullDacl", aces |-> <<>>, unsupported |-> 0]
    BY <1>2 DEF ShareDaclScan, classify_dacl
  <2>2. x.dacl = "NullDacl"
    BY <2>1
  <2> QED
    BY <1>2, <2>2
<1>3. CASE e.descriptor \notin {"None", "Absent", "NullPointer"}
  <2>1. PICK aces, n : aces = Readable(srv.members[e.id]) /\ n = Len(srv.members[e.id]) - Len(Readable(srv.members[e.id]))
    OBVIOUS
  <2>2. x = [id |-> e.id, dacl |-> "Acl", aces |-> aces, unsupported |-> n]
    BY <1>3, <2>1 DEF ShareDaclScan, classify_dacl
  <2>3. x.dacl = "Acl"
    BY <2>2
  <2> QED
    BY <1>3, <2>3
<1> QED
  BY <1>1, <1>2, <1>3

\* The share of a job that reads shares is the one of its first entry, or could not be read.
LEMMA ShareSideIs ==
    ASSUME ReadInv, ReturnedInv, job = "shares", list.st # "Reading"
    PROVE  IsShare(ShareSide)
<1> DEFINE first == srv.entries[1]
           scans == {s \in list.list : s.id = first.id}
           scan  == IF scans = {} THEN [dacl |-> "ReadFailed", aces |-> <<>>, unsupported |-> 0] ELSE CHOOSE s \in scans : TRUE
           real  == CASE first.descriptor = "None" -> {<<>>, Everything}
                      [] first.descriptor = "Acl"  -> {srv.members[first.id]}
                      [] OTHER                     -> {Everything}
           status == CASE scan.dacl = "Acl" -> "Applied" [] scan.dacl = "NullDacl" -> "Unrestricted" [] OTHER -> "ReadFailed"
<1>1. PICK side : side = ShareSide
  OBVIOUS
<1>2. side.status = status /\ side.aces = scan.aces /\ side.unsupported = scan.unsupported /\ side.real = real
  BY <1>1 DEF ShareSide
<1>3. real # {}
  OBVIOUS
<1>4. CASE scans = {}
  <2>1. scan.dacl = "ReadFailed" /\ scan.unsupported = 0
    BY <1>4
  <2>2. status = "ReadFailed"
    BY <2>1
  <2> HIDE DEF real, status, scan
  <2> QED
    BY <1>1, <1>2, <1>3, <2>1, <2>2 DEF IsShare
<1>5. CASE scans # {}
  <2>1. PICK s : s \in scans /\ s = scan
    BY <1>5
  <2>2. s \in list.list /\ s.id = first.id
    BY <2>1
  <2>3. list.st = "Ok"
    BY <2>2 DEF ReturnedInv
  <2>4. PICK i \in DOMAIN srv.entries : s = ShareDaclScan(srv.entries[i]) \/ s = UnreadShare(srv.entries[i])
    BY <2>2, <2>3, SharesListed
  <2>5. s.dacl \in {"ReadFailed", "NoSecurityDescriptor", "NullDacl", "Acl"} /\ s.unsupported \in Nat
    BY <2>2, <2>3, SharesListed
  <2>6. PICK e : e = srv.entries[i]
    OBVIOUS
  <2>7. IsServer(job, srv) /\ IsList(srv.entries)
    BY ServerIs DEF ReadInv, IsServer
  <2>8. 1 \in DOMAIN srv.entries /\ DOMAIN srv.entries = 1 .. Len(srv.entries) /\ Len(srv.entries) \in Nat
    <3>1. DOMAIN srv.entries = 1 .. Len(srv.entries) /\ Len(srv.entries) \in Nat
      BY <2>7, ListIs
    <3> QED
      BY <3>1
  <2>9. e \in Range(srv.entries) /\ first \in Range(srv.entries)
    BY <2>6, <2>8 DEF Range
  <2>10. s = ShareDaclScan(e) \/ s = UnreadShare(e)
    BY <2>4, <2>6
  <2>11. IsList(srv.members[e.id])
    BY <2>7, <2>9 DEF IsServer
  <2>12. e.id = s.id
    BY <2>10, <2>11, ScanIs DEF UnreadShare
  <2>13. e = first /\ e.descriptor \in {"None", "Absent", "NullPointer", "Acl"}
    BY <2>2, <2>7, <2>9, <2>12 DEF IsServer
  <2>14. s.dacl = "ReadFailed" \/ (s = ShareDaclScan(e) /\ s.dacl # "ReadFailed")
    BY <2>10, <2>11, ScanIs DEF UnreadShare
  <2>15. CASE s.dacl \in {"ReadFailed", "NoSecurityDescriptor"}
    <3>1. status = "ReadFailed"
      BY <2>1, <2>15
    <3> HIDE DEF real, status, scan
    <3> QED
      BY <1>1, <1>2, <1>3, <2>1, <2>5, <3>1 DEF IsShare
  <2>16. CASE s.dacl = "NullDacl"
    <3>1. status = "Unrestricted"
      BY <2>1, <2>16
    <3>2. e.descriptor \in {"Absent", "NullPointer"}
      BY <2>13, <2>14, <2>16, ScanShows
    <3>3. real = {Everything}
      BY <2>13, <3>2
    <3> HIDE DEF real, status, scan
    <3> QED
      BY <1>1, <1>2, <1>3, <2>1, <2>5, <3>1, <3>3 DEF IsShare
  <2>17. CASE s.dacl = "Acl"
    <3>1. status = "Applied"
      BY <2>1, <2>17
    <3>2. e.descriptor = "Acl"
      BY <2>13, <2>14, <2>17, ScanShows
    <3>3. real = {srv.members[e.id]}
      BY <2>13, <3>2
    <3>4. s.unsupported = 0 => s.aces = srv.members[e.id]
      BY <2>11, <2>14, <2>17, <3>2, ScanIs
    <3> HIDE DEF real, status, scan
    <3> QED
      BY <1>1, <1>2, <1>3, <2>1, <2>5, <3>1, <3>3, <3>4 DEF IsShare
  <2> QED
    BY <2>5, <2>15, <2>16, <2>17
<1> QED
  BY <1>4, <1>5

LEMMA AnyShareIs ==
    ASSUME NEW share \in AnyShare
    PROVE  IsShare(share)
<1>1. share = NoShare \/ share = [NoShare EXCEPT !.status = "Applied", !.aces = ShareAces, !.overlay.aces = ShareAces,
                                                 !.real = {ShareAces}]
  BY DEF AnyShare
<1>2. CASE share = NoShare
  <2>1. share.status = "NotApplicable" /\ share.unsupported = 0 /\ share.real = {Everything}
    BY <1>2 DEF NoShare
  <2> QED
    BY <2>1 DEF IsShare
<1>3. CASE share = [NoShare EXCEPT !.status = "Applied", !.aces = ShareAces, !.overlay.aces = ShareAces, !.real = {ShareAces}]
  <2>1. share.status = "Applied" /\ share.unsupported = 0 /\ share.real = {ShareAces} /\ share.aces = ShareAces
    BY <1>3 DEF NoShare
  <2> QED
    BY <2>1 DEF IsShare
<1> QED
  BY <1>1, <1>2, <1>3

\* The account of the jobs that are not about accounts is an active one.
LEMMA SomebodyIsActive ==
    ASSUME NEW markers, NEW who, who.kind = "User", who.disabled = FALSE, who.account = "Active"
    PROVE  AccountStatus([kind |-> who.kind, disabled |-> who.disabled, diagnostics |-> markers]) \in {"Active", "Disabled"}
              => AccountStatus([kind |-> who.kind, disabled |-> who.disabled, diagnostics |-> markers]) = who.account
<1> DEFINE p == [kind |-> who.kind, disabled |-> who.disabled, diagnostics |-> markers]
<1>1. p.kind = "User" /\ p.disabled = FALSE
  OBVIOUS
<1> HIDE DEF p
<1>2. AccountStatus(p) = "Unknown" \/ AccountStatus(p) = "Active"
  BY <1>1 DEF AccountStatus
<1> QED
  BY <1>2 DEF p

\* What the reads returned is what the analysis starts from, or a marker says that it may lack something.
LEMMA BeginFacts ==
    ASSUME ReadInv, ListInv, ReturnedInv, Begin
    PROVE  FactsInv'
<1>1. PICK share : /\ IsShare(share)
                   /\ facts' = CASE job = "table" ->
                                      Facts(LocalGroups(list.list), LocalGroups(Truth), {},
                                            IF list.marked THEN "NotAvailable" ELSE "Applied", share, Somebody)
                                 [] job \in {"ranged", "account"} ->
                                      Facts(list.list, Ids(srv.entries), Incomplete, "NotQueried", share, Somebody)
                                 [] job = "sam" ->
                                      Facts(list.list, Ids(srv.entries \o srv.second) \cup srv.elsewhere,
                                            {Marker("DomainGroupRecursionIncomplete")}, "NotQueried", share, Somebody)
                                 [] job = "identity" ->
                                      Facts(srv.groups, srv.groups \cup srv.hidden, srv.markers, "NotQueried", share, srv.who)
                                 [] job = "dfs" ->
                                      Facts({}, {}, {}, "NotQueried", share,
                                            [Somebody EXCEPT !.dfs = DfsMarker, !.targets = srv.targets # list.list])
                                 [] OTHER -> Facts({}, {}, {}, "NotQueried", share, Somebody)
  <2>1. PICK share \in (IF job = "shares" THEN {ShareSide} ELSE AnyShare) :
                facts' = CASE job = "table" ->
                                      Facts(LocalGroups(list.list), LocalGroups(Truth), {},
                                            IF list.marked THEN "NotAvailable" ELSE "Applied", share, Somebody)
                                 [] job \in {"ranged", "account"} ->
                                      Facts(list.list, Ids(srv.entries), Incomplete, "NotQueried", share, Somebody)
                                 [] job = "sam" ->
                                      Facts(list.list, Ids(srv.entries \o srv.second) \cup srv.elsewhere,
                                            {Marker("DomainGroupRecursionIncomplete")}, "NotQueried", share, Somebody)
                                 [] job = "identity" ->
                                      Facts(srv.groups, srv.groups \cup srv.hidden, srv.markers, "NotQueried", share, srv.who)
                                 [] job = "dfs" ->
                                      Facts({}, {}, {}, "NotQueried", share,
                                            [Somebody EXCEPT !.dfs = DfsMarker, !.targets = srv.targets # list.list])
                                 [] OTHER -> Facts({}, {}, {}, "NotQueried", share, Somebody)
    BY Zenon DEF Begin
  <2>2. job = "shares" => list.st # "Reading"
    BY DEF Begin
  <2>3. IsShare(share)
    BY <2>1, <2>2, ShareSideIs, AnyShareIs
  <2> QED
    BY <2>1, <2>3, Zenon
<1>2. Somebody.kind = "User" /\ Somebody.disabled = FALSE /\ Somebody.account = "Active" /\ Somebody.dfs = {}
      /\ Somebody.targets = FALSE
  BY DEF Somebody
<1>3. list.st = "Ok" \/ (list.st = "Err" /\ list.marked) \/ job = "identity"
  BY DEF Begin, ReturnedInv
<1>4. list.st = "Ok" /\ ~ Undetectable /\ job \in Promised /\ ~ list.marked => list.list = Truth
  BY DEF ListInv, TellsTruth
<1>5. list.marked \in BOOLEAN
  BY DEF ReturnedInv
<1>6. \A v : Marker(v).v = v
  BY DEF Marker
<1>7. {"DomainGroupRecursionIncomplete", "GroupResolutionIncomplete"} \subseteq TokenMarkers
  BY DEF TokenMarkers
<1>8. ASSUME NEW groups, NEW true, NEW markers, NEW local, facts' = Facts(groups, true, markers, local, share, Somebody),
             ~ Undetectable => (local # "NotAvailable" /\ (\A m \in markers : m.v \notin TokenMarkers)
                                   => Known \cup groups = Known \cup true)
      PROVE  FactsInv'
  <2>1. PICK who : who = Somebody
    OBVIOUS
  <2> QED
    BY <1>1, <1>2, <1>8, <2>1, SomebodyIsActive, FactsFit
<1>9. CASE job = "table"
  <2>1. PICK local : local = IF list.marked THEN "NotAvailable" ELSE "Applied"
    OBVIOUS
  <2>2. facts' = Facts(LocalGroups(list.list), LocalGroups(Truth), {}, local, share, Somebody)
    BY <1>1, <1>9, <2>1, Zenon
  <2>3. ~ Undetectable /\ local # "NotAvailable" => list.list = Truth
    BY <1>3, <1>4, <1>9, <2>1 DEF Promised
  <2> QED
    BY <1>8, <2>2, <2>3
<1>10. CASE job \in {"ranged", "account"}
  <2>1. facts' = Facts(list.list, Ids(srv.entries), Incomplete, "NotQueried", share, Somebody)
    <3>1. job # "table"
      BY <1>10
    <3> QED
      BY <1>1, <1>10, <3>1, Zenon
  <2>2. Truth = Ids(srv.entries)
    BY <1>10 DEF Truth
  <2>3. list.marked => Marker("GroupResolutionIncomplete") \in Incomplete
    BY DEF Incomplete
  <2>4. ~ Undetectable /\ (\A m \in Incomplete : m.v \notin TokenMarkers) => list.list = Truth
    BY <1>3, <1>4, <1>5, <1>6, <1>7, <1>10, <2>3 DEF Promised
  <2> QED
    BY <1>8, <2>1, <2>2, <2>4
<1>11. CASE job = "sam"
  <2>1. PICK markers : markers = {Marker("DomainGroupRecursionIncomplete")}
    OBVIOUS
  <2>2. PICK true : true = Ids(srv.entries \o srv.second) \cup srv.elsewhere
    OBVIOUS
  <2>3. facts' = Facts(list.list, true, markers, "NotQueried", share, Somebody)
    <3>1. job # "table" /\ job \notin {"ranged", "account"}
      BY <1>11
    <3> QED
      BY <1>1, <1>11, <2>1, <2>2, <3>1, Zenon
  <2>4. ~ \A m \in markers : m.v \notin TokenMarkers
    BY <1>6, <1>7, <2>1
  <2> QED
    BY <1>8, <2>3, <2>4
<1>12. CASE job = "identity"
  <2>1. facts' = Facts(srv.groups, srv.groups \cup srv.hidden, srv.markers, "NotQueried", share, srv.who)
    <3>1. job # "table" /\ job \notin {"ranged", "account"} /\ job # "sam"
      BY <1>12
    <3> QED
      BY <1>1, <1>12, <3>1, Zenon
  <2>2. IsAnswer(srv)
    BY <1>12, AuditAssumption DEF ReadInv, JobInv
  <2>3. PICK groups, hidden, markers, who : groups = srv.groups /\ hidden = srv.hidden /\ markers = srv.markers /\ who = srv.who
    OBVIOUS
  <2>4. /\ hidden \subseteq Known \cup groups \/ \E m \in markers : m.v \in TokenMarkers
        /\ who.dfs = {} /\ ~ who.targets
    BY <2>2, <2>3 DEF IsAnswer
  <2>5. AccountStatus([kind |-> who.kind, disabled |-> who.disabled, diagnostics |-> markers]) \in {"Active", "Disabled"}
           => AccountStatus([kind |-> who.kind, disabled |-> who.disabled, diagnostics |-> markers]) = who.account
    BY <2>2, <2>3, Zenon DEF IsAnswer
  <2>6. facts' = Facts(groups, groups \cup hidden, markers, "NotQueried", share, who)
    BY <2>1, <2>3, Zenon
  <2>7. (\A m \in markers : m.v \notin TokenMarkers) => Known \cup groups = Known \cup (groups \cup hidden)
    BY <2>4
  <2> QED
    BY <1>1, <2>4, <2>5, <2>6, <2>7, FactsFit
<1>13. CASE job = "dfs"
  <2>1. PICK who : who = [Somebody EXCEPT !.dfs = DfsMarker, !.targets = srv.targets # list.list]
    OBVIOUS
  <2>2. facts' = Facts({}, {}, {}, "NotQueried", share, who)
    <3>1. job # "table" /\ job \notin {"ranged", "account"} /\ job # "sam" /\ job # "identity"
      BY <1>13
    <3> QED
      BY <1>1, <1>13, <2>1, <3>1, Zenon
  <2>3. /\ who.kind = "User" /\ who.disabled = FALSE /\ who.account = "Active" /\ who.dfs = DfsMarker
        /\ who.targets = (srv.targets # list.list)
    BY <2>1 DEF Somebody
  <2>4. ~ list.marked => list.st = "Ok"
    BY <1>3, <1>13
  <2>5. Truth = srv.targets
    BY <1>13 DEF Truth
  <2>6. ~ Undetectable /\ who.targets => list.marked
    BY <1>4, <1>5, <1>13, <2>3, <2>4, <2>5 DEF Promised
  <2>7. list.marked => \E d \in DfsMarker : d.v = "DfsTargetEvaluated" /\ d.open
    BY <1>5 DEF DfsMarker, OpenMarker
  <2> QED
    BY <1>1, <2>2, <2>3, <2>6, <2>7, SomebodyIsActive, FactsFit
<1>14. CASE job \notin {"table", "ranged", "account", "sam", "identity", "dfs"}
  <2>1. facts' = Facts({}, {}, {}, "NotQueried", share, Somebody)
    BY <1>1, <1>14, Zenon
  <2> QED
    BY <1>8, <2>1
<1> QED
  BY <1>9, <1>10, <1>11, <1>12, <1>13, <1>14

----------------------------------------------------------------------------
(* The results from object to object.                                      *)

\* The facts stay the same from the first object on, and so does what they make of an object.
LEMMA SameFacts ==
    ASSUME facts' = facts, NEW o, NEW fso, NEW n
    PROVE  evaluated(o, fso, n)' = evaluated(o, fso, n)
<1>1. ntfs_mask(fso)' = ntfs_mask(fso)
  BY DEF ntfs_mask
<1>2. logon_dependent(fso)' = logon_dependent(fso)
  BY <1>1 DEF logon_dependent
<1>3. effective_mask(fso)' = effective_mask(fso)
  BY <1>1 DEF effective_mask
<1>4. LogonMarkers' = LogonMarkers
  BY DEF LogonMarkers
<1> QED
  BY <1>1, <1>2, <1>3, <1>4 DEF evaluated

LEMMA SamePerms ==
    ASSUME PermsInv, UNCHANGED <<facts, objs, perms, acc>>
    PROVE  PermsInv'
<1>1. ASSUME NEW i \in DOMAIN perms PROVE perms[i] = evaluated(Objects[objs[i]], parse_security(Objects[objs[i]]), i)'
  <2>1. PICK o, fso : o = Objects[objs[i]] /\ fso = parse_security(Objects[objs[i]])
    OBVIOUS
  <2>2. perms[i] = evaluated(o, fso, i)
    BY <2>1 DEF PermsInv
  <2>3. perms[i] = evaluated(o, fso, i)'
    BY <2>2, SameFacts
  <2> QED
    BY <2>1, <2>3
<1> QED
  BY <1>1 DEF PermsInv

\* No result, no claim.
LEMMA NoPerms ==
    ASSUME PermsInv, perms = <<>>, UNCHANGED <<objs, perms, acc>>
    PROVE  PermsInv'
<1>1. DOMAIN perms = {}
  OBVIOUS
<1>2. PermsInv <=> /\ perms \in Seq(Range(perms)) /\ Len(perms) <= MaxObjects /\ objs \in Seq(DOMAIN Objects) /\ Len(objs) = Len(perms)
                   /\ acc = [r \in Rules |-> FlattenSeq([i \in DOMAIN perms |-> Evaluate(r, perms[i])])]
  BY <1>1 DEF PermsInv
<1> QED
  BY <1>1, <1>2 DEF PermsInv

LEMMA SameCache ==
    ASSUME CacheInv, cache' = cache
    PROVE  CacheInv'
  BY DEF CacheInv

LEMMA BeginAudits ==
    ASSUME ReadInv, ListInv, AuditInv, Begin
    PROVE  AuditInv'
<1>1. /\ stage = "read" /\ stage' = "evaluate" /\ list' = Reading
      /\ UNCHANGED <<cache, objs, perms, acc, disk, loaded>>
  BY DEF Begin
<1>2. perms = <<>> /\ loaded = NoRun /\ ReturnedInv /\ CacheInv /\ PermsInv /\ StoreInv
  BY <1>1 DEF AuditInv
<1>3. ReturnedInv'
  BY <1>1, OpenReturned
<1>4. CacheInv'
  BY <1>1, <1>2, SameCache
<1>5. PermsInv'
  BY <1>1, <1>2, NoPerms
<1>6. StoreInv'
  BY <1>1, <1>2 DEF StoreInv
<1>7. FactsInv'
  BY <1>2, BeginFacts
<1> QED
  BY <1>1, <1>2, <1>3, <1>4, <1>5, <1>6, <1>7 DEF AuditInv

\* A read changes nothing of the analysis.
LEMMA ReadAudits ==
    ASSUME AuditInv, ReturnedInv', UNCHANGED auditVars
    PROVE  AuditInv'
<1>1. UNCHANGED <<stage, facts, cache, objs, perms, acc, disk, loaded>>
  BY DEF auditVars
<1>2. ReturnedInv /\ CacheInv /\ PermsInv /\ StoreInv
  BY DEF AuditInv
<1>3. CacheInv' /\ PermsInv'
  BY <1>1, <1>2, SameCache, SamePerms
<1>4. StoreInv'
  BY <1>1, <1>2 DEF StoreInv
<1>5. stage # "read" => FactsInv'
  BY <1>1 DEF AuditInv, FactsInv, TokenKnown
<1> QED
  BY <1>1, <1>3, <1>4, <1>5 DEF AuditInv

LEMMA SameReturned ==
    ASSUME ReturnedInv, UNCHANGED readVars
    PROVE  ReturnedInv'
  BY DEF ReturnedInv, readVars

LEMMA FinishAudits ==
    ASSUME AuditInv, Finish
    PROVE  AuditInv'
<1>1. /\ stage = "evaluate" /\ stage' = "report" /\ UNCHANGED readVars
      /\ UNCHANGED <<facts, cache, objs, perms, acc, disk, loaded>>
  BY DEF Finish
<1>2. ReturnedInv /\ CacheInv /\ PermsInv /\ StoreInv /\ FactsInv /\ loaded = NoRun
  BY <1>1 DEF AuditInv
<1>3. CacheInv' /\ PermsInv' /\ ReturnedInv'
  BY <1>1, <1>2, SameCache, SamePerms, SameReturned
<1>4. StoreInv'
  BY <1>1, <1>2 DEF StoreInv
<1>5. FactsInv'
  BY <1>1, <1>2 DEF FactsInv, TokenKnown
<1> QED
  BY <1>1, <1>2, <1>3, <1>4, <1>5 DEF AuditInv

\* The stored rows are the results,
LEMMA StoreAudits ==
    ASSUME AuditInv, Store
    PROVE  AuditInv'
<1>1. /\ stage = "report" /\ stage' = "stored" /\ UNCHANGED readVars
      /\ disk' = [i \in DOMAIN perms |-> insert_permission(perms[i])]
      /\ UNCHANGED <<facts, cache, objs, perms, acc, loaded>>
  BY DEF Store
<1>2. ReturnedInv /\ CacheInv /\ PermsInv /\ FactsInv /\ loaded = NoRun
  BY <1>1 DEF AuditInv
<1>3. CacheInv' /\ PermsInv' /\ ReturnedInv'
  BY <1>1, <1>2, SameCache, SamePerms, SameReturned
<1>4. StoreInv'
  <2>1. DOMAIN disk' = DOMAIN perms
    BY <1>1
  <2>2. \A i \in DOMAIN perms : disk'[i] = [p |-> perms[i], damaged |-> {}]
    BY <1>1 DEF insert_permission
  <2>3. \A i \in DOMAIN disk' : \E bad \in SUBSET Columns : disk'[i] = [p |-> perms'[i], damaged |-> bad]
    BY <1>1, <2>1, <2>2
  <2>4. DOMAIN loaded'.perms = {}
    BY <1>1, <1>2 DEF NoRun
  <2> QED
    BY <1>1, <2>1, <2>3, <2>4 DEF StoreInv
<1>5. FactsInv'
  BY <1>1, <1>2 DEF FactsInv, TokenKnown
<1> QED
  BY <1>1, <1>2, <1>3, <1>4, <1>5 DEF AuditInv

\* damage takes columns from a row,
LEMMA DamageAudits ==
    ASSUME AuditInv, Damage
    PROVE  AuditInv'
<1>1. /\ stage = "stored" /\ UNCHANGED readVars /\ UNCHANGED <<stage, facts, cache, objs, perms, acc, loaded>>
  BY DEF Damage
<1>2. ReturnedInv /\ CacheInv /\ PermsInv /\ FactsInv /\ loaded = NoRun /\ StoreInv
  BY <1>1 DEF AuditInv
<1>3. CacheInv' /\ PermsInv' /\ ReturnedInv'
  BY <1>1, <1>2, SameCache, SamePerms, SameReturned
<1>4. StoreInv'
  <2>1. PICK n \in DOMAIN disk, c \in Columns : disk' = [disk EXCEPT ![n].damaged = @ \cup {c}]
    BY DEF Damage
  <2>2. DOMAIN disk = DOMAIN perms /\ DOMAIN disk' = DOMAIN disk
    BY <1>1, <1>2, <2>1 DEF StoreInv
  <2>3. ASSUME NEW i \in DOMAIN disk PROVE \E bad \in SUBSET Columns : disk'[i] = [p |-> perms[i], damaged |-> bad]
    <3>1. PICK bad \in SUBSET Columns : disk[i] = [p |-> perms[i], damaged |-> bad]
      BY <1>1, <1>2, <2>3 DEF StoreInv
    <3>2. CASE i = n
      <4>1. disk'[i] = [disk[i] EXCEPT !.damaged = @ \cup {c}]
        BY <2>1, <2>3, <3>2
      <4>2. disk'[i] = [p |-> perms[i], damaged |-> bad \cup {c}]
        BY <3>1, <4>1
      <4>3. bad \cup {c} \in SUBSET Columns
        OBVIOUS
      <4> QED
        BY <4>2, <4>3
    <3>3. CASE i # n
      <4>1. disk'[i] = disk[i]
        BY <2>1, <2>3, <3>3
      <4> QED
        BY <3>1, <4>1
    <3> QED
      BY <3>2, <3>3
  <2>4. DOMAIN loaded'.perms = {}
    BY <1>1, <1>2 DEF NoRun
  <2> QED
    BY <1>1, <2>2, <2>3, <2>4 DEF StoreInv
<1>5. FactsInv'
  BY <1>1, <1>2 DEF FactsInv, TokenKnown
<1> QED
  BY <1>1, <1>2, <1>3, <1>4, <1>5 DEF AuditInv

\* and what is loaded is what is left of each.
LEMMA LoadAudits ==
    ASSUME AuditInv, Load
    PROVE  AuditInv'
<1>1. /\ stage = "stored" /\ stage' = "loaded" /\ UNCHANGED readVars /\ loaded' = get_permissions(disk)
      /\ UNCHANGED <<facts, cache, objs, perms, acc, disk>>
  BY DEF Load
<1>2. ReturnedInv /\ CacheInv /\ PermsInv /\ FactsInv /\ StoreInv
  BY <1>1 DEF AuditInv
<1>3. CacheInv' /\ PermsInv' /\ ReturnedInv'
  BY <1>1, <1>2, SameCache, SamePerms, SameReturned
<1>4. /\ DOMAIN disk = DOMAIN perms
      /\ \A i \in DOMAIN disk : \E bad \in SUBSET Columns : disk[i] = [p |-> perms[i], damaged |-> bad]
  BY <1>1, <1>2 DEF StoreInv
<1>5. \A i \in DOMAIN loaded'.perms : i \in DOMAIN perms /\ \E bad \in SUBSET Columns :
           <<loaded'.perms[i]>> = into_permission([p |-> perms[i], damaged |-> bad])
  <2> DEFINE all == [i \in DOMAIN disk |-> into_permission(disk[i])]
  <2>1. loaded' = IF \E i \in DOMAIN all : all[i] = <<>> THEN [ok |-> FALSE, perms |-> <<>>]
                  ELSE [ok |-> TRUE, perms |-> [i \in DOMAIN all |-> all[i][1]]]
    BY <1>1 DEF get_permissions
  <2>2. DOMAIN all = DOMAIN disk /\ \A i \in DOMAIN disk : all[i] = into_permission(disk[i])
    OBVIOUS
  <2>3. \A r : into_permission(r) = <<>> \/ \E q : into_permission(r) = <<q>>
    BY Zenon DEF into_permission
  <2> HIDE DEF all
  <2>4. CASE \E i \in DOMAIN all : all[i] = <<>>
    <3>1. loaded'.perms = <<>>
      BY <2>1, <2>4
    <3>2. DOMAIN loaded'.perms = {}
      BY <3>1
    <3> QED
      BY <3>2
  <2>5. CASE ~ \E i \in DOMAIN all : all[i] = <<>>
    <3>1. loaded'.perms = [i \in DOMAIN all |-> all[i][1]]
      BY <2>1, <2>5
    <3>2. DOMAIN loaded'.perms = DOMAIN perms /\ \A i \in DOMAIN perms : loaded'.perms[i] = all[i][1]
      BY <1>4, <2>2, <3>1
    <3>3. ASSUME NEW i \in DOMAIN perms
          PROVE  \E bad \in SUBSET Columns : <<loaded'.perms[i]>> = into_permission([p |-> perms[i], damaged |-> bad])
      <4>1. PICK bad \in SUBSET Columns : disk[i] = [p |-> perms[i], damaged |-> bad]
        BY <1>4, <3>3
      <4>2. PICK a : a = all[i]
        OBVIOUS
      <4>3. a = into_permission([p |-> perms[i], damaged |-> bad]) /\ a # <<>>
        BY <1>4, <2>2, <2>5, <3>3, <4>1, <4>2, Zenon
      <4>4. PICK q : a = <<q>>
        BY <2>3, <4>3, Zenon
      <4>5. a[1] = q
        BY <4>4
      <4>6. loaded'.perms[i] = q
        BY <3>2, <3>3, <4>2, <4>5, Zenon
      <4> QED
        BY <4>3, <4>4, <4>6, Zenon
    <3> QED
      BY <3>2, <3>3
  <2> QED
    BY <2>4, <2>5
<1>6. StoreInv'
  BY <1>1, <1>4, <1>5 DEF StoreInv
<1>7. FactsInv'
  BY <1>1, <1>2 DEF FactsInv, TokenKnown
<1> QED
  BY <1>1, <1>2, <1>3, <1>6, <1>7 DEF AuditInv

\* One more object: its own descriptor, evaluated with the same facts, its findings behind the others.
LEMMA EvaluateAudits ==
    ASSUME AuditInv, EvaluateObject
    PROVE  AuditInv'
<1>1. /\ stage = "evaluate" /\ Len(perms) < MaxObjects /\ UNCHANGED readVars /\ UNCHANGED <<stage, facts, disk, loaded>>
  BY DEF EvaluateObject
<1>2. ReturnedInv /\ CacheInv /\ PermsInv /\ FactsInv /\ loaded = NoRun
  BY <1>1 DEF AuditInv
<1>3. PICK k \in DOMAIN Objects : LET p == result(k, Len(perms) + 1) IN
          /\ perms' = Append(perms, p) /\ objs' = Append(objs, k) /\ acc' = add(acc, p)
          /\ cache' = [cache EXCEPT ![Objects[k].hash] = CacheEntry(Objects[k])]
  BY Zenon DEF EvaluateObject
<1>4. PICK n : n = Len(perms)
  OBVIOUS
<1>5. PICK o : o = Objects[k]
  OBVIOUS
<1>6. PICK fso : fso = parse_security(o)
  OBVIOUS
<1>7. PICK p : p = evaluated(o, fso, n + 1)
  OBVIOUS
<1>8. result(k, n + 1) = p
  <2>1. read_file_system_object(Objects[k]) = fso
    BY <1>2, <1>5, <1>6, CachedIs
  <2> QED
    BY <1>5, <1>7, <2>1, Zenon DEF result
<1>9. perms' = Append(perms, p) /\ objs' = Append(objs, k) /\ acc' = add(acc, p)
  BY <1>3, <1>4, <1>8, Zenon
<1>10. /\ n \in Nat /\ DOMAIN perms = 1 .. n /\ perms \in Seq(Range(perms)) /\ objs \in Seq(DOMAIN Objects) /\ Len(objs) = n
       /\ n + 1 <= MaxObjects
  <2>1. n \in Nat /\ DOMAIN perms = 1 .. n /\ perms \in Seq(Range(perms))
    BY <1>2, <1>4 DEF PermsInv
  <2>2. MaxObjects \in Nat
    BY AuditAssumption
  <2> QED
    BY <1>1, <1>2, <1>4, <2>1, <2>2 DEF PermsInv
<1>11. /\ DOMAIN perms' = 1 .. n + 1 /\ Len(perms') = n + 1 /\ perms'[n + 1] = p /\ perms' \in Seq(Range(perms) \cup {p})
       /\ \A i \in 1 .. n : perms'[i] = perms[i]
  BY <1>4, <1>9, <1>10
<1>12. /\ objs' \in Seq(DOMAIN Objects) /\ Len(objs') = n + 1 /\ objs'[n + 1] = k
       /\ \A i \in 1 .. n : objs'[i] = objs[i]
  BY <1>9, <1>10
<1>13. perms' \in Seq(Range(perms'))
  <2>1. PICK s : s = perms'
    OBVIOUS
  <2>2. s \in Seq(Range(perms) \cup {p}) /\ DOMAIN s = 1 .. n + 1 /\ Len(s) = n + 1
    BY <1>11, <2>1
  <2>3. \A i \in 1 .. n + 1 : s[i] \in Range(s)
    BY <2>2 DEF Range
  <2>4. s \in Seq(Range(s))
    BY <1>10, <2>2, <2>3
  <2> QED
    BY <2>1, <2>4
<1>14. ASSUME NEW i \in DOMAIN perms'
       PROVE  /\ objs'[i] \in DOMAIN Objects
              /\ perms'[i] = evaluated(Objects[objs[i]], parse_security(Objects[objs[i]]), i)'
  <2>1. i \in 1 .. n \/ i = n + 1
    BY <1>10, <1>11
  <2>2. CASE i \in 1 .. n
    <3>1. PICK a, b : a = Objects[objs[i]] /\ b = parse_security(a)
      OBVIOUS
    <3>2. objs[i] \in DOMAIN Objects /\ perms[i] = evaluated(a, b, i)
      BY <1>2, <1>10, <2>2, <3>1 DEF PermsInv
    <3>3. perms[i] = evaluated(a, b, i)'
      BY <1>1, <3>2, SameFacts
    <3>4. perms'[i] = perms[i] /\ objs'[i] = objs[i]
      BY <1>11, <1>12, <2>2
    <3> QED
      BY <3>1, <3>2, <3>3, <3>4
  <2>3. CASE i = n + 1
    <3>1. p = evaluated(o, fso, i)'
      BY <1>1, <1>7, <2>3, SameFacts
    <3>2. perms'[i] = p /\ objs'[i] = k
      BY <1>11, <1>12, <2>3
    <3> QED
      BY <1>5, <1>6, <3>1, <3>2
  <2> QED
    BY <2>1, <2>2, <2>3
<1>15. acc' = [r \in Rules |-> FlattenSeq([i \in DOMAIN perms' |-> Evaluate(r, perms'[i])])]
  <2>1. ASSUME NEW r \in Rules
        PROVE  FlattenSeq([i \in DOMAIN perms' |-> Evaluate(r, perms'[i])])
                  = FlattenSeq([i \in DOMAIN perms |-> Evaluate(r, perms[i])]) \o Evaluate(r, p)
    <3> DEFINE parts == [i \in DOMAIN perms |-> Evaluate(r, perms[i])]
               more  == [i \in DOMAIN perms' |-> Evaluate(r, perms'[i])]
    <3>1. p.at \in Nat /\ \A i \in 1 .. n : perms[i].at \in Nat
      <4>1. p.at = n + 1
        <5>1. PICK ds : p = ResultOf(o, fso, n + 1, ds)
          BY <1>7, ResultIs
        <5> QED
          BY <5>1, FieldsAre
      <4> QED
        BY <1>2, <1>4, <1>10, <4>1, PermsAre
    <3>2. PICK x : x = Evaluate(r, p)
      OBVIOUS
    <3>3. x \in Seq(Findings) /\ \A i \in 1 .. n : Evaluate(r, perms[i]) \in Seq(Findings)
      BY <3>1, <3>2, EvaluateIs DEF Reports
    <3>4. parts = [i \in 1 .. n |-> Evaluate(r, perms[i])]
      BY <1>10
    <3>5. more = [i \in 1 .. n + 1 |-> Evaluate(r, perms'[i])]
      BY <1>11
    <3>6. /\ DOMAIN more = 1 .. n + 1 /\ more[n + 1] = x /\ \A i \in 1 .. n : more[i] = Evaluate(r, perms[i])
      BY <1>10, <1>11, <3>2, <3>5
    <3> HIDE DEF more
    <3>7. parts \in Seq(Seq(Findings)) /\ Len(parts) = n /\ \A i \in 1 .. n : parts[i] = Evaluate(r, perms[i])
      <4>1. ASSUME NEW q, q = [i \in 1 .. n |-> Evaluate(r, perms[i])]
            PROVE  q \in Seq(Seq(Findings)) /\ Len(q) = n /\ \A i \in 1 .. n : q[i] = Evaluate(r, perms[i])
        <5>1. q \in [1 .. n -> Seq(Findings)]
          BY <3>3, <4>1
        <5> QED
          BY <1>10, <4>1, <5>1
      <4> HIDE DEF parts
      <4> QED
        BY <3>4, <4>1
    <3> HIDE DEF parts
    <3>8. more = Append(parts, x)
      <4>1. PICK t : t = Append(parts, x)
        OBVIOUS
      <4>2. DOMAIN t = 1 .. n + 1 /\ t[n + 1] = x /\ \A i \in 1 .. n : t[i] = parts[i]
        BY <1>10, <3>3, <3>7, <4>1
      <4>3. more = [i \in 1 .. n + 1 |-> more[i]]
        BY <3>5, <3>6
      <4>4. t = [i \in 1 .. n + 1 |-> t[i]]
        <5>1. PICK S : S = Seq(Findings)
          OBVIOUS
        <5>2. t \in Seq(S) /\ Len(t) = n + 1
          BY <1>10, <3>3, <3>7, <4>1, <5>1
        <5> QED
          BY <5>2
      <4>5. \A i \in 1 .. n + 1 : i \in 1 .. n \/ i = n + 1
        BY <1>10
      <4>6. \A i \in 1 .. n + 1 : t[i] = more[i]
        BY <3>6, <3>7, <4>2, <4>5
      <4> QED
        BY <4>1, <4>3, <4>4, <4>6
    <3>9. FlattenSeq(Append(parts, x)) = FlattenSeq(parts) \o x
      BY <3>3, <3>7, FlatAppend
    <3> QED
      BY <3>2, <3>8, <3>9, Zenon DEF parts, more
  <2>2. ASSUME NEW r \in Rules PROVE acc[r] = FlattenSeq([i \in DOMAIN perms |-> Evaluate(r, perms[i])])
    BY <1>2 DEF PermsInv
  <2>3. acc' = [r \in Rules |-> acc[r] \o Evaluate(r, p)]
    BY <1>9, Zenon DEF add
  <2>4. \A r \in Rules : acc[r] \o Evaluate(r, p) = FlattenSeq([i \in DOMAIN perms' |-> Evaluate(r, perms'[i])])
    BY <2>1, <2>2, Zenon
  <2> QED
    BY <2>3, <2>4, Zenon
<1>16. PermsInv'
  <2>1. objs' \in Seq(DOMAIN Objects) /\ Len(objs') = Len(perms') /\ Len(perms') <= MaxObjects
    BY <1>10, <1>11, <1>12
  <2> QED
    BY <1>13, <1>14, <1>15, <2>1 DEF PermsInv
<1>17. CacheInv'
  <2>1. cache' = [cache EXCEPT ![o.hash] = CacheEntry(o)] /\ o.hash \in DOMAIN cache
    BY <1>2, <1>3, <1>5 DEF CacheInv
  <2>2. PICK entry : entry = CacheEntry(o)
    OBVIOUS
  <2>3. /\ DOMAIN cache' = DOMAIN cache /\ cache'[o.hash] = entry
        /\ \A h \in DOMAIN cache : h # o.hash => cache'[h] = cache[h]
    BY <2>1, <2>2
  <2>4. \/ entry = <<[sd |-> Bytes(Objects[k]), fields |-> parse_security(Objects[k])]>>
        \/ entry = cache[o.hash] /\ cache[o.hash] # <<>>
    BY <1>5, <2>2, Zenon DEF CacheEntry
  <2>5. ASSUME NEW h \in DOMAIN cache'
        PROVE  cache'[h] = <<>> \/ \E j \in DOMAIN Objects :
                  cache'[h] = <<[sd |-> Bytes(Objects[j]), fields |-> parse_security(Objects[j])]>>
    <3>1. CASE h = o.hash
      <4>1. cache'[h] = entry
        BY <2>3, <3>1, Zenon
      <4>2. CASE entry = <<[sd |-> Bytes(Objects[k]), fields |-> parse_security(Objects[k])]>>
        BY <4>1, <4>2, Zenon
      <4>3. CASE entry = cache[o.hash] /\ cache[o.hash] # <<>>
        <5>1. cache'[h] = cache[h] /\ h \in DOMAIN cache
          BY <2>1, <3>1, <4>1, <4>3, Zenon
        <5> QED
          BY <1>2, <5>1, Zenon DEF CacheInv
      <4> QED
        BY <2>4, <4>2, <4>3, Zenon
    <3>2. CASE h # o.hash
      BY <1>2, <2>3, <2>5, <3>2, Zenon DEF CacheInv
    <3> QED
      BY <3>1, <3>2
  <2> QED
    BY <1>2, <2>3, <2>5 DEF CacheInv
<1>18. ReturnedInv'
  BY <1>1, <1>2, SameReturned
<1>19. StoreInv'
  BY <1>1, <1>2 DEF StoreInv, NoRun
<1>20. FactsInv'
  BY <1>1, <1>2 DEF FactsInv, TokenKnown
<1> QED
  BY <1>1, <1>2, <1>16, <1>17, <1>18, <1>19, <1>20 DEF AuditInv

LEMMA AuditStepKeeps ==
    ASSUME ReadInv, ListInv, AuditInv, [Next]_vars
    PROVE  AuditInv'
<1>0. ReturnedInv
  BY DEF AuditInv
<1>1. CASE /\ PagedSearch \/ RangeRetrieval \/ LocalGroupNames \/ EnumeratePage \/ SingleCall \/ ConstructedSidList
           /\ UNCHANGED auditVars
  <2>1. list' = Reading
    BY <1>1 DEF PagedSearch, RangeRetrieval, LocalGroupNames, EnumeratePage, SingleCall, ConstructedSidList, Calling,
                Returns, GoesOn, paged_end
  <2> QED
    BY <1>1, <2>1, OpenReturned, ReadAudits
<1>2. CASE TimesOut /\ UNCHANGED auditVars
  <2>1. list' = Failed
    BY <1>2 DEF TimesOut
  <2>2. list'.st = "Err" /\ list'.list = {} /\ list'.marked = TRUE
    BY <2>1 DEF Failed
  <2>3. ReturnedInv'
    BY <2>2 DEF ReturnedInv
  <2> QED
    BY <1>2, <2>3, ReadAudits
<1>3. CASE (ReadGroup \/ ReadChain \/ ReadShare \/ QueryPolicy) /\ UNCHANGED auditVars
  <2>1. list' = Reading
    BY <1>3 DEF ReadGroup, ReadChain, ReadShare, QueryPolicy, Done
  <2> QED
    BY <1>3, <2>1, OpenReturned, ReadAudits
<1>4. CASE /\ TableRead \/ MembersRead \/ ListRead \/ ForestRead \/ AccountsRead \/ SamRead \/ AccountRead \/ SharesRead
              \/ PolicyRead \/ DfsRead
           /\ UNCHANGED auditVars
  BY <1>4, ReadsReturn, ReadAudits
<1>5. CASE UNCHANGED vars
  <2>1. UNCHANGED readVars /\ UNCHANGED auditVars
    BY <1>5 DEF vars
  <2> QED
    BY <1>0, <2>1, SameReturned, ReadAudits
<1> QED
  BY <1>1, <1>2, <1>3, <1>4, <1>5, BeginAudits, EvaluateAudits, FinishAudits, StoreAudits, DamageAudits, LoadAudits
     DEF Next, Reads

LEMMA AuditInvariantHolds ==
    Spec => [](ReadInv /\ ListInv /\ AuditInv)
<1>1. Init => ReadInv /\ ListInv /\ AuditInv
  BY InitIs, AuditInitIs
<1>2. ReadInv /\ ListInv /\ AuditInv /\ [Next]_vars => (ReadInv /\ ListInv /\ AuditInv)'
  BY StepKeeps, AuditStepKeeps
<1> QED
  BY <1>1, <1>2, PTL DEF Spec

\* Whatever was read and however many objects were evaluated: every result is the one of its own
\* object within the file rights, no scan keeps more than its limit, and every list of the
\* accumulator holds findings of its own rule (RiskAccumulator, scan_runner.rs).
THEOREM AuditTypeCorrect ==
    Spec => []TypeOK
<1>1. AuditInv => TypeOK
  BY TypesFollow
<1> QED
  BY <1>1, AuditInvariantHolds, PTL

\* For lists, tokens, DACLs and objects of every kind and number: no page, list or report states as
\* a fact what the known data does not settle - not after a read that failed or was cut short, not
\* from the descriptor cache, and not for results loaded from a damaged store (engine.rs,
\* output.rs, csv.rs, json.rs, html.rs, worker.rs, acl.rs, scan_store.rs).
THEOREM NeverOverclaimsAlways ==
    Spec => []NeverOverclaims
<1>1. ReadInv /\ ListInv /\ AuditInv => NeverOverclaims
  BY ClaimsFollow
<1> QED
  BY <1>1, AuditInvariantHolds, PTL

\* For every number of results: the findings collected result by result are those of evaluate_all
\* in its order, a finding worded as a fact holds in every outcome the gaps leave open, and with a
\* known token, DACL and target every right that some outcome holds is reported (engine.rs of
\* risk_engine, AuditedRight, RiskAccumulator).
THEOREM FindingsAreSoundAlways ==
    Spec => []FindingsAreSound
<1>1. AuditInv => FindingsAreSound
  BY FindingsFollow
<1> QED
  BY <1>1, AuditInvariantHolds, PTL
============================================================================
