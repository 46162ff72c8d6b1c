---------------------------- MODULE TreeWalkProofs ----------------------------
(***************************************************************************)
(* What holds of the directory walker for every disk, every depth limit    *)
(* and every moment of a cancellation.                                     *)
(***************************************************************************)
EXTENDS TreeWalk, FiniteSetTheorems, TLAPS

\* The Leaves of a stack from a position on.
Leaves(s, i) == {j \in DOMAIN s : j >= i /\ s[j].op = "Leave"}

\* They can be counted.
LEMMA LeavesFinite ==
    ASSUME NEW S, NEW s \in Seq(S), NEW i \in Nat
    PROVE  IsFiniteSet(Leaves(s, i)) /\ Level(s, i) = Cardinality(Leaves(s, i)) /\ Level(s, i) \in Nat
<1>1. DOMAIN s = 1 .. Len(s) /\ Len(s) \in Int
  OBVIOUS
<1>2. IsFiniteSet(1 .. Len(s))
  BY <1>1, FS_Interval
<1>3. Leaves(s, i) \in SUBSET (1 .. Len(s))
  BY <1>1 DEF Leaves
<1>4. IsFiniteSet(Leaves(s, i))
  BY <1>2, <1>3, FS_Subset
<1>5. Cardinality(Leaves(s, i)) \in Nat
  BY <1>4, FS_CardinalityType
<1> QED
  BY <1>4, <1>5 DEF Leaves, Level

\* The work at a position adds one level if it is a Leave.
LEMMA LevelStep ==
    ASSUME NEW S, NEW s \in Seq(S), NEW i \in DOMAIN s
    PROVE  Level(s, i) = IF s[i].op = "Leave" THEN Level(s, i + 1) + 1 ELSE Level(s, i + 1)
<1>1. i \in Nat /\ i + 1 \in Nat /\ DOMAIN s \subseteq Nat
  OBVIOUS
<1>2. i \notin Leaves(s, i + 1)
  BY <1>1 DEF Leaves
<1>3. CASE s[i].op = "Leave"
  <2>1. Leaves(s, i) = Leaves(s, i + 1) \cup {i}
    BY <1>1, <1>3 DEF Leaves
  <2>2. Cardinality(Leaves(s, i + 1) \cup {i}) = Cardinality(Leaves(s, i + 1)) + 1
    BY <1>1, <1>2, LeavesFinite, FS_AddElement
  <2> QED
    BY <1>1, <1>3, <2>1, <2>2, LeavesFinite
<1>4. CASE s[i].op # "Leave"
  <2>1. Leaves(s, i) = Leaves(s, i + 1)
    BY <1>1, <1>4 DEF Leaves
  <2> QED
    BY <1>1, <1>4, <2>1, LeavesFinite
<1> QED
  BY <1>3, <1>4

\* Deeper in the stack there are fewer levels.
LEMMA LevelDecreases ==
    ASSUME NEW S, NEW s \in Seq(S), NEW i \in Nat, NEW k \in Nat, i <= k
    PROVE  Level(s, k) <= Level(s, i)
<1>1. DOMAIN s \subseteq Nat
  OBVIOUS
<1>2. Leaves(s, k) \in SUBSET Leaves(s, i)
  BY <1>1 DEF Leaves
<1> QED
  BY <1>2, LeavesFinite, FS_Subset

\* Nothing but a Leave adds a level.
LEMMA LevelAcross ==
    ASSUME NEW S, NEW s \in Seq(S), NEW i \in Nat, NEW k \in Nat, i <= k,
           \A j \in DOMAIN s : i <= j /\ j < k => s[j].op # "Leave"
    PROVE  Level(s, i) = Level(s, k)
<1>1. DOMAIN s \subseteq Nat
  OBVIOUS
<1>2. Leaves(s, k) = Leaves(s, i)
  BY <1>1 DEF Leaves
<1> QED
  BY <1>2, LeavesFinite

\* The levels of work that others are pushed on, or popped from, stay the same.
LEMMA LevelShift ==
    ASSUME NEW S, NEW s \in Seq(S), NEW t \in Seq(S), NEW k \in Nat, Len(s) = Len(t) + k,
           \A j \in DOMAIN t : t[j] = s[j + k], NEW i \in Nat \ {0}
    PROVE  Level(t, i) = Level(s, i + k)
<1> DEFINE A == Leaves(t, i)
           B == Leaves(s, i + k)
           f == [j \in A |-> j + k]
<1>1. DOMAIN s = 1 .. Len(s) /\ DOMAIN t = 1 .. Len(t) /\ Len(t) \in Nat /\ Len(s) \in Nat
  OBVIOUS
<1>2. A \subseteq Nat /\ B \subseteq Nat
  BY <1>1 DEF Leaves
<1>3. \A j \in A : j + k \in B
  BY <1>1 DEF Leaves
<1>4. \A j \in B : j - k \in A
  <2> SUFFICES ASSUME NEW j \in B PROVE j - k \in A
    OBVIOUS
  <2>1. j \in 1 .. Len(s) /\ j >= i + k /\ s[j].op = "Leave"
    BY <1>1 DEF Leaves
  <2>2. j - k \in 1 .. Len(t) /\ j - k >= i /\ (j - k) + k = j
    BY <1>1, <2>1
  <2> QED
    BY <1>1, <2>1, <2>2 DEF Leaves
<1> HIDE DEF A, B
<1>5. f \in Bijection(A, B)
  <2>1. f \in [A -> B]
    BY <1>3
  <2>2. \A a, b \in A : f[a] = f[b] => a = b
    BY <1>2
  <2>3. \A b \in B : \E a \in A : f[a] = b
    <3> SUFFICES ASSUME NEW b \in B PROVE \E a \in A : f[a] = b
      OBVIOUS
    <3>1. b - k \in A /\ f[b - k] = b
      BY <1>2, <1>4
    <3> QED
      BY <3>1
  <2> HIDE DEF f
  <2> QED
    BY <2>1, <2>2, <2>3 DEF Bijection, Injection, Surjection, IsInjective
<1>6. ExistsBijection(A, B)
  BY <1>5 DEF ExistsBijection
<1>7. i + k \in Nat /\ i \in Nat
  OBVIOUS
<1> QED
  BY <1>6, <1>7, LeavesFinite, FS_Bijection DEF A, B

----------------------------------------------------------------------------
\* A set of numbers has a smallest one.
LEMMA SmallestOf ==
    ASSUME NEW T, T \subseteq Nat, T # {}
    PROVE  \E x \in T : \A y \in T : x <= y
<1> DEFINE R == OpToRel(<, Nat)
<1>1. IsWellFoundedOn(R, Nat)
  BY NatLessThanWellFounded
<1>2. \A x, y \in Nat : y < x => <<y, x>> \in R
  BY DEF OpToRel
<1> HIDE DEF R
<1>3. PICK x \in T : \A y \in T : ~ (<<y, x>> \in R)
  BY <1>1, WFMin
<1>4. \A y \in T : ~ (y < x)
  BY <1>2, <1>3
<1>5. \A y \in T : x <= y
  BY <1>4
<1> QED
  BY <1>5

\* The ancestor a cycle is blamed on is on the active path and has the key.
LEMMA AncestorFound ==
    ASSUME TypeOK, NEW key, IsCycle(key)
    PROVE  \E i \in DOMAIN chain : chain[i].key = key /\ ancestor_path(key) = chain[i].path
<1> DEFINE T == {i \in DOMAIN chain : chain[i].key = key}
<1>1. DOMAIN chain = 1 .. Len(chain) /\ Len(chain) \in Nat
  BY DEF TypeOK
<1>2. T \subseteq Nat /\ T # {}
  BY <1>1 DEF IsCycle
<1>3. PICK x \in T : \A y \in T : x <= y
  BY <1>2, SmallestOf
<1>4. x \in DOMAIN chain /\ chain[x].key = key /\ \A j \in 1 .. x - 1 : chain[j].key # key
  BY <1>1, <1>3
<1> QED
  BY <1>4 DEF ancestor_path

\* The first path of a duplicate is the one remembered with its key.
LEMMA FirstFound ==
    ASSUME TypeOK, NEW key, IsDuplicate(key)
    PROVE  \E s \in seen : s.key = key /\ first_path(key) = s.path
  BY DEF IsDuplicate, first_path

\* What a Visit holds.
LEMMA VisitTyped ==
    ASSUME TypeOK, stack # <<>>, Head(stack).op = "Visit"
    PROVE  LET v == Head(stack) IN
           /\ v \in [op : {"Visit"}, path : Path, parent : Path, depth : Nat, name : Name, node : Node, link : Links]
           /\ v.depth = Len(v.path) - Len(disk.realPath[Root]) /\ v.depth \in 0 .. MaxDepth
           /\ Canonical(v) \in Path /\ disk.listing[v.node] \in Seq(Entry)
<1>1. stack \in Seq(Work) /\ Head(stack) \in Work /\ 1 \in DOMAIN stack /\ stack[1] = Head(stack)
  BY DEF TypeOK
<1>2. Head(stack) \in [op : {"Visit"}, path : Path, parent : Path, depth : Nat, name : Name, node : Node, link : Links]
  BY <1>1 DEF Work, Leave
<1>3. Head(stack).depth = Len(Head(stack).path) - Len(disk.realPath[Root]) /\ Head(stack).depth \in 0 .. MaxDepth
  BY <1>1 DEF TypeOK
<1>4. disk.realPath \in [Node -> Path] /\ disk.listing \in [Node -> Seq(Entry)]
  BY DEF TypeOK, IsDisk, Path
<1>5. Canonical(Head(stack)) \in Path
  BY <1>2, <1>4 DEF Canonical, Path
<1> QED
  BY <1>2, <1>3, <1>4, <1>5

\* The entries of a listing become work one level further down.
LEMMA ChildrenTyped ==
    ASSUME TypeOK, stack # <<>>, Head(stack).op = "Visit"
    PROVE  LET v == Head(stack)
               c == Children(v)
           IN  /\ c \in Seq(Work) /\ Len(c) = Len(disk.listing[v.node])
               /\ \A k \in 1 .. Len(c) :
                    LET e == disk.listing[v.node][k] IN
                    /\ e \in Entry /\ c[k].op # "Leave"
                    /\ e.link = "Error" => c[k].op = "DirEntryError" /\ c[k].path = v.path
                    /\ e.link # "Error" =>
                         /\ c[k].op = "Visit" /\ c[k].path = Append(v.path, e.name) /\ c[k].depth = v.depth + 1
                         /\ c[k].parent = Canonical(v) /\ c[k].name = e.name /\ c[k].node = e.node
                         /\ c[k].link = e.link
<1> DEFINE v == Head(stack)
           l == disk.listing[v.node]
           c == Children(v)
<1>1. /\ v.path \in Path /\ v.depth \in Nat /\ v.node \in Node /\ Canonical(v) \in Path /\ l \in Seq(Entry)
  BY VisitTyped
<1> HIDE DEF v
<1>2. l \in Seq(Entry) /\ Len(l) \in Nat /\ DOMAIN l = 1 .. Len(l) /\ \A k \in 1 .. Len(l) : l[k] \in Entry
  BY <1>1
<1>3. c = [i \in 1 .. Len(l) |-> IF l[i].link = "Error" THEN [op |-> "DirEntryError", path |-> v.path, node |-> v.node]
                          ELSE Visit(Append(v.path, l[i].name), Canonical(v), v.depth + 1, l[i])]
  BY <1>2 DEF Children
<1> HIDE DEF l, c
<1>4. ASSUME NEW e \in Entry
      PROVE  /\ [op |-> "DirEntryError", path |-> v.path, node |-> v.node] \in Work
             /\ Visit(Append(v.path, e.name), Canonical(v), v.depth + 1, e) \in Work
  <2>1. e.name \in Name /\ e.node \in Node /\ e.link \in Links
    BY DEF Entry
  <2>2. Append(v.path, e.name) \in Path /\ v.depth + 1 \in Nat
    BY <1>1, <2>1 DEF Path
  <2> QED
    BY <1>1, <2>1, <2>2 DEF Visit, Work
<1>5. c \in [1 .. Len(l) -> Work]
  BY <1>2, <1>3, <1>4
<1>6. c \in Seq(Work) /\ Len(c) = Len(l)
  BY <1>2, <1>5
<1>7. ASSUME NEW k \in 1 .. Len(l)
      PROVE  /\ l[k] \in Entry /\ c[k].op # "Leave"
             /\ l[k].link = "Error" => c[k].op = "DirEntryError" /\ c[k].path = v.path
             /\ l[k].link # "Error" =>
                  /\ c[k].op = "Visit" /\ c[k].path = Append(v.path, l[k].name) /\ c[k].depth = v.depth + 1
                  /\ c[k].parent = Canonical(v) /\ c[k].name = l[k].name /\ c[k].node = l[k].node
                  /\ c[k].link = l[k].link
  <2>1. l[k] \in Entry
    BY <1>2
  <2>2. c[k] = IF l[k].link = "Error" THEN [op |-> "DirEntryError", path |-> v.path, node |-> v.node]
               ELSE Visit(Append(v.path, l[k].name), Canonical(v), v.depth + 1, l[k])
    BY <1>3
  <2> QED
    BY <2>1, <2>2 DEF Visit
<1> QED
  BY <1>6, <1>7 DEF v, l, c

----------------------------------------------------------------------------
\* The work on top is done and told; nothing is entered or left.
Tells(new) ==
    /\ new \in Seq(Item) /\ new # <<>> /\ items' = items \o new
    /\ new[1].path = Head(stack).path /\ new[1].node = Head(stack).node
    /\ Head(stack).op = "DirEntryError" => new[1].kind = "EntryError"
    /\ \A i \in DOMAIN new : new[i].kind = "Object" => ~ new[i].descends
PopsAndTells ==
    /\ status = "walking" /\ ~ cancel /\ stack # <<>> /\ Head(stack).op \in {"Visit", "DirEntryError"}
    /\ stack' = Tail(stack) /\ UNCHANGED <<chain, seen, kept>>
    /\ \E new : Tells(new)

\* Only the way the walk ends is settled.
Ends == UNCHANGED <<disk, limit, stack, chain, seen, items>>

\* One error.
LEMMA TellsError ==
    ASSUME NEW ref \in Path, NEW what \in Problem, Head(stack).path \in Path, Head(stack).node \in Node,
           Emit(<<Error(Head(stack), what, ref)>>),
           Head(stack).op = "DirEntryError" => what = "EntryError"
    PROVE  \E new : Tells(new)
<1> DEFINE e   == Error(Head(stack), what, ref)
           new == <<e>>
<1>1. e \in Item /\ e.kind = what /\ e.path = Head(stack).path /\ e.node = Head(stack).node /\ what # "Object"
  BY DEF Error, Item, Problem
<1> HIDE DEF e
<1>2. new \in Seq(Item) /\ new # <<>> /\ new[1] = e /\ DOMAIN new = {1}
  BY <1>1
<1>3. items' = items \o new
  BY DEF Emit, e
<1> HIDE DEF new
<1>4. Tells(new)
  BY <1>1, <1>2, <1>3 DEF Tells
<1> QED
  BY <1>4

\* One row, of an object that is not entered.
LEMMA TellsObject ==
    ASSUME Head(stack).op = "Visit", Head(stack).path \in Path, Head(stack).node \in Node,
           Emit(<<Object(Head(stack), FALSE, FALSE)>>)
    PROVE  \E new : Tells(new)
<1> DEFINE o   == Object(Head(stack), FALSE, FALSE)
           new == <<o>>
<1>1. o \in Item /\ o.path = Head(stack).path /\ o.node = Head(stack).node /\ ~ o.descends
  BY DEF Object, Item
<1> HIDE DEF o
<1>2. new \in Seq(Item) /\ new # <<>> /\ new[1] = o /\ DOMAIN new = {1}
  BY <1>1
<1>3. items' = items \o new
  BY DEF Emit, o
<1> HIDE DEF new
<1>4. Tells(new)
  BY <1>1, <1>2, <1>3 DEF Tells
<1> QED
  BY <1>4

\* A row and an error.
LEMMA TellsBoth ==
    ASSUME Head(stack).op = "Visit", Head(stack).path \in Path, Head(stack).node \in Node,
           NEW ref \in Path, NEW what \in Problem,
           Emit(<<Object(Head(stack), FALSE, FALSE), Error(Head(stack), what, ref)>>)
    PROVE  \E new : Tells(new)
<1> DEFINE o   == Object(Head(stack), FALSE, FALSE)
           e   == Error(Head(stack), what, ref)
           new == <<o, e>>
<1>1. o \in Item /\ o.path = Head(stack).path /\ o.node = Head(stack).node /\ ~ o.descends
  BY DEF Object, Item
<1> HIDE DEF o
<1>2. e \in Item /\ e.kind # "Object"
  BY DEF Error, Item, Problem
<1> HIDE DEF e
<1>3. new \in Seq(Item) /\ new # <<>> /\ new[1] = o /\ new[2] = e /\ DOMAIN new = {1, 2}
  BY <1>1, <1>2
<1>4. items' = items \o new
  BY DEF Emit, o, e
<1> HIDE DEF new
<1>5. Tells(new)
  BY <1>1, <1>2, <1>3, <1>4 DEF Tells
<1> QED
  BY <1>5

\* Every step of the walk is of one of four kinds.
LEMMA StepKinds ==
    ASSUME TypeOK, [Next]_vars
    PROVE  PopsAndTells \/ LeaveDirectory \/ (\E p \in Probe : VisitDirectory(p)) \/ Ends
<1> USE DEF Popped, Pop
<1>p. <<>> \in Path
  BY DEF Path
<1>w. ASSUME stack # <<>>, Head(stack).op = "DirEntryError"
      PROVE  Head(stack).path \in Path /\ Head(stack).node \in Node
  BY <1>w DEF TypeOK, Work, Leave
<1>v. ASSUME stack # <<>>, Head(stack).op = "Visit"
      PROVE  Head(stack).path \in Path /\ Head(stack).node \in Node
  BY <1>v, VisitTyped
<1>1. CASE DirEntryError
  <2>1. \E new : Tells(new)
    BY <1>1, <1>p, <1>w, TellsError DEF DirEntryError, Problem
  <2> QED
    BY <1>1, <2>1 DEF DirEntryError, PopsAndTells
<1>2. CASE VisitUnreadable
  <2>1. \E new : Tells(new)
    BY <1>2, <1>p, <1>v, TellsError DEF VisitUnreadable, Problem
  <2> QED
    BY <1>2, <2>1 DEF VisitUnreadable, PopsAndTells
<1>3. ASSUME NEW p, VisitOtherShare(p) PROVE PopsAndTells
  <2>1. \E new : Tells(new)
    BY <1>3, <1>p, <1>v, TellsError DEF VisitOtherShare, Problem
  <2> QED
    BY <1>3, <2>1 DEF VisitOtherShare, PopsAndTells
<1>4. ASSUME NEW p, VisitBrokenLink(p) PROVE PopsAndTells
  <2>1. \E new : Tells(new)
    BY <1>4, <1>p, <1>v, TellsBoth DEF VisitBrokenLink, Problem
  <2> QED
    BY <1>4, <2>1 DEF VisitBrokenLink, PopsAndTells
<1>5. ASSUME NEW p, VisitFile(p) PROVE PopsAndTells
  <2>1. \E new : Tells(new)
    BY <1>5, <1>v, TellsObject DEF VisitFile
  <2> QED
    BY <1>5, <2>1 DEF VisitFile, PopsAndTells
<1>6. ASSUME NEW p, VisitCycle(p) PROVE PopsAndTells
  <2> DEFINE ref == ancestor_path(select_loop_key(Head(stack), p))
  <2>1. /\ stack # <<>> /\ Head(stack).op = "Visit" /\ IsCycle(select_loop_key(Head(stack), p))
        /\ Emit(<<Object(Head(stack), FALSE, FALSE), Error(Head(stack), "Cycle", ref)>>)
    BY <1>6 DEF VisitCycle
  <2>2. ref \in Path
    <3>1. PICK i \in DOMAIN chain : ref = chain[i].path
      BY <2>1, AncestorFound
    <3>2. chain[i] \in Frame
      BY DEF TypeOK
    <3> QED
      BY <3>1, <3>2 DEF Frame
  <2>3. \E new : Tells(new)
    BY <1>v, <2>1, <2>2, TellsBoth DEF Problem
  <2> QED
    BY <1>6, <2>3 DEF VisitCycle, PopsAndTells
<1>7. ASSUME NEW p, VisitDuplicate(p) PROVE PopsAndTells
  <2> DEFINE ref == first_path(select_loop_key(Head(stack), p))
  <2>1. /\ stack # <<>> /\ Head(stack).op = "Visit" /\ IsDuplicate(select_loop_key(Head(stack), p))
        /\ Emit(<<Object(Head(stack), FALSE, FALSE), Error(Head(stack), "Duplicate", ref)>>)
    BY <1>7 DEF VisitDuplicate
  <2>2. ref \in Path
    <3>1. PICK s \in seen : ref = s.path
      BY <2>1, FirstFound
    <3>2. s \in Frame
      BY DEF TypeOK
    <3> QED
      BY <3>1, <3>2 DEF Frame
  <2>3. \E new : Tells(new)
    BY <1>v, <2>1, <2>2, TellsBoth DEF Problem
  <2> QED
    BY <1>7, <2>3 DEF VisitDuplicate, PopsAndTells
<1>8. CASE VisitProbed
  <2>1. PICK p \in Probe : VisitOtherShare(p) \/ VisitBrokenLink(p) \/ VisitFile(p)
                           \/ VisitCycle(p) \/ VisitDuplicate(p) \/ VisitDirectory(p)
    BY <1>8 DEF VisitProbed, probe_directory, Probe
  <2> QED
    BY <1>3, <1>4, <1>5, <1>6, <1>7, <2>1
<1>9. CASE WalkEnds \/ Return \/ Cancel \/ UNCHANGED vars
  BY <1>9 DEF WalkEnds, Return, Cancel, vars, Ends
<1> QED
  BY <1>1, <1>2, <1>8, <1>9 DEF Next, WalkerStep, Finished

----------------------------------------------------------------------------
\* A stack whose top has been replaced by work c on a Leave.
Stacked(c, s) == (c \o <<Leave>>) \o Tail(s)

\* A directory is entered with the work c for its entries, none if it is not enumerated.
Enters(p, c, new) ==
    LET v == Head(stack) IN
    /\ status = "walking" /\ ~ cancel /\ stack # <<>> /\ v.op = "Visit" /\ v.link # "Broken"
    /\ ~ Unreadable(v) /\ IsFresh(select_loop_key(v, p))
    /\ seen' = seen \cup {[key |-> select_loop_key(v, p), path |-> v.path]}
    /\ chain' = Append(chain, [key |-> select_loop_key(v, p), path |-> v.path])
    /\ c \in Seq(Work) /\ stack' = Stacked(c, stack)
    /\ c = <<>> \/ (c = Children(v) /\ depth_ok(v))
    /\ new \in Seq(Item) /\ new # <<>> /\ items' = items \o new
    /\ new[1].kind = "Object" /\ new[1].path = v.path /\ new[1].node = v.node
    /\ new[1].descends => c = Children(v)
    /\ new[1].descends => (new[1].identityUnknown <=> disk.remote /\ ~ p.id)
    /\ \A i \in DOMAIN new : i # 1 => new[i].kind # "Object"
    /\ UNCHANGED kept

\* That is what VisitDirectory does.
LEMMA EntersDirectory ==
    ASSUME TypeOK, NEW p \in Probe, VisitDirectory(p)
    PROVE  \E c, new : Enters(p, c, new)
<1> DEFINE v == Head(stack)
           c == IF depth_ok(v) /\ v.node \notin disk.denied THEN Children(v) ELSE <<>>
           d == depth_ok(v) /\ v.node \notin disk.denied
           o == Object(v, d, disk.remote /\ ~ p.id)
           e == Error(v, "CannotEnumerate", <<>>)
           new == IF depth_ok(v) /\ v.node \in disk.denied THEN <<o, e>> ELSE <<o>>
<1>1. /\ status = "walking" /\ ~ cancel /\ stack # <<>> /\ v.op = "Visit" /\ v.link # "Broken"
      /\ ~ Unreadable(v) /\ IsFresh(select_loop_key(v, p))
      /\ seen' = seen \cup {[key |-> select_loop_key(v, p), path |-> v.path]}
      /\ chain' = Append(chain, [key |-> select_loop_key(v, p), path |-> v.path])
      /\ stack' = Stacked(c, stack)
      /\ UNCHANGED kept
  BY DEF VisitDirectory, Popped, Enterable, Shown, Pushed, Stacked
<1>2. items' = items \o new
  <2>1. items' = items \o (IF ~ depth_ok(v) THEN <<Object(v, FALSE, FALSE)>>
                          ELSE IF v.node \in disk.denied
                          THEN <<Object(v, FALSE, FALSE), Error(v, "CannotEnumerate", <<>>)>>
                          ELSE <<Object(v, TRUE, disk.remote /\ ~ p.id)>>)
    BY DEF VisitDirectory, Emit
  <2>2. \A b : Object(v, FALSE, b) = Object(v, FALSE, FALSE)
    BY DEF Object
  <2> HIDE DEF v
  <2>3. d => d = TRUE
    BY DEF depth_ok
  <2>4. ~ d => d = FALSE
    BY DEF depth_ok
  <2>5. d => o = Object(v, TRUE, disk.remote /\ ~ p.id)
    BY <2>3
  <2>6. ~ d => o = Object(v, FALSE, FALSE)
    BY <2>2, <2>4
  <2>7. CASE ~ depth_ok(v)
    BY <2>1, <2>6, <2>7
  <2>8. CASE depth_ok(v) /\ v.node \in disk.denied
    BY <2>1, <2>6, <2>8
  <2>9. CASE depth_ok(v) /\ v.node \notin disk.denied
    BY <2>1, <2>5, <2>9
  <2> HIDE DEF new, o, e, d
  <2> QED
    BY <2>7, <2>8, <2>9
<1>3. v.path \in Path /\ v.node \in Node /\ disk.remote \in BOOLEAN /\ p.id \in BOOLEAN /\ <<>> \in Path
  <2>1. v.path \in Path /\ v.node \in Node
    BY <1>1, VisitTyped
  <2>2. disk.remote \in BOOLEAN
    BY DEF TypeOK, IsDisk
  <2>3. p.id \in BOOLEAN /\ <<>> \in Path
    BY DEF Probe, Path
  <2> QED
    BY <2>1, <2>2, <2>3
<1>4. d \in BOOLEAN
  BY DEF depth_ok
<1>5. /\ o \in Item /\ o.kind = "Object" /\ o.path = v.path /\ o.node = v.node /\ o.descends = d
      /\ d => (o.identityUnknown <=> disk.remote /\ ~ p.id)
  BY <1>3, <1>4 DEF Object, Item
<1>6. e \in Item /\ e.kind # "Object"
  BY <1>3 DEF Error, Item, Problem
<1>7. c \in Seq(Work) /\ (c = <<>> \/ (c = Children(v) /\ depth_ok(v))) /\ (d => c = Children(v))
  BY <1>1, ChildrenTyped
<1> HIDE DEF o, e, c, d, v
<1>8. new \in Seq(Item) /\ new # <<>> /\ new[1] = o /\ \A i \in DOMAIN new : i # 1 => new[i] = e
  <2>1. CASE depth_ok(v) /\ v.node \in disk.denied
    BY <1>5, <1>6, <2>1
  <2>2. CASE ~ (depth_ok(v) /\ v.node \in disk.denied)
    BY <1>5, <1>6, <2>2
  <2> QED
    BY <2>1, <2>2
<1> HIDE DEF new
<1>9. Enters(p, c, new)
  BY <1>1, <1>2, <1>5, <1>6, <1>7, <1>8 DEF Enters, v
<1> QED
  BY <1>9

\* The stack when its top has been popped.
LEMMA PoppedStack ==
    ASSUME NEW s \in Seq(Work), s # <<>>
    PROVE  /\ Tail(s) \in Seq(Work) /\ Len(s) = Len(Tail(s)) + 1 /\ DOMAIN Tail(s) = 1 .. Len(s) - 1
           /\ Len(s) \in Nat \ {0} /\ DOMAIN s = 1 .. Len(s)
           /\ s[1] = Head(s) /\ Head(s) \in Work
           /\ \A i \in DOMAIN Tail(s) : i + 1 \in DOMAIN s /\ Tail(s)[i] = s[i + 1]
  OBVIOUS

\* Where the work is then.
LEMMA PushedStack ==
    ASSUME NEW s \in Seq(Work), s # <<>>, NEW c \in Seq(Work)
    PROVE  LET t == Stacked(c, s) IN
           /\ t \in Seq(Work) /\ Len(t) = Len(c) + Len(s) /\ DOMAIN t = 1 .. Len(c) + Len(s)
           /\ Len(c) \in Nat /\ Len(s) \in Nat \ {0} /\ DOMAIN s = 1 .. Len(s) /\ DOMAIN c = 1 .. Len(c)
           /\ \A i \in 1 .. Len(c) : i \in DOMAIN t /\ t[i] = c[i]
           /\ Len(c) + 1 \in DOMAIN t /\ t[Len(c) + 1] = Leave
           /\ \A i \in 2 .. Len(s) : Len(c) + i \in DOMAIN t /\ t[Len(c) + i] = s[i]
           /\ \A i \in DOMAIN t : i \in 1 .. Len(c) \/ i = Len(c) + 1
                                  \/ (i - Len(c) \in 2 .. Len(s) /\ t[i] = s[i - Len(c)])
<1> DEFINE t == Stacked(c, s)
<1> DEFINE a == c \o <<Leave>>
           b == Tail(s)
<1>1. /\ a \in Seq(Work) /\ Len(a) = Len(c) + 1 /\ Len(c) \in Nat /\ DOMAIN c = 1 .. Len(c)
      /\ \A i \in 1 .. Len(c) : a[i] = c[i]
      /\ a[Len(c) + 1] = Leave
  <2>1. Leave \in Work
    BY DEF Work
  <2> QED
    BY <2>1
<1>2. /\ b \in Seq(Work) /\ Len(b) = Len(s) - 1 /\ Len(s) \in Nat \ {0} /\ DOMAIN s = 1 .. Len(s)
      /\ \A i \in 2 .. Len(s) : b[i - 1] = s[i]
  OBVIOUS
<1> HIDE DEF a, b
<1>3. /\ t \in Seq(Work) /\ Len(t) = Len(c) + Len(s) /\ DOMAIN t = 1 .. Len(c) + Len(s)
      /\ \A i \in 1 .. Len(a) : t[i] = a[i]
      /\ \A i \in 1 .. Len(b) : t[Len(a) + i] = b[i]
  BY <1>1, <1>2 DEF a, b, Stacked
<1> HIDE DEF t
<1>4. ASSUME NEW i \in 2 .. Len(s) PROVE Len(c) + i \in DOMAIN t /\ t[Len(c) + i] = s[i]
  <2>1. i - 1 \in 1 .. Len(b) /\ Len(a) + (i - 1) = Len(c) + i
    BY <1>1, <1>2
  <2>2. t[Len(a) + (i - 1)] = b[i - 1]
    BY <1>3, <2>1
  <2> QED
    BY <1>1, <1>2, <1>3, <2>1, <2>2
<1>5. ASSUME NEW i \in DOMAIN t, i \notin 1 .. Len(c), i # Len(c) + 1
      PROVE  i - Len(c) \in 2 .. Len(s) /\ t[i] = s[i - Len(c)]
  <2>1. i - Len(c) \in 2 .. Len(s) /\ Len(c) + (i - Len(c)) = i
    BY <1>1, <1>2, <1>3, <1>5
  <2>2. t[Len(c) + (i - Len(c))] = s[i - Len(c)]
    BY <1>4, <2>1
  <2> QED
    BY <2>1, <2>2
<1>6. /\ \A i \in 1 .. Len(c) : i \in DOMAIN t /\ t[i] = c[i]
      /\ Len(c) + 1 \in DOMAIN t /\ t[Len(c) + 1] = Leave
  BY <1>1, <1>2, <1>3
<1>7. \A i \in DOMAIN t : i \in 1 .. Len(c) \/ i = Len(c) + 1
                        \/ (i - Len(c) \in 2 .. Len(s) /\ t[i] = s[i - Len(c)])
  BY <1>5
<1> QED
  BY <1>1, <1>2, <1>3, <1>4, <1>6, <1>7 DEF t

\* What a directory is remembered under is a key of its own kind.
LEMMA KeyTyped ==
    ASSUME TypeOK, stack # <<>>, Head(stack).op = "Visit", NEW p \in Probe
    PROVE  [key |-> select_loop_key(Head(stack), p), path |-> Head(stack).path] \in Frame
<1>1. Head(stack).path \in Path /\ Head(stack).node \in Node /\ Canonical(Head(stack)) \in Path
  BY VisitTyped
<1>2. <<Head(stack).node>> \in Seq(Node)
  BY <1>1
<1>3. select_loop_key(Head(stack), p) \in Key
  BY <1>1, <1>2 DEF select_loop_key, Key
<1> QED
  BY <1>1, <1>3 DEF Frame

\* The depth limit of a typed state is a number.
LEMMA DepthTyped ==
    ASSUME TypeOK
    PROVE  /\ MaxDepth \in Nat /\ MaxPath \in Nat /\ (limit # Unlimited => limit \in Nat)
           /\ Len(disk.realPath[Root]) \in Nat \ {0}
<1>1. limit \in Nat \cup {Unlimited} /\ MaxPath \in Nat
  BY WalkAssumption DEF TypeOK
<1>2. Root \in Node /\ disk.realPath \in [Node -> Seq(Name)] /\ disk.realPath[Root] # <<>>
  BY WalkAssumption DEF TypeOK, IsDisk
<1>3. disk.realPath[Root] \in Seq(Name)
  BY <1>2
<1> QED
  BY <1>1, <1>2, <1>3 DEF MaxDepth

\* No step leaves the types.
LEMMA TypeStep ==
    ASSUME TypeOK, [Next]_vars
    PROVE  TypeOK'
<1> DEFINE Deep(w) == w.depth = Len(w.path) - Len(disk.realPath[Root]) /\ w.depth \in 0 .. MaxDepth
<1>1. /\ IsDisk(disk) /\ limit \in Limits /\ stack \in Seq(Work) /\ chain \in Seq(Frame) /\ seen \subseteq Frame
      /\ items \in Seq(Item) /\ cancel \in BOOLEAN /\ cancelled \in BOOLEAN
      /\ status \in {"walking", "left", "done"}
      /\ \A i \in DOMAIN stack : stack[i].op = "Visit" => Deep(stack[i])
  BY DEF TypeOK
<1>2. /\ disk' = disk /\ limit' = limit /\ cancel' \in BOOLEAN /\ cancelled' \in BOOLEAN
      /\ status' \in {"walking", "left", "done"}
  <2>1. CASE PopsAndTells \/ LeaveDirectory \/ (\E p \in Probe : VisitDirectory(p))
    BY <1>1, <2>1 DEF PopsAndTells, LeaveDirectory, VisitDirectory, kept
  <2>2. CASE WalkEnds \/ Return \/ Cancel \/ UNCHANGED vars
    BY <1>1, <2>2 DEF WalkEnds, Return, Cancel, vars
  <2>3. CASE DirEntryError \/ VisitUnreadable
    BY <1>1, <2>3 DEF DirEntryError, VisitUnreadable, kept
  <2>4. ASSUME NEW p, \/ VisitOtherShare(p) \/ VisitBrokenLink(p) \/ VisitFile(p)
                      \/ VisitCycle(p) \/ VisitDuplicate(p) \/ VisitDirectory(p)
        PROVE  UNCHANGED kept
    BY <2>4 DEF VisitOtherShare, VisitBrokenLink, VisitFile, VisitCycle, VisitDuplicate, VisitDirectory
  <2>5. CASE VisitProbed
    <3>1. UNCHANGED kept
      BY <2>4, <2>5 DEF VisitProbed
    <3> QED
      BY <1>1, <3>1 DEF kept
  <2> QED
    BY <2>1, <2>2, <2>3, <2>5 DEF Next, WalkerStep, Finished
<1>3. ASSUME NEW s \in Seq(Work), stack' = s, chain' \in Seq(Frame), seen' \subseteq Frame, items' \in Seq(Item),
             \A i \in DOMAIN s : s[i].op = "Visit" => Deep(s[i])
      PROVE  TypeOK'
  <2>1. MaxDepth' = MaxDepth
    BY <1>2 DEF MaxDepth
  <2>2. IsDisk(disk)'
    BY <1>1, <1>2 DEF IsDisk
  <2> QED
    BY <1>1, <1>2, <1>3, <2>1, <2>2 DEF TypeOK
<1>4. ASSUME stack # <<>>, stack' = Tail(stack), chain' \in Seq(Frame), seen' = seen, items' \in Seq(Item)
      PROVE  TypeOK'
  <2>1. Tail(stack) \in Seq(Work)
    BY <1>1, <1>4
  <2>2. \A i \in DOMAIN Tail(stack) : Tail(stack)[i].op = "Visit" => Deep(Tail(stack)[i])
    <3> HIDE DEF Deep
    <3> QED
      BY <1>1, <1>4, PoppedStack
  <2> HIDE DEF Deep
  <2> QED
    BY <1>1, <1>3, <1>4, <2>1, <2>2
<1>5. CASE PopsAndTells
  <2>1. stack # <<>> /\ stack' = Tail(stack) /\ chain' = chain /\ seen' = seen
    BY <1>5 DEF PopsAndTells
  <2>2. PICK new : new \in Seq(Item) /\ items' = items \o new
    BY <1>5 DEF PopsAndTells, Tells
  <2>3. items' \in Seq(Item)
    BY <1>1, <2>2
  <2> QED
    BY <1>1, <1>4, <2>1, <2>3
<1>6. CASE LeaveDirectory
  <2>1. stack # <<>> /\ stack' = Tail(stack) /\ chain' = Front(chain) /\ seen' = seen /\ items' = items
    BY <1>6 DEF LeaveDirectory, Popped, Pop
  <2>2. Front(chain) \in Seq(Frame)
    BY <1>1 DEF Front
  <2> QED
    BY <1>1, <1>4, <2>1, <2>2
<1>7. CASE \E p \in Probe : VisitDirectory(p)
  <2>1. PICK p \in Probe : VisitDirectory(p)
    BY <1>7
  <2>2. PICK c, new : Enters(p, c, new)
    BY <2>1, EntersDirectory
  <2> DEFINE v == Head(stack)
             f == [key |-> select_loop_key(v, p), path |-> v.path]
  <2>3. /\ stack # <<>> /\ v.op = "Visit" /\ ~ Unreadable(v)
        /\ seen' = seen \cup {f} /\ chain' = Append(chain, f)
        /\ c \in Seq(Work) /\ stack' = Stacked(c, stack)
        /\ c = <<>> \/ (c = Children(v) /\ depth_ok(v))
        /\ new \in Seq(Item) /\ items' = items \o new
    BY <2>2 DEF Enters
  <2>4. f \in Frame
    BY <2>3, KeyTyped
  <2>5. /\ v.path \in Seq(Name) /\ v.depth \in Nat /\ v.depth = Len(v.path) - Len(disk.realPath[Root])
        /\ disk.listing[v.node] \in Seq(Entry)
    BY <2>3, VisitTyped DEF Path
  <2> HIDE DEF v, f
  <2>6. chain' \in Seq(Frame) /\ seen' \subseteq Frame /\ items' \in Seq(Item)
    BY <1>1, <2>3, <2>4
  <2>7. v.depth + 1 \in 0 .. MaxDepth \/ ~ depth_ok(v)
    <3>1. Len(v.path) \in Nat /\ MaxPath \in Nat /\ Len(v.path) <= MaxPath
      BY <2>3, <2>5, DepthTyped DEF Unreadable
    <3> DEFINE m == Len(disk.realPath[Root])
    <3>4. m \in Nat \ {0} /\ v.depth = Len(v.path) - m
      BY <2>5, DepthTyped
    <3>5. v.depth \in Nat
      BY <2>5
    <3> HIDE DEF m
    <3>2. CASE limit = Unlimited
      <4>1. MaxDepth = MaxPath
        BY <3>2 DEF MaxDepth
      <4> QED
        BY <3>1, <3>4, <3>5, <4>1
    <3>3. CASE limit # Unlimited
      <4>1. limit \in Nat /\ MaxDepth = limit /\ (depth_ok(v) => v.depth < limit)
        BY <3>3, DepthTyped DEF MaxDepth, depth_ok
      <4> QED
        BY <3>5, <4>1
    <3> QED
      BY <3>2, <3>3
  <2>8. ASSUME NEW i \in 1 .. Len(c), c[i].op = "Visit" PROVE Deep(c[i])
    <3>1. c = Children(v) /\ depth_ok(v) /\ v.depth + 1 \in 0 .. MaxDepth
      BY <2>3, <2>7, <2>8
    <3> DEFINE e == disk.listing[v.node][i]
    <3>2. e \in Entry /\ c[i].depth = v.depth + 1 /\ c[i].path = Append(v.path, e.name)
      BY <2>3, <2>8, <3>1, ChildrenTyped DEF v
    <3>3. e.name \in Name
      BY <3>2 DEF Entry
    <3>4. Len(c[i].path) = Len(v.path) + 1 /\ Len(v.path) \in Nat
      BY <2>5, <3>2, <3>3
    <3> HIDE DEF e
    <3> DEFINE m == Len(disk.realPath[Root])
    <3>5. m \in Nat \ {0} /\ v.depth = Len(v.path) - m
      BY <2>5, DepthTyped
    <3>6. c[i].depth = Len(c[i].path) - m
      <4> HIDE DEF m
      <4> QED
        BY <3>2, <3>4, <3>5
    <3> QED
      BY <3>1, <3>2, <3>6
  <2> HIDE DEF Deep
  <2>9. \A i \in DOMAIN stack' : stack'[i].op = "Visit" => Deep(stack'[i])
    <3> DEFINE t == Stacked(c, stack)
    <3>1. /\ \A i \in 1 .. Len(c) : i \in DOMAIN t /\ t[i] = c[i]
          /\ t[Len(c) + 1] = Leave
          /\ \A i \in DOMAIN t : i \in 1 .. Len(c) \/ i = Len(c) + 1
                                 \/ (i - Len(c) \in 2 .. Len(stack) /\ t[i] = stack[i - Len(c)])
          /\ \A i \in 2 .. Len(stack) : i \in DOMAIN stack
      <4>1. stack \in Seq(Work) /\ stack # <<>> /\ c \in Seq(Work)
        BY <1>1, <2>3
      <4>2. \A i \in 2 .. Len(stack) : i \in DOMAIN stack
        BY <4>1
      <4> QED
        BY <4>1, <4>2, PushedStack
    <3> SUFFICES ASSUME NEW i \in DOMAIN t, t[i].op = "Visit" PROVE Deep(t[i])
      BY <2>3
    <3> HIDE DEF t
    <3>2. Leave.op # "Visit"
      BY DEF Leave
    <3> QED
      BY <1>1, <2>8, <3>1, <3>2
  <2>10. stack' \in Seq(Work)
    BY <1>1, <2>3, PushedStack
  <2> QED
    BY <1>3, <2>6, <2>9, <2>10
<1>8. CASE Ends
  BY <1>1, <1>3, <1>8 DEF Ends
<1> QED
  BY <1>5, <1>6, <1>7, <1>8, StepKinds

\* The state of the walk has its type, and no pending Visit lies below max_depth or below
\* what Windows can open: walk_dir pushes the entries of a directory one level further down
\* only while depth_ok holds.
THEOREM WalkTypeCorrect == Spec => []TypeOK
<1>1. Init => TypeOK
  <2> SUFFICES ASSUME Init PROVE TypeOK
    OBVIOUS
  <2> DEFINE r == Visit(disk.realPath[Root], <<>>, 0, RootEntry(disk))
  <2>1. IsDisk(disk) /\ limit \in Limits /\ Root \in Node
    BY WalkAssumption DEF Init
  <2>2. disk.realPath[Root] \in Seq(Name) /\ disk.realPath[Root] # <<>>
    BY <2>1 DEF IsDisk
  <2>3. Head(disk.realPath[Root]) \in Name /\ <<>> \in Seq(Name)
    BY <2>2
  <2>4. /\ r \in Work /\ r.op = "Visit" /\ r.depth = 0 /\ r.path = disk.realPath[Root]
    BY <2>1, <2>2, <2>3 DEF Work, Visit, RootEntry, Path, Links
  <2>5. stack = <<r>>
    BY DEF Init
  <2>6. MaxDepth \in Nat
    BY WalkAssumption, <2>1 DEF MaxDepth
  <2>7. Len(disk.realPath[Root]) \in Nat
    BY <2>2
  <2> HIDE DEF r
  <2>8. stack \in Seq(Work) /\ DOMAIN stack = {1} /\ stack[1] = r
    BY <2>4, <2>5
  <2>9. \A i \in DOMAIN stack : stack[i].op = "Visit" =>
          /\ stack[i].depth = Len(stack[i].path) - Len(disk.realPath[Root])
          /\ stack[i].depth \in 0 .. MaxDepth
    <3> DEFINE m == Len(disk.realPath[Root])
    <3>1. m \in Nat /\ r.depth = 0 /\ Len(r.path) = m
      BY <2>4, <2>7
    <3> HIDE DEF m
    <3>2. r.depth = Len(r.path) - m /\ r.depth \in 0 .. MaxDepth
      BY <3>1, <2>6
    <3> QED
      BY <2>8, <3>2 DEF m
  <2>10. chain \in Seq(Frame) /\ seen \subseteq Frame /\ items \in Seq(Item)
    BY DEF Init
  <2> QED
    BY <2>1, <2>8, <2>9, <2>10 DEF Init, TypeOK
<1>2. TypeOK /\ [Next]_vars => TypeOK'
  BY TypeStep
<1> QED
  BY <1>1, <1>2, PTL DEF Spec

----------------------------------------------------------------------------
\* The directory of an entry is the path without the name of the entry.
LEMMA ParentOfEntry ==
    ASSUME NEW path \in Path, NEW name \in Name
    PROVE  Parent(Append(path, name)) = path
<1> DEFINE a == Append(path, name)
<1>1. path \in Seq(Name) /\ a \in Seq(Name) /\ Len(a) = Len(path) + 1 /\ Len(path) \in Nat
      /\ \A i \in 1 .. Len(path) : a[i] = path[i]
  BY DEF Path
<1> HIDE DEF a
<1>2. Len(a) - 1 = Len(path)
  BY <1>1
<1>3. SubSeq(a, 1, Len(path)) \in Seq(Name) /\ Len(SubSeq(a, 1, Len(path))) = Len(path)
      /\ \A i \in 1 .. Len(path) : SubSeq(a, 1, Len(path))[i] = a[i]
  BY <1>1
<1>4. SubSeq(a, 1, Len(path)) = path
  BY <1>1, <1>3
<1> QED
  BY <1>2, <1>4 DEF Parent, a

\* The levels of the work below the top.
LEMMA LevelBelow ==
    ASSUME NEW s \in Seq(Work), s # <<>>
    PROVE  /\ \A i \in Nat \ {0} : Level(Tail(s), i) = Level(s, i + 1) /\ Level(s, i + 1) <= Level(s, 1)
           /\ Level(s, 1) = IF Head(s).op = "Leave" THEN Level(s, 2) + 1 ELSE Level(s, 2)
           /\ \A i \in Nat : Level(s, i) \in Nat
<1>1. /\ Tail(s) \in Seq(Work) /\ Len(s) = Len(Tail(s)) + 1 /\ 1 \in DOMAIN s /\ s[1] = Head(s)
      /\ \A j \in DOMAIN Tail(s) : Tail(s)[j] = s[j + 1]
  BY PoppedStack
<1>2. \A i \in Nat \ {0} : Level(Tail(s), i) = Level(s, i + 1)
  <2>1. 1 \in Nat
    OBVIOUS
  <2> DEFINE t == Tail(s)
             k == 1
  <2>2. t \in Seq(Work) /\ Len(s) = Len(t) + k /\ k \in Nat /\ \A j \in DOMAIN t : t[j] = s[j + k]
    BY <1>1
  <2> SUFFICES ASSUME NEW i \in Nat \ {0} PROVE Level(t, i) = Level(s, i + k)
    OBVIOUS
  <2> HIDE DEF t, k
  <2> QED
    BY <2>2, LevelShift
<1>3. \A i \in Nat \ {0} : Level(s, i + 1) <= Level(s, 1)
  BY LevelDecreases
<1>4. Level(s, 1) = IF s[1].op = "Leave" THEN Level(s, 1 + 1) + 1 ELSE Level(s, 1 + 1)
  BY <1>1, LevelStep, Zenon
<1>5. \A i \in Nat : Level(s, i) \in Nat
  BY LeavesFinite
<1>6. 1 + 1 = 2
  OBVIOUS
<1>7. Level(s, 1) = IF Head(s).op = "Leave" THEN Level(s, 2) + 1 ELSE Level(s, 2)
  BY <1>1, <1>4, <1>6, Zenon
<1> QED
  BY <1>2, <1>3, <1>5, <1>7, Zenon

\* The levels of the work pushed, one more than those of what it replaces.
LEMMA LevelPushed ==
    ASSUME NEW s \in Seq(Work), s # <<>>, NEW c \in Seq(Work),
           \A i \in 1 .. Len(c) : c[i].op # "Leave",
           Head(s).op # "Leave"
    PROVE  LET t == Stacked(c, s) IN
           /\ \A i \in 1 .. Len(c) + 1 : Level(t, i) = Level(s, 1) + 1
           /\ \A i \in 2 .. Len(s) : Level(t, Len(c) + i) = Level(s, i)
<1> DEFINE t == Stacked(c, s)
<1>0. /\ t \in Seq(Work) /\ Len(t) = Len(c) + Len(s)
      /\ Len(c) \in Nat /\ Len(s) \in Nat \ {0}
      /\ \A i \in 1 .. Len(c) : i \in DOMAIN t /\ t[i] = c[i]
      /\ Len(c) + 1 \in DOMAIN t /\ t[Len(c) + 1] = Leave
      /\ \A i \in 2 .. Len(s) : Len(c) + i \in DOMAIN t /\ t[Len(c) + i] = s[i]
  BY PushedStack
<1> HIDE DEF t
<1> DEFINE n == Len(c) + 1
<1>1. /\ t \in Seq(Work) /\ Len(t) = Len(c) + Len(s) /\ Len(c) \in Nat /\ Len(s) \in Nat \ {0}
      /\ \A i \in 1 .. Len(c) : t[i] = c[i]
      /\ n \in DOMAIN t /\ t[n] = Leave
      /\ \A i \in 2 .. Len(s) : t[Len(c) + i] = s[i]
  BY <1>0, Zenon
<1>2. Tail(s) \in Seq(Work) /\ Len(s) = Len(Tail(s)) + 1 /\ \A j \in DOMAIN Tail(s) : Tail(s)[j] = s[j + 1]
  BY PoppedStack
<1>3. Len(t) = Len(Tail(s)) + n /\ n \in Nat
  BY <1>1, <1>2
<1>4. \A j \in DOMAIN Tail(s) : Tail(s)[j] = t[j + n]
  <2> SUFFICES ASSUME NEW j \in DOMAIN Tail(s) PROVE Tail(s)[j] = t[j + n]
    OBVIOUS
  <2>0. j \in 1 .. Len(s) - 1
    BY <1>1, <1>2, PoppedStack
  <2>1. j + 1 \in 2 .. Len(s) /\ Len(c) + (j + 1) = j + n
    BY <1>1, <2>0
  <2>2. t[Len(c) + (j + 1)] = s[j + 1]
    BY <1>1, <2>1
  <2> QED
    BY <1>2, <2>1, <2>2
<1> HIDE DEF n
<1>5. \A i \in Nat \ {0} : Level(Tail(s), i) = Level(t, i + n)
  <2> DEFINE u == Tail(s)
  <2>1. u \in Seq(Work) /\ t \in Seq(Work) /\ Len(t) = Len(u) + n /\ n \in Nat /\ \A j \in DOMAIN u : u[j] = t[j + n]
    BY <1>1, <1>2, <1>3, <1>4
  <2> SUFFICES ASSUME NEW i \in Nat \ {0} PROVE Level(u, i) = Level(t, i + n)
    OBVIOUS
  <2> HIDE DEF u
  <2> QED
    BY <2>1, LevelShift
<1>6. \A i \in Nat \ {0} : Level(t, i + n) = Level(s, i + 1)
  BY <1>5, LevelBelow
<1>7. Level(t, n) = Level(s, 1) + 1
  <2>0. Leave.op = "Leave"
    BY DEF Leave
  <2>1. Level(t, n) = Level(t, n + 1) + 1
    <3>1. t \in Seq(Work) /\ n \in DOMAIN t /\ t[n].op = "Leave"
      BY <1>1, <2>0
    <3>2. Level(t, n) = IF t[n].op = "Leave" THEN Level(t, n + 1) + 1 ELSE Level(t, n + 1)
      BY <3>1, LevelStep
    <3> QED
      BY <3>1, <3>2
  <2>2. Level(t, 1 + n) = Level(s, 1 + 1)
    <3>1. 1 \in Nat \ {0}
      OBVIOUS
    <3> QED
      BY <1>6, <3>1, Zenon
  <2>3. Level(s, 1) = Level(s, 2)
    BY LevelBelow
  <2> QED
    BY <1>3, <2>1, <2>2, <2>3
<1>8. ASSUME NEW i \in 1 .. n PROVE Level(t, i) = Level(s, 1) + 1
  <2>1. i \in Nat /\ i <= n /\ \A j \in DOMAIN t : i <= j /\ j < n => t[j].op # "Leave"
    BY <1>1, <1>3 DEF n
  <2>2. Level(t, i) = Level(t, n)
    BY <1>1, <1>3, <2>1, LevelAcross
  <2> QED
    BY <1>7, <2>2
<1>9. ASSUME NEW i \in 2 .. Len(s) PROVE Level(t, Len(c) + i) = Level(s, i)
  <2>1. i - 1 \in Nat \ {0} /\ (i - 1) + n = Len(c) + i /\ (i - 1) + 1 = i
    BY <1>1 DEF n
  <2>2. Level(t, (i - 1) + n) = Level(s, (i - 1) + 1)
    BY <1>6, <2>1
  <2> QED
    BY <2>1, <2>2
<1> QED
  BY <1>8, <1>9 DEF n, t

\* A step keeps all pending work below the active path.
LEMMA ActiveStep ==
    ASSUME TypeOK, TypeOK', ActiveInv, [Next]_vars
    PROVE  ActiveInv'
<1> DEFINE Below(w, l, ch) == w.depth = l /\ (l > 0 => ch[l].path = Parent(w.path))
<1>1. /\ stack \in Seq(Work) /\ chain \in Seq(Frame) /\ Len(chain) \in Nat /\ Len(chain) = Level(stack, 1)
      /\ \A i \in 1 .. Len(chain) - 1 : chain[i].path = Parent(chain[i + 1].path)
      /\ \A i \in DOMAIN stack : stack[i].op = "Visit" => Below(stack[i], Level(stack, i), chain)
  BY DEF TypeOK, ActiveInv
<1>2. ASSUME NEW t, stack' = t, NEW ch, chain' = ch, Len(ch) = Level(t, 1),
             \A i \in 1 .. Len(ch) - 1 : ch[i].path = Parent(ch[i + 1].path),
             \A i \in DOMAIN t : t[i].op = "Visit" => Below(t[i], Level(t, i), ch)
      PROVE  ActiveInv'
  BY <1>2 DEF ActiveInv, Level, Parent
<1>3. CASE PopsAndTells
  <2> DEFINE t == Tail(stack)
  <2>1. stack # <<>> /\ Head(stack).op # "Leave" /\ stack' = t /\ chain' = chain
    BY <1>3 DEF PopsAndTells
  <2>2. DOMAIN t \subseteq Nat \ {0} /\ \A i \in DOMAIN t : i + 1 \in DOMAIN stack /\ t[i] = stack[i + 1]
    BY <1>1, <2>1, PoppedStack
  <2>3. Level(t, 1) = Level(stack, 1) /\ \A i \in DOMAIN t : Level(t, i) = Level(stack, i + 1)
    <3>1. 1 \in Nat \ {0} /\ 1 + 1 = 2
      OBVIOUS
    <3>2. Level(t, 1) = Level(stack, 2)
      BY <1>1, <2>1, <3>1, LevelBelow
    <3>3. Level(stack, 1) = Level(stack, 2)
      BY <1>1, <2>1, LevelBelow
    <3>4. \A i \in DOMAIN t : Level(t, i) = Level(stack, i + 1)
      BY <1>1, <2>1, <2>2, LevelBelow
    <3> QED
      BY <3>2, <3>3, <3>4
  <2> HIDE DEF t, Below
  <2>4. \A i \in DOMAIN t : t[i].op = "Visit" => Below(t[i], Level(t, i), chain)
    BY <1>1, <2>2, <2>3
  <2> QED
    BY <1>1, <1>2, <2>1, <2>3, <2>4
<1>4. CASE LeaveDirectory
  <2> DEFINE t == Tail(stack)
             ch == Front(chain)
  <2>1. stack # <<>> /\ Head(stack).op = "Leave" /\ stack' = t /\ chain' = ch
    BY <1>4 DEF LeaveDirectory, Popped, Pop
  <2>2. DOMAIN t \subseteq Nat \ {0} /\ \A i \in DOMAIN t : i + 1 \in DOMAIN stack /\ t[i] = stack[i + 1]
    BY <1>1, <2>1, PoppedStack
  <2>3. /\ Level(t, 1) \in Nat /\ Level(stack, 1) = Level(t, 1) + 1
        /\ \A i \in DOMAIN t : Level(t, i) = Level(stack, i + 1) /\ Level(t, i) <= Level(t, 1) /\ Level(t, i) \in Nat
    <3>0. t \in Seq(Work) /\ 1 \in Nat \ {0} /\ 1 + 1 = 2
      BY <1>1, <2>1
    <3>1. Level(t, 1) = Level(stack, 2) /\ Level(stack, 1) = Level(stack, 2) + 1
      BY <1>1, <2>1, <3>0, LevelBelow
    <3>2. \A i \in DOMAIN t : Level(t, i) = Level(stack, i + 1)
      BY <1>1, <2>1, <2>2, LevelBelow
    <3> HIDE DEF t
    <3>3. Level(t, 1) \in Nat /\ \A i \in DOMAIN t : Level(t, i) \in Nat
      BY <2>2, <3>0, LeavesFinite
    <3>4. \A i \in DOMAIN t : Level(t, i) <= Level(t, 1)
      BY <2>2, <3>0, LevelDecreases
    <3> QED
      BY <3>1, <3>2, <3>3, <3>4
  <2>4. Len(ch) = Len(chain) - 1 /\ Len(ch) \in Nat /\ \A i \in 1 .. Len(ch) : ch[i] = chain[i]
    <3>1. Len(chain) >= 1
      BY <1>1, <2>3
    <3> QED
      BY <1>1, <3>1 DEF Front
  <2> HIDE DEF t, ch
  <2>5. Len(ch) = Level(t, 1)
    BY <1>1, <2>3, <2>4
  <2>6. \A i \in 1 .. Len(ch) - 1 : ch[i].path = Parent(ch[i + 1].path)
    BY <1>1, <2>4
  <2>7. ASSUME NEW i \in DOMAIN t, t[i].op = "Visit" PROVE Below(t[i], Level(t, i), ch)
    <3> DEFINE l == Level(t, i)
    <3>1. Below(t[i], l, chain)
      BY <1>1, <2>2, <2>3, <2>7
    <3>2. l \in Nat /\ l <= Len(ch)
      BY <2>3, <2>5
    <3> HIDE DEF l
    <3>3. l > 0 => ch[l] = chain[l]
      BY <2>4, <3>2
    <3> QED
      BY <3>1, <3>3 DEF l
  <2> HIDE DEF Below
  <2> QED
    BY <1>2, <2>1, <2>5, <2>6, <2>7
<1>5. CASE \E p \in Probe : VisitDirectory(p)
  <2>1. PICK p \in Probe : VisitDirectory(p)
    BY <1>5
  <2>2. PICK c, new : Enters(p, c, new)
    BY <2>1, EntersDirectory
  <2> DEFINE v == Head(stack)
             f == [key |-> select_loop_key(v, p), path |-> v.path]
             t == Stacked(c, stack)
             ch == Append(chain, f)
             n == Len(chain)
  <2>3. /\ stack # <<>> /\ v.op = "Visit" /\ chain' = ch /\ c \in Seq(Work) /\ stack' = t
        /\ c = <<>> \/ c = Children(v)
    BY <2>2 DEF Enters
  <2>4. v.path \in Path /\ v.depth \in Nat /\ f \in Frame /\ f.path = v.path
    BY <2>3, VisitTyped, KeyTyped
  <2>5. ASSUME NEW i \in 1 .. Len(c)
        PROVE  c[i].op # "Leave" /\ (c[i].op = "Visit" => c[i].depth = v.depth + 1 /\ Parent(c[i].path) = v.path)
    <3>1. c = Children(v)
      BY <2>3
    <3> DEFINE e == disk.listing[v.node][i]
    <3>2. /\ e \in Entry /\ c[i].op # "Leave" /\ (e.link = "Error" => c[i].op = "DirEntryError")
          /\ e.link # "Error" => c[i].op = "Visit" /\ c[i].path = Append(v.path, e.name) /\ c[i].depth = v.depth + 1
      BY <2>3, <3>1, ChildrenTyped
    <3>3. e.name \in Name
      BY <3>2 DEF Entry
    <3>4. Parent(Append(v.path, e.name)) = v.path
      BY <2>4, <3>3, ParentOfEntry
    <3> HIDE DEF e, v
    <3> QED
      BY <3>2, <3>4
  <2>6. v.depth = n /\ (n > 0 => chain[n].path = Parent(v.path))
    <3>1. 1 \in DOMAIN stack /\ stack[1] = v
      BY <1>1, <2>3, PoppedStack
    <3>2. Below(stack[1], Level(stack, 1), chain)
      BY <1>1, <2>3, <3>1
    <3> QED
      BY <1>1, <3>1, <3>2
  <2>7. v.op # "Leave"
    BY <2>3
  <2>8. /\ \A i \in 1 .. Len(c) + 1 : Level(t, i) = n + 1
        /\ \A i \in 2 .. Len(stack) : Level(t, Len(c) + i) = Level(stack, i)
    BY <1>1, <2>3, <2>5, <2>7, LevelPushed
  <2>9. /\ \A i \in 1 .. Len(c) : i \in DOMAIN t /\ t[i] = c[i]
        /\ t[Len(c) + 1] = Leave /\ Len(c) \in Nat
        /\ \A i \in DOMAIN t : i \in 1 .. Len(c) \/ i = Len(c) + 1
                               \/ (i - Len(c) \in 2 .. Len(stack) /\ t[i] = stack[i - Len(c)])
    BY <1>1, <2>3, PushedStack
  <2>10. \A i \in 2 .. Len(stack) : i \in DOMAIN stack /\ Level(stack, i) \in Nat /\ Level(stack, i) <= n
    <3> SUFFICES ASSUME NEW i \in 2 .. Len(stack)
                 PROVE  i \in DOMAIN stack /\ Level(stack, i) \in Nat /\ Level(stack, i) <= n
      OBVIOUS
    <3>1. stack \in Seq(Work) /\ i \in DOMAIN stack /\ i \in Nat /\ 1 \in Nat /\ 1 <= i
      BY <1>1
    <3>2. Level(stack, i) \in Nat
      BY <3>1, LeavesFinite
    <3>3. Level(stack, i) <= Level(stack, 1)
      BY <3>1, LevelDecreases
    <3> QED
      BY <1>1, <3>1, <3>2, <3>3
  <2>11. n \in Nat /\ Len(ch) = n + 1 /\ ch[n + 1] = f /\ \A i \in 1 .. n : ch[i] = chain[i]
    BY <1>1, <2>4
  <2> HIDE DEF v, f, t, ch, n
  <2>12. Len(ch) = Level(t, 1)
    <3>1. 1 \in 1 .. Len(c) + 1
      BY <2>9
    <3> QED
      BY <2>8, <2>11, <3>1
  <2>13. ASSUME NEW i \in 1 .. Len(ch) - 1 PROVE ch[i].path = Parent(ch[i + 1].path)
    <3>1. CASE i = n
      BY <2>4, <2>6, <2>11, <3>1
    <3>2. CASE i # n
      <4>1. i \in 1 .. n - 1 /\ i + 1 \in 1 .. n /\ i \in 1 .. n
        BY <2>11, <3>2
      <4> QED
        BY <1>1, <2>11, <4>1 DEF n
    <3> QED
      BY <3>1, <3>2
  <2>14. ASSUME NEW i \in DOMAIN t, t[i].op = "Visit" PROVE Below(t[i], Level(t, i), ch)
    <3>1. CASE i \in 1 .. Len(c)
      <4>1. t[i] = c[i] /\ c[i].depth = n + 1 /\ Parent(c[i].path) = f.path
        BY <2>4, <2>5, <2>6, <2>9, <2>14, <3>1
      <4>2. Level(t, i) = n + 1
        BY <2>8, <2>9, <3>1
      <4> QED
        BY <2>11, <4>1, <4>2
    <3>2. CASE i = Len(c) + 1
      BY <2>9, <2>14, <3>2 DEF Leave
    <3>3. CASE i - Len(c) \in 2 .. Len(stack) /\ t[i] = stack[i - Len(c)]
      <4> DEFINE k == i - Len(c)
                 l == Level(stack, k)
      <4>1. k \in 2 .. Len(stack) /\ t[i] = stack[k] /\ k \in DOMAIN stack /\ l \in Nat /\ l <= n
        BY <2>10, <3>3
      <4>2. i = Len(c) + k
        BY <2>9, <3>3, <2>14
      <4>3. Level(t, i) = l
        BY <2>8, <4>1, <4>2
      <4>4. Below(stack[k], l, chain)
        BY <1>1, <2>14, <4>1
      <4> HIDE DEF k, l
      <4>5. l > 0 => ch[l] = chain[l]
        BY <2>11, <4>1
      <4> QED
        BY <4>1, <4>3, <4>4, <4>5
    <3> QED
      BY <2>9, <3>1, <3>2, <3>3
  <2> HIDE DEF Below
  <2> QED
    BY <1>2, <2>3, <2>12, <2>13, <2>14
<1>6. CASE Ends
  BY <1>6 DEF Ends, ActiveInv, Level, Parent
<1> QED
  BY <1>3, <1>4, <1>5, <1>6, StepKinds

\* All pending work hangs below the active path.
LEMMA ActiveAlways == Spec => []ActiveInv
<1>1. Init => ActiveInv
  <2> SUFFICES ASSUME Init PROVE ActiveInv
    OBVIOUS
  <2> DEFINE r == Visit(disk.realPath[Root], <<>>, 0, RootEntry(disk))
  <2>1. stack = <<r>> /\ chain = <<>> /\ r.op = "Visit" /\ r.depth = 0
    BY DEF Init, Visit
  <2> HIDE DEF r
  <2>2. DOMAIN stack = {1} /\ stack[1] = r /\ Len(chain) = 0
    BY <2>1
  <2>3. Leaves(stack, 1) = {} /\ Level(stack, 1) = Cardinality(Leaves(stack, 1))
    BY <2>1, <2>2 DEF Leaves, Level
  <2>4. Level(stack, 1) = 0
    BY <2>3, FS_EmptySet
  <2> QED
    BY <2>1, <2>2, <2>4 DEF ActiveInv
<1>2. TypeOK /\ TypeOK' /\ ActiveInv /\ [Next]_vars => ActiveInv'
  BY ActiveStep
<1> QED
  BY <1>1, <1>2, WalkTypeCorrect, PTL DEF Spec

\* LoopDetector.chain is the active recursion path and nothing else, whatever links, errors,
\* depth limits and cancellations the walk meets: enter and leave are called in pairs around
\* the whole subtree, so a link is called a cycle only if it leads to a directory it is in.
THEOREM ChainIsActivePathAlways == Spec => []ChainIsActivePath
<1>1. TypeOK /\ ActiveInv => ChainIsActivePath
  <2> SUFFICES ASSUME TypeOK, ActiveInv PROVE ChainIsActivePath
    OBVIOUS
  <2>1. stack \in Seq(Work) /\ DOMAIN stack = 1 .. Len(stack) /\ Len(stack) \in Nat
    BY DEF TypeOK
  <2>2. {j \in DOMAIN stack : j >= 1 /\ stack[j].op = "Leave"} = {i \in DOMAIN stack : stack[i].op = "Leave"}
    BY <2>1
  <2>3. Len(chain) = Cardinality({i \in DOMAIN stack : stack[i].op = "Leave"})
    BY <2>2 DEF ActiveInv, Level
  <2>4. chain # <<>> => Len(chain) > 0
    BY DEF TypeOK
  <2>5. stack # <<>> => 1 \in DOMAIN stack /\ stack[1] = Head(stack)
    BY <2>1
  <2> QED
    BY <2>3, <2>4, <2>5 DEF ActiveInv, ChainIsActivePath
<1> QED
  BY <1>1, ActiveAlways, WalkTypeCorrect, PTL

----------------------------------------------------------------------------
\* What on_item received stays, and the new items come after it.
LEMMA ItemsGrow ==
    ASSUME NEW a \in Seq(Item), NEW new \in Seq(Item)
    PROVE  LET b == a \o new IN
           /\ Len(a) \in Nat /\ DOMAIN a = 1 .. Len(a) /\ Len(b) = Len(a) + Len(new) /\ DOMAIN b = 1 .. Len(b)
           /\ \A i \in DOMAIN a : i \in DOMAIN b /\ b[i] = a[i]
           /\ \A k \in DOMAIN new : Len(a) + k \in DOMAIN b /\ b[Len(a) + k] = new[k]
           /\ \A i \in DOMAIN b : i \in DOMAIN a \/ (i - Len(a) \in DOMAIN new /\ b[i] = new[i - Len(a)])
  OBVIOUS

\* A step that enters no directory enumerates none.
LEMMA NoEnumeration ==
    ASSUME TypeOK, PopsAndTells \/ LeaveDirectory \/ Ends
    PROVE  /\ Enumerations' = Enumerations /\ Len(items) <= Len(items')
           /\ \A i \in DOMAIN items : i \in DOMAIN items' /\ items'[i] = items[i]
<1>0. items \in Seq(Item) /\ Len(items) \in Nat
  BY DEF TypeOK
<1>1. CASE PopsAndTells
  <2>1. PICK new : Tells(new)
    BY <1>1 DEF PopsAndTells
  <2>2. new \in Seq(Item) /\ items' = items \o new /\ \A i \in DOMAIN new : new[i].kind = "Object" => ~ new[i].descends
    BY <2>1 DEF Tells
  <2> DEFINE b == items \o new
  <2>3. /\ Len(items) <= Len(b)
        /\ \A i \in DOMAIN items : i \in DOMAIN b /\ b[i] = items[i]
        /\ \A i \in DOMAIN b : i \in DOMAIN items \/ (b[i].kind = "Object" => ~ b[i].descends)
    <3>1. Len(b) = Len(items) + Len(new) /\ Len(new) \in Nat
      BY <1>0, <2>2
    <3>2. /\ \A i \in DOMAIN items : i \in DOMAIN b /\ b[i] = items[i]
          /\ \A i \in DOMAIN b : i \in DOMAIN items \/ (i - Len(items) \in DOMAIN new /\ b[i] = new[i - Len(items)])
      BY <1>0, <2>2, ItemsGrow
    <3> HIDE DEF b
    <3> QED
      BY <1>0, <2>2, <3>1, <3>2
  <2>4. items' = b
    BY <2>2
  <2> HIDE DEF b
  <2> QED
    BY <2>3, <2>4 DEF Enumerations, Objects
<1>2. CASE LeaveDirectory \/ Ends
  BY <1>0, <1>2 DEF LeaveDirectory, Ends, Enumerations, Objects
<1> QED
  BY <1>1, <1>2

\* Entering a directory enumerates at most that one.
LEMMA OneEnumeration ==
    ASSUME TypeOK, NEW p, NEW c, NEW new, Enters(p, c, new)
    PROVE  LET m == Len(items) + 1 IN
           /\ Enumerations \subseteq Enumerations' /\ Len(items) \in Nat /\ m <= Len(items')
           /\ Enumerations' \subseteq Enumerations \cup {m}
           /\ m \in DOMAIN items' /\ items'[m] = new[1] /\ (m \in Enumerations' <=> new[1].descends)
           /\ \A i \in DOMAIN items : i \in DOMAIN items' /\ items'[i] = items[i] /\ i < m
<1>0. items \in Seq(Item) /\ Len(items) \in Nat /\ DOMAIN items = 1 .. Len(items)
  BY DEF TypeOK
<1>1. /\ new \in Seq(Item) /\ new # <<>> /\ items' = items \o new /\ new[1].kind = "Object"
      /\ \A i \in DOMAIN new : i # 1 => new[i].kind # "Object"
  BY DEF Enters
<1> DEFINE b == items \o new
           m == Len(items) + 1
<1>2. 1 \in DOMAIN new /\ Len(new) \in Nat /\ Len(new) >= 1 /\ DOMAIN new = 1 .. Len(new)
  BY <1>1
<1>3. /\ Len(b) = Len(items) + Len(new)
      /\ \A i \in DOMAIN items : i \in DOMAIN b /\ b[i] = items[i]
      /\ m \in DOMAIN b /\ b[m] = new[1]
      /\ \A i \in DOMAIN b : i \in DOMAIN items \/ (i - Len(items) \in DOMAIN new /\ b[i] = new[i - Len(items)])
  BY <1>0, <1>1, <1>2, ItemsGrow
<1>4. items' = b
  BY <1>1
<1>5. DOMAIN b = 1 .. Len(b)
  BY <1>0, <1>1, ItemsGrow
<1> HIDE DEF b
<1>6. \A i \in DOMAIN b : i \in DOMAIN items \/ i = m \/ b[i].kind # "Object"
  <2> SUFFICES ASSUME NEW i \in DOMAIN b, i \notin DOMAIN items, i # m PROVE b[i].kind # "Object"
    OBVIOUS
  <2>1. i - Len(items) # 1
    BY <1>0, <1>3, <1>5
  <2> QED
    BY <1>1, <1>3, <2>1
<1>7. m <= Len(b) /\ \A i \in DOMAIN items : i < m
  BY <1>0, <1>2, <1>3
<1>8. m \notin DOMAIN items
  BY <1>0
<1> HIDE DEF m
<1>9. Enumerations' = {i \in DOMAIN b : b[i].kind = "Object" /\ b[i].descends}
  BY <1>4 DEF Enumerations, Objects
<1>10. Enumerations = {i \in DOMAIN items : items[i].kind = "Object" /\ items[i].descends}
  BY DEF Enumerations, Objects
<1>11. Enumerations \subseteq Enumerations' /\ Enumerations' \subseteq Enumerations \cup {m}
  BY <1>3, <1>6, <1>9, <1>10
<1>12. m \in Enumerations' <=> new[1].descends
  BY <1>1, <1>3, <1>9
<1> QED
  BY <1>0, <1>3, <1>4, <1>7, <1>11, <1>12 DEF m

\* A step keeps the canonical paths of a local disk the real ones.
LEMMA CanonicalStep ==
    ASSUME TypeOK, TypeOK', CanonicalInv, [Next]_vars
    PROVE  CanonicalInv'
<1> DEFINE Real(w) == w.op = "Visit" /\ w.link # "Broken" => Canonical(w) = disk.realPath[w.node]
<1>1. stack \in Seq(Work) /\ (~ disk.remote => \A i \in DOMAIN stack : Real(stack[i]))
  BY DEF TypeOK, CanonicalInv
<1>2. ASSUME NEW t, stack' = t, disk' = disk, ~ disk.remote => \A i \in DOMAIN t : Real(t[i])
      PROVE  CanonicalInv'
  BY <1>2 DEF CanonicalInv, Canonical
<1>3. CASE PopsAndTells \/ LeaveDirectory
  <2> DEFINE t == Tail(stack)
  <2>1. stack # <<>> /\ stack' = t /\ disk' = disk
    BY <1>3 DEF PopsAndTells, LeaveDirectory, Popped, Pop, kept
  <2>2. \A i \in DOMAIN t : i + 1 \in DOMAIN stack /\ t[i] = stack[i + 1]
    BY <1>1, <2>1, PoppedStack
  <2> HIDE DEF t, Real
  <2>3. ~ disk.remote => \A i \in DOMAIN t : Real(t[i])
    BY <1>1, <2>2
  <2> QED
    BY <1>2, <2>1, <2>3
<1>4. CASE \E p \in Probe : VisitDirectory(p)
  <2>1. PICK p \in Probe : VisitDirectory(p)
    BY <1>4
  <2>2. PICK c, new : Enters(p, c, new)
    BY <2>1, EntersDirectory
  <2> DEFINE v == Head(stack)
             t == Stacked(c, stack)
  <2>3. /\ stack # <<>> /\ v.op = "Visit" /\ v.link # "Broken" /\ c \in Seq(Work) /\ stack' = t
        /\ c = <<>> \/ c = Children(v)
        /\ disk' = disk
    BY <2>2 DEF Enters, kept
  <2>4. v.node \in Node /\ IsDisk(disk)
    BY <2>3, VisitTyped DEF TypeOK
  <2>5. /\ \A i \in 1 .. Len(c) : i \in DOMAIN t /\ t[i] = c[i]
        /\ t[Len(c) + 1] = Leave /\ Len(c) \in Nat
        /\ \A i \in DOMAIN t : i \in 1 .. Len(c) \/ i = Len(c) + 1
                               \/ (i - Len(c) \in 2 .. Len(stack) /\ t[i] = stack[i - Len(c)])
    BY <1>1, <2>3, PushedStack
  <2>6. \A i \in 2 .. Len(stack) : i \in DOMAIN stack
    BY <1>1
  <2>7. ~ disk.remote => Canonical(v) = disk.realPath[v.node]
    <3>1. 1 \in DOMAIN stack /\ stack[1] = v
      BY <1>1, <2>3, PoppedStack
    <3> QED
      BY <1>1, <2>3, <3>1
  <2>8. ASSUME ~ disk.remote, NEW i \in 1 .. Len(c) PROVE Real(c[i])
    <3> DEFINE e == disk.listing[v.node][i]
    <3>1. c = Children(v)
      BY <2>3
    <3>2. /\ e \in Entry /\ i \in 1 .. Len(disk.listing[v.node])
          /\ e.link = "Error" => c[i].op = "DirEntryError"
          /\ e.link # "Error" => /\ c[i].parent = Canonical(v) /\ c[i].name = e.name
                                 /\ c[i].node = e.node /\ c[i].link = e.link
      BY <2>3, <3>1, ChildrenTyped
    <3>3. i \in DOMAIN disk.listing[v.node]
      <4>1. disk.listing[v.node] \in Seq(Entry)
        BY <2>3, VisitTyped
      <4> QED
        BY <3>2, <4>1
    <3>4. /\ e.link = "No" => disk.realPath[e.node] = Append(disk.realPath[v.node], e.name)
          /\ e.link = "Hidden" => disk.remote
      BY <2>4, <3>3 DEF IsDisk
    <3>5. e.link \in Links
      BY <3>2 DEF Entry
    <3> HIDE DEF e, v
    <3> QED
      BY <2>7, <2>8, <3>2, <3>4, <3>5 DEF Canonical, Links
  <2> HIDE DEF t, v
  <2>9. ~ disk.remote => \A i \in DOMAIN t : Real(t[i])
    <3> SUFFICES ASSUME ~ disk.remote, NEW i \in DOMAIN t PROVE Real(t[i])
      OBVIOUS
    <3>1. Real(Leave)
      BY DEF Leave
    <3> HIDE DEF Real
    <3> QED
      BY <1>1, <2>5, <2>6, <2>8, <3>1
  <2> HIDE DEF Real
  <2> QED
    BY <1>2, <2>3, <2>9
<1>5. CASE Ends
  BY <1>1, <1>2, <1>5 DEF Ends
<1> QED
  BY <1>3, <1>4, <1>5, StepKinds

\* What an enumerated directory is remembered under.
Remembered(it, sn) ==
    /\ disk.remote /\ ~ it.identityUnknown => \E s \in sn : s.key = [by |-> "id", of |-> <<it.node>>]
    /\ ~ disk.remote => \E s \in sn : s.key = [by |-> "path", of |-> disk.realPath[it.node]]

\* A directory whose key is fresh has not been enumerated.
LEMMA SeenStep ==
    ASSUME TypeOK, CanonicalInv, SeenInv, EnumeratedOnce, [Next]_vars
    PROVE  SeenInv' /\ EnumeratedOnce'
<1>1. \A i \in Enumerations : Remembered(items[i], seen)
  BY DEF SeenInv, Remembered
<1>2. \A i, j \in Enumerations : i < j /\ items[i].node = items[j].node =>
          items[i].identityUnknown \/ items[j].identityUnknown
  BY DEF EnumeratedOnce
<1>3. ASSUME disk' = disk, \A i \in Enumerations' : Remembered(items'[i], seen') PROVE SeenInv'
  BY <1>3 DEF SeenInv, Remembered
<1>e. Enumerations \subseteq DOMAIN items
  BY DEF Enumerations, Objects
<1>4. CASE PopsAndTells \/ LeaveDirectory \/ Ends
  <2>1. /\ Enumerations' = Enumerations
        /\ \A i \in DOMAIN items : items'[i] = items[i]
    BY <1>4, NoEnumeration
  <2>2. seen' = seen /\ disk' = disk
    BY <1>4 DEF PopsAndTells, LeaveDirectory, Ends, kept
  <2>3. \A i \in Enumerations' : items'[i] = items[i]
    BY <1>e, <2>1
  <2>4. SeenInv'
    BY <1>1, <1>3, <2>1, <2>2, <2>3
  <2>5. EnumeratedOnce'
    BY <1>2, <2>1, <2>3 DEF EnumeratedOnce
  <2> QED
    BY <2>4, <2>5
<1>5. CASE \E p \in Probe : VisitDirectory(p)
  <2>1. PICK p \in Probe : VisitDirectory(p)
    BY <1>5
  <2>2. PICK c, new : Enters(p, c, new)
    BY <2>1, EntersDirectory
  <2> DEFINE v == Head(stack)
             key == select_loop_key(v, p)
             m == Len(items) + 1
  <2>3. /\ stack # <<>> /\ v.op = "Visit" /\ v.link # "Broken" /\ IsFresh(key)
        /\ seen' = seen \cup {[key |-> key, path |-> v.path]}
        /\ new[1].node = v.node
        /\ new[1].descends => (new[1].identityUnknown <=> disk.remote /\ ~ p.id)
        /\ disk' = disk
    BY <2>2 DEF Enters, kept
  <2>4. /\ Enumerations' \subseteq Enumerations \cup {m} /\ Len(items) \in Nat
        /\ items'[m] = new[1] /\ (m \in Enumerations' => new[1].descends)
        /\ \A i \in DOMAIN items : items'[i] = items[i] /\ i < m
    BY <2>2, OneEnumeration
  <2>5. \A s \in seen : s.key # key
    BY <2>3 DEF IsFresh, IsDuplicate
  <2>6. ~ disk.remote => Canonical(v) = disk.realPath[v.node]
    <3>1. stack \in Seq(Work)
      BY DEF TypeOK
    <3>2. 1 \in DOMAIN stack /\ stack[1] = v
      BY <2>3, <3>1, PoppedStack
    <3> QED
      BY <2>3, <3>2 DEF CanonicalInv
  <2>7. disk.remote \in BOOLEAN /\ p.id \in BOOLEAN
    BY DEF TypeOK, IsDisk, Probe
  <2>8. /\ ~ disk.remote => key = [by |-> "path", of |-> disk.realPath[v.node]]
        /\ disk.remote /\ p.id => key = [by |-> "id", of |-> <<v.node>>]
    BY <2>6, <2>7 DEF select_loop_key
  <2> HIDE DEF v, key, m
  <2>9. m \in Enumerations' => Remembered(items'[m], seen')
    <3> SUFFICES ASSUME new[1].descends PROVE Remembered(new[1], seen')
      BY <2>4
    <3>1. \E s \in seen' : s.key = key
      <4> DEFINE g == [key |-> key, path |-> v.path]
      <4>1. g.key = key /\ seen' = seen \cup {g}
        BY <2>3
      <4> HIDE DEF g
      <4> QED
        BY <4>1
    <3>2. CASE disk.remote
      <4>1. ~ new[1].identityUnknown => key = [by |-> "id", of |-> <<new[1].node>>]
        BY <2>3, <2>7, <2>8, <3>2
      <4> QED
        BY <3>1, <3>2, <4>1 DEF Remembered
    <3>3. CASE ~ disk.remote
      <4>1. key = [by |-> "path", of |-> disk.realPath[new[1].node]]
        BY <2>3, <2>8, <3>3
      <4> QED
        BY <3>1, <3>3, <4>1 DEF Remembered
    <3> QED
      BY <3>2, <3>3
  <2>10. \A i \in Enumerations : items'[i] = items[i] /\ i < m /\ Remembered(items'[i], seen')
    BY <1>1, <1>e, <2>3, <2>4 DEF Remembered
  <2>11. SeenInv'
    BY <1>3, <2>3, <2>4, <2>9, <2>10
  <2>12. ASSUME NEW i \in Enumerations, m \in Enumerations', items[i].node = new[1].node
         PROVE  items[i].identityUnknown \/ new[1].identityUnknown
    <3>1. new[1].descends /\ items[i].node = v.node
      BY <2>3, <2>4, <2>12
    <3>2. CASE disk.remote
      BY <1>1, <2>3, <2>5, <2>7, <2>8, <3>1, <3>2 DEF Remembered
    <3>3. CASE ~ disk.remote
      BY <1>1, <2>5, <2>8, <3>1, <3>3 DEF Remembered
    <3> QED
      BY <3>2, <3>3
  <2>13. EnumeratedOnce'
    <3> SUFFICES ASSUME NEW i \in Enumerations', NEW j \in Enumerations', i < j, items'[i].node = items'[j].node
                 PROVE  items'[i].identityUnknown \/ items'[j].identityUnknown
      BY DEF EnumeratedOnce
    <3>1. i # m
      <4> SUFFICES ASSUME i = m PROVE FALSE
        OBVIOUS
      <4>1. j \in Enumerations \/ j = m
        BY <2>4
      <4>2. ~ (m < j)
        <5>1. CASE j = m
          BY <2>4, <5>1 DEF m
        <5>2. CASE j \in Enumerations
          <6>1. j < m /\ j \in Nat /\ m \in Nat
            BY <1>e, <2>4, <2>10, <5>2 DEF m, TypeOK
          <6> QED
            BY <6>1
        <5> QED
          BY <4>1, <5>1, <5>2
      <4> QED
        BY <4>2
    <3>2. i \in Enumerations /\ items'[i] = items[i]
      BY <2>4, <2>10, <3>1
    <3>3. CASE j = m
      BY <2>4, <2>12, <3>2, <3>3
    <3>4. CASE j \in Enumerations
      BY <1>2, <2>10, <3>2, <3>4
    <3> QED
      BY <2>4, <3>3, <3>4
  <2> QED
    BY <2>11, <2>13
<1> QED
  BY <1>4, <1>5, StepKinds

\* "Each distinct directory is enumerated exactly once", by whatever routes links lead to it
\* and in whatever order the stack is worked off, unless a row says that the identity of the
\* directory was unknown: then, over SMB, the walk falls back to the path.
THEOREM EnumeratedOnceAlways == Spec => []EnumeratedOnce
<1>1. Init => CanonicalInv /\ SeenInv /\ EnumeratedOnce
  <2> SUFFICES ASSUME Init PROVE CanonicalInv /\ SeenInv /\ EnumeratedOnce
    OBVIOUS
  <2> DEFINE r == Visit(disk.realPath[Root], <<>>, 0, RootEntry(disk))
  <2>1. stack = <<r>> /\ items = <<>>
    BY DEF Init
  <2>2. Canonical(r) = disk.realPath[r.node]
    BY DEF Canonical, Visit
  <2> HIDE DEF r
  <2>3. DOMAIN stack = {1} /\ stack[1] = r /\ DOMAIN items = {}
    BY <2>1
  <2>4. Enumerations = {}
    BY <2>3 DEF Enumerations, Objects
  <2> QED
    BY <2>2, <2>3, <2>4 DEF CanonicalInv, SeenInv, EnumeratedOnce
<1>2. TypeOK /\ TypeOK' /\ CanonicalInv /\ [Next]_vars => CanonicalInv'
  BY CanonicalStep
<1>3. TypeOK /\ CanonicalInv /\ SeenInv /\ EnumeratedOnce /\ [Next]_vars => SeenInv' /\ EnumeratedOnce'
  BY SeenStep
<1> QED
  BY <1>1, <1>2, <1>3, WalkTypeCorrect, PTL DEF Spec

----------------------------------------------------------------------------
\* A piece of work is the one an entry of a directory at a path is waiting for, and an item
\* is the one that tells it.
WaitsFor(w, path, e) ==
    IF e.link = "Error" THEN w.op = "DirEntryError" /\ w.path = path
    ELSE w.op = "Visit" /\ w.path = Append(path, e.name)
TellsOf(it, path, e) ==
    IF e.link = "Error" THEN it.kind = "EntryError" /\ it.path = path
    ELSE it.path = Append(path, e.name)

\* An entry stays told or pending when the work on top is told or is not its own, and the
\* rest of the stack stays.
LEMMA EntryKept ==
    ASSUME TypeOK, NEW i \in DOMAIN items, NEW e, Told(i, e) \/ Pending(i, e),
           NEW b, items' = b, Len(items) <= Len(b), Len(b) \in Nat, \A k \in DOMAIN items : b[k] = items[k],
           NEW t, stack' = t,
           \A m \in DOMAIN stack : m # 1 => \E n \in DOMAIN t : t[n] = stack[m],
           stack # <<>> /\ WaitsFor(Head(stack), items[i].path, e) =>
               \E j \in Len(items) + 1 .. Len(b) : TellsOf(b[j], items[i].path, e)
    PROVE  (Told(i, e) \/ Pending(i, e))'
<1>0. /\ items \in Seq(Item) /\ DOMAIN items = 1 .. Len(items) /\ Len(items) \in Nat /\ i \in 1 .. Len(items)
      /\ b[i] = items[i]
  BY DEF TypeOK
<1> DEFINE path == items[i].path
<1>1. (\E j \in i + 1 .. Len(b) : TellsOf(b[j], path, e)) => Told(i, e)'
  <2>1. Told(i, e)' <=> \E j \in i + 1 .. Len(b) :
            IF e.link = "Error" THEN b[j].kind = "EntryError" /\ b[j].path = b[i].path
            ELSE b[j].path = Append(b[i].path, e.name)
    BY DEF Told
  <2> QED
    BY <1>0, <2>1 DEF TellsOf
<1>2. CASE Told(i, e)
  <2>1. PICK j \in i + 1 .. Len(items) : TellsOf(items[j], path, e)
    BY <1>2 DEF Told, TellsOf
  <2>2. j \in DOMAIN items /\ j \in i + 1 .. Len(b)
    BY <1>0
  <2>3. b[j] = items[j]
    BY <2>2
  <2> QED
    BY <1>1, <2>1, <2>2, <2>3
<1>3. CASE Pending(i, e)
  <2>1. PICK m \in DOMAIN stack : WaitsFor(stack[m], path, e)
    BY <1>3 DEF Pending, WaitsFor
  <2>2. stack \in Seq(Work)
    BY DEF TypeOK
  <2>3. CASE m = 1
    <3>1. stack # <<>> /\ Head(stack) = stack[m]
      BY <2>2, <2>3
    <3>2. PICK j \in Len(items) + 1 .. Len(b) : TellsOf(b[j], path, e)
      BY <2>1, <3>1
    <3>3. j \in i + 1 .. Len(b)
      BY <1>0
    <3> QED
      BY <1>1, <3>2, <3>3
  <2>4. CASE m # 1
    <3>1. PICK n \in DOMAIN t : t[n] = stack[m]
      BY <2>4
    <3>2. WaitsFor(t[n], b[i].path, e)
      BY <1>0, <2>1, <3>1
    <3>3. Pending(i, e)'
      BY <3>2 DEF Pending, WaitsFor
    <3> QED
      BY <3>3
  <2> QED
    BY <2>3, <2>4
<1> QED
  BY <1>2, <1>3

\* A step loses no entry of an enumerated directory.
LEMMA PendingStep ==
    ASSUME TypeOK, TypeOK', PendingInv, [Next]_vars
    PROVE  PendingInv'
<1>1. /\ stack \in Seq(Work) /\ items \in Seq(Item) /\ Len(items) \in Nat /\ DOMAIN items = 1 .. Len(items)
      /\ Len(items') \in Nat
  BY DEF TypeOK
<1>2. Enumerations \subseteq DOMAIN items
  BY DEF Enumerations, Objects
<1>t. stack # <<>> => \A m \in DOMAIN stack : m # 1 => \E n \in DOMAIN Tail(stack) : Tail(stack)[n] = stack[m]
  <2> SUFFICES ASSUME stack # <<>>, NEW m \in DOMAIN stack, m # 1
               PROVE  \E n \in DOMAIN Tail(stack) : Tail(stack)[n] = stack[m]
    OBVIOUS
  <2>1. m - 1 \in DOMAIN Tail(stack) /\ (m - 1) + 1 = m
    BY <1>1, PoppedStack
  <2>2. Tail(stack)[m - 1] = stack[(m - 1) + 1]
    BY <1>1, <2>1, PoppedStack
  <2> QED
    BY <2>1, <2>2
<1>3. CASE PopsAndTells \/ LeaveDirectory \/ Ends
  <2>1. /\ Enumerations' = Enumerations /\ Len(items) <= Len(items')
        /\ \A k \in DOMAIN items : items'[k] = items[k]
    BY <1>3, NoEnumeration
  <2>2. disk' = disk
    BY <1>3 DEF PopsAndTells, LeaveDirectory, Ends, kept
  <2> SUFFICES ASSUME NEW i \in Enumerations, NEW e \in Entries(i)
               PROVE  (Told(i, e) \/ Pending(i, e))'
    <3>1. \A i \in Enumerations : items'[i] = items[i]
      BY <1>2, <2>1
    <3> QED
      BY <2>1, <2>2, <3>1 DEF PendingInv, Entries
  <2>3. i \in DOMAIN items /\ (Told(i, e) \/ Pending(i, e))
    BY <1>2 DEF PendingInv
  <2>4. CASE PopsAndTells
    <3>1. PICK new : Tells(new)
      BY <2>4 DEF PopsAndTells
    <3>2. /\ stack # <<>> /\ stack' = Tail(stack) /\ new \in Seq(Item) /\ new # <<>> /\ items' = items \o new
          /\ new[1].path = Head(stack).path
          /\ Head(stack).op = "DirEntryError" => new[1].kind = "EntryError"
      BY <2>4, <3>1 DEF PopsAndTells, Tells
    <3>3. 1 \in DOMAIN new /\ Len(new) >= 1 /\ Len(new) \in Nat
      BY <3>2
    <3>4. items'[Len(items) + 1] = new[1] /\ Len(items') = Len(items) + Len(new)
      BY <1>1, <3>2, <3>3, ItemsGrow
    <3>5. Len(items) + 1 \in Len(items) + 1 .. Len(items')
      BY <1>1, <3>3, <3>4
    <3>6. WaitsFor(Head(stack), items[i].path, e) => TellsOf(new[1], items[i].path, e)
      BY <3>2 DEF WaitsFor, TellsOf
    <3>7. WaitsFor(Head(stack), items[i].path, e) =>
            \E j \in Len(items) + 1 .. Len(items') : TellsOf(items'[j], items[i].path, e)
      BY <3>4, <3>5, <3>6
    <3>8. \A k \in DOMAIN stack : k # 1 => \E n \in DOMAIN stack' : stack'[n] = stack[k]
      BY <1>t, <3>2
    <3> QED
      BY <1>1, <2>1, <2>3, <3>7, <3>8, EntryKept
  <2>5. CASE LeaveDirectory
    <3>1. stack # <<>> /\ stack' = Tail(stack) /\ Head(stack).op = "Leave"
      BY <2>5 DEF LeaveDirectory, Popped, Pop
    <3>2. ~ WaitsFor(Head(stack), items[i].path, e)
      BY <3>1 DEF WaitsFor
    <3> QED
      BY <1>1, <1>t, <2>1, <2>3, <3>1, <3>2, EntryKept
  <2>6. CASE Ends
    <3>1. stack' = stack /\ items' = items
      BY <2>6 DEF Ends
    <3> QED
      BY <2>3, <3>1 DEF Told, Pending
  <2> QED
    BY <1>3, <2>4, <2>5, <2>6
<1>4. CASE \E p \in Probe : VisitDirectory(p)
  <2>1. PICK p \in Probe : VisitDirectory(p)
    BY <1>4
  <2>2. PICK c, new : Enters(p, c, new)
    BY <2>1, EntersDirectory
  <2> DEFINE v == Head(stack)
             t == Stacked(c, stack)
  <2>m. PICK m : m = Len(items) + 1
    OBVIOUS
  <2>3. /\ stack # <<>> /\ v.op = "Visit" /\ c \in Seq(Work) /\ stack' = t
        /\ new[1].path = v.path /\ new[1].node = v.node /\ (new[1].descends => c = Children(v))
        /\ disk' = disk
    BY <2>2 DEF Enters, kept
  <2>4. /\ Enumerations' \subseteq Enumerations \cup {m} /\ m <= Len(items')
        /\ items'[m] = new[1] /\ (m \in Enumerations' => new[1].descends)
        /\ \A i \in DOMAIN items : items'[i] = items[i] /\ i < m
    BY <2>2, <2>m, OneEnumeration
  <2>5. /\ \A i \in 1 .. Len(c) : i \in DOMAIN t /\ t[i] = c[i]
        /\ \A i \in 2 .. Len(stack) : Len(c) + i \in DOMAIN t /\ t[Len(c) + i] = stack[i]
    BY <1>1, <2>3, PushedStack
  <2>6. \A k \in DOMAIN stack : k # 1 => \E n \in DOMAIN t : t[n] = stack[k]
    <3>1. \A k \in DOMAIN stack : k # 1 => k \in 2 .. Len(stack)
      BY <1>1
    <3> HIDE DEF t
    <3> QED
      BY <2>5, <3>1
  <2>7. ASSUME NEW i \in Enumerations, NEW e \in Entries(i)
        PROVE  (Told(i, e) \/ Pending(i, e))'
    <3>1. i \in DOMAIN items /\ (Told(i, e) \/ Pending(i, e))
      BY <1>2 DEF PendingInv
    <3>2. m \in Len(items) + 1 .. Len(items') /\ Len(items) <= Len(items')
      BY <1>1, <2>4, <2>m
    <3>3. WaitsFor(Head(stack), items[i].path, e) => TellsOf(items'[m], items[i].path, e)
      BY <2>3, <2>4 DEF WaitsFor, TellsOf
    <3> HIDE DEF t
    <3> QED
      BY <1>1, <2>3, <2>4, <2>6, <3>1, <3>2, <3>3, EntryKept
  <2>8. ASSUME m \in Enumerations', NEW e \in Entries(m)'
        PROVE  Pending(m, e)'
    <3>1. c = Children(v) /\ items'[m].path = v.path /\ items'[m].node = v.node
      BY <2>3, <2>4, <2>8
    <3>2. PICK k \in DOMAIN disk.listing[v.node] : e = disk.listing[v.node][k]
      BY <2>3, <2>8, <3>1 DEF Entries
    <3>3. k \in 1 .. Len(c)
      <4>1. disk.listing[v.node] \in Seq(Entry)
        BY <2>3, VisitTyped
      <4>2. Len(c) = Len(disk.listing[v.node])
        BY <2>3, <3>1, ChildrenTyped
      <4> QED
        BY <4>1, <4>2
    <3>4. WaitsFor(c[k], v.path, e)
      BY <2>3, <3>1, <3>2, <3>3, ChildrenTyped DEF WaitsFor
    <3> HIDE DEF t, v
    <3>5. k \in DOMAIN t /\ WaitsFor(t[k], items'[m].path, e)
      BY <2>5, <3>1, <3>3, <3>4
    <3> QED
      BY <2>3, <3>5 DEF Pending, WaitsFor
  <2> HIDE DEF t, v
  <2> SUFFICES ASSUME NEW i \in Enumerations', NEW e \in Entries(i)'
               PROVE  (Told(i, e) \/ Pending(i, e))'
    BY DEF PendingInv
  <2>9. CASE i = m
    BY <2>8, <2>9
  <2>10. CASE i \in Enumerations
    <3>1. e \in Entries(i)
      BY <1>2, <2>3, <2>4, <2>10 DEF Entries
    <3> QED
      BY <2>7, <2>10, <3>1
  <2> QED
    BY <2>4, <2>9, <2>10
<1> QED
  BY <1>3, <1>4, StepKinds

\* A walk that no longer runs has nothing left to do or was cancelled, and says so.
LEMMA EndStep ==
    ASSUME TypeOK, EndInv, [Next]_vars
    PROVE  EndInv'
<1> USE DEF EndInv, PartialIsReported
<1>1. ASSUME status = "walking", status' = "walking" PROVE EndInv'
  BY <1>1
<1>2. CASE status = "walking" /\ status' = status
  BY <1>1, <1>2
<1>3. CASE LeaveDirectory \/ DirEntryError \/ VisitUnreadable
  BY <1>2, <1>3 DEF LeaveDirectory, DirEntryError, VisitUnreadable, Popped, kept
<1>4. CASE VisitProbed
  <2>1. PICK p : \/ VisitOtherShare(p) \/ VisitBrokenLink(p) \/ VisitFile(p)
                 \/ VisitCycle(p) \/ VisitDuplicate(p) \/ VisitDirectory(p)
    BY <1>4 DEF VisitProbed
  <2>2. status = "walking" /\ UNCHANGED kept
    BY <2>1 DEF VisitOtherShare, VisitBrokenLink, VisitFile, VisitCycle, VisitDuplicate, VisitDirectory, Popped
  <2> QED
    BY <1>2, <2>2 DEF kept
<1>5. CASE WalkEnds
  BY <1>5 DEF WalkEnds
<1>6. CASE Return
  BY <1>6 DEF Return
<1>7. CASE Cancel
  BY <1>7 DEF Cancel
<1>8. CASE UNCHANGED vars
  BY <1>8 DEF vars
<1> QED
  BY <1>3, <1>4, <1>5, <1>6, <1>7, <1>8 DEF Next, WalkerStep, Finished

\* The end of the walk, and what is told and pending, together.
LEMMA NothingIsLost == Spec => [](TypeOK /\ PendingInv /\ EndInv)
<1>1. Init => PendingInv /\ EndInv
  <2> SUFFICES ASSUME Init PROVE PendingInv /\ EndInv
    OBVIOUS
  <2>1. DOMAIN items = {} /\ status = "walking"
    BY DEF Init
  <2>2. Enumerations = {}
    BY <2>1 DEF Enumerations, Objects
  <2> QED
    BY <2>1, <2>2 DEF PendingInv, EndInv, PartialIsReported
<1>2. TypeOK /\ TypeOK' /\ PendingInv /\ [Next]_vars => PendingInv'
  BY PendingStep
<1>3. TypeOK /\ EndInv /\ [Next]_vars => EndInv'
  BY EndStep
<1> QED
  BY <1>1, <1>2, <1>3, WalkTypeCorrect, PTL DEF Spec

\* "Never silent skips": once walk_dir has returned uncancelled, every entry of every listed
\* directory has its row or its error, the entries read_dir could not deliver, the links and
\* the directories that cannot be read or are too deep included.
THEOREM NoSilentSkipAlways == Spec => []NoSilentSkip
<1>1. TypeOK /\ PendingInv /\ EndInv => NoSilentSkip
  <2> SUFFICES ASSUME TypeOK, PendingInv, EndInv, status # "walking", ~ cancel,
                      NEW i \in Enumerations, NEW e \in Entries(i)
               PROVE  Told(i, e)
    BY DEF NoSilentSkip
  <2>1. stack = <<>>
    BY DEF EndInv
  <2>2. DOMAIN stack = {}
    BY <2>1
  <2> QED
    BY <2>2 DEF PendingInv, Pending
<1> QED
  BY <1>1, NothingIsLost, PTL

\* A walk with work left undone is returned as cancelled, whenever the other thread sets the
\* token: walk_tree_streaming reads it after walk_dir has returned.
THEOREM PartialIsReportedAlways == Spec => []PartialIsReported
<1>1. EndInv => PartialIsReported
  BY DEF EndInv
<1> QED
  BY <1>1, NothingIsLost, PTL

----------------------------------------------------------------------------
\* The prefixes of a path.
LEMMA PrefixOfPrefix ==
    ASSUME NEW c \in Path, NEW k \in Nat, NEW l \in Nat, k < l, l <= Len(c)
    PROVE  IsPrefix(Append(SubSeq(c, 1, k), c[k + 1]), SubSeq(c, 1, l))
<1> DEFINE a == SubSeq(c, 1, k)
           b == SubSeq(c, 1, l)
           s == Append(a, c[k + 1])
<1>1. /\ c \in Seq(Name) /\ a \in Seq(Name) /\ Len(a) = k /\ b \in Seq(Name) /\ Len(b) = l
      /\ \A i \in 1 .. k : a[i] = c[i]
      /\ \A i \in 1 .. l : b[i] = c[i]
      /\ c[k + 1] \in Name
  BY DEF Path
<1> HIDE DEF a, b
<1>2. /\ s \in Seq(Name) /\ Len(s) = k + 1 /\ s[k + 1] = c[k + 1] /\ \A i \in 1 .. k : s[i] = a[i]
  BY <1>1
<1> HIDE DEF s
<1>3. \A i \in 1 .. k + 1 : s[i] = b[i]
  BY <1>1, <1>2
<1>4. Len(s) <= Len(b) /\ Len(s) \in Nat /\ \A i \in 1 .. Len(s) : s[i] = b[i]
  BY <1>1, <1>2, <1>3
<1>5. SubSeq(s, 1, Len(s)) = SubSeq(b, 1, Len(s))
  BY <1>1, <1>2, <1>4
<1> QED
  BY <1>4, <1>5 DEF IsPrefix, s, a, b

\* Real paths lead through no link, so a canonical path has one point where it leaves them.
LEMMA OneLink ==
    ASSUME NEW d, IsDisk(d), NEW c \in Path,
           NEW k \in 0 .. Len(c), NEW at \in [k .. Len(c) -> Node], Follows(d, at, c, k),
           NEW l \in 0 .. Len(c), NEW bt \in [l .. Len(c) -> Node], Follows(d, bt, c, l)
    PROVE  ~ (k < l)
<1> SUFFICES ASSUME k < l PROVE FALSE
  OBVIOUS
<1>1. c \in Seq(Name) /\ Len(c) \in Nat /\ k \in Nat /\ l \in Nat /\ l <= Len(c)
  BY DEF Path
<1>2. k \in k .. Len(c) - 1 /\ k \in k .. Len(c) /\ l \in l .. Len(c)
  BY <1>1
<1>3. at[k] \in Node /\ bt[l] \in Node
  BY <1>2
<1>4. PICK j \in DOMAIN d.listing[at[k]] :
         d.listing[at[k]][j].name = c[k + 1] /\ d.listing[at[k]][j].link = "Hidden"
  BY <1>2 DEF Follows
<1>5. ~ IsPrefix(Append(d.realPath[at[k]], d.listing[at[k]][j].name), d.realPath[bt[l]])
  BY <1>3, <1>4 DEF IsDisk
<1>6. d.realPath[at[k]] = SubSeq(c, 1, k) /\ d.realPath[bt[l]] = SubSeq(c, 1, l)
  BY DEF Follows
<1>7. IsPrefix(Append(SubSeq(c, 1, k), c[k + 1]), SubSeq(c, 1, l))
  BY <1>1, PrefixOfPrefix
<1> QED
  BY <1>4, <1>5, <1>6, <1>7

\* A canonical path leads to one object.
LEMMA LeadsToOne ==
    ASSUME NEW d, IsDisk(d), NEW c \in Path, NEW m \in Node, NEW n \in Node,
           LeadsTo(d, c, m), LeadsTo(d, c, n)
    PROVE  m = n
<1>0. c \in Seq(Name) /\ Len(c) \in Nat
  BY DEF Path
<1>1. PICK k \in 0 .. Len(c) : \E at \in [k .. Len(c) -> Node] : at[Len(c)] = m /\ Follows(d, at, c, k)
  BY DEF LeadsTo
<1>2. PICK at \in [k .. Len(c) -> Node] : at[Len(c)] = m /\ Follows(d, at, c, k)
  BY <1>1
<1>3. PICK l \in 0 .. Len(c) : \E bt \in [l .. Len(c) -> Node] : bt[Len(c)] = n /\ Follows(d, bt, c, l)
  BY DEF LeadsTo
<1>4. PICK bt \in [l .. Len(c) -> Node] : bt[Len(c)] = n /\ Follows(d, bt, c, l)
  BY <1>3
<1>5. ~ (k < l)
  BY <1>2, <1>4, OneLink
<1>6. ~ (l < k)
  BY <1>2, <1>4, OneLink
<1>7. k = l /\ k \in Nat
  BY <1>0, <1>5, <1>6
<1>8. at[k] = bt[k]
  <2>1. k \in k .. Len(c)
    BY <1>0, <1>7
  <2>2. at[k] \in Node /\ bt[k] \in Node
    BY <1>7, <2>1
  <2>3. d.realPath[at[k]] = d.realPath[bt[k]]
    BY <1>2, <1>4, <1>7 DEF Follows
  <2> QED
    BY <2>2, <2>3 DEF IsDisk
<1> DEFINE T == {i \in k .. Len(c) : at[i] # bt[i]}
<1>9. T = {}
  <2> SUFFICES ASSUME T # {} PROVE FALSE
    OBVIOUS
  <2>1. T \subseteq Nat
    BY <1>0, <1>7
  <2>2. PICK x \in T : \A y \in T : x <= y
    BY <2>1, SmallestOf
  <2>3. x \in k .. Len(c) /\ at[x] # bt[x] /\ x # k
    BY <1>8, <2>2
  <2> DEFINE i == x - 1
  <2>4. i \in k .. Len(c) - 1 /\ i \in k .. Len(c) /\ ~ (x <= i) /\ i + 1 = x
    BY <1>0, <1>7, <2>3
  <2>5. i \notin T
    BY <2>2, <2>4
  <2>6. at[i] = bt[i] /\ at[i] \in Node
    BY <2>4, <2>5
  <2>7. PICK j \in DOMAIN d.listing[at[i]] : d.listing[at[i]][j].name = c[i + 1] /\ d.listing[at[i]][j].node = at[i + 1]
    BY <1>2, <2>4 DEF Follows
  <2>8. PICK h \in DOMAIN d.listing[bt[i]] : d.listing[bt[i]][h].name = c[i + 1] /\ d.listing[bt[i]][h].node = bt[i + 1]
    BY <1>4, <1>7, <2>4 DEF Follows
  <2>9. j = h
    <3> HIDE DEF i
    <3>1. /\ j \in DOMAIN d.listing[at[i]] /\ h \in DOMAIN d.listing[at[i]]
          /\ d.listing[at[i]][j].name = d.listing[at[i]][h].name
      BY <2>6, <2>7, <2>8
    <3>2. \A g1, g2 \in DOMAIN d.listing[at[i]] :
            g1 # g2 => d.listing[at[i]][g1].name # d.listing[at[i]][g2].name
      BY <2>6 DEF IsDisk
    <3> QED
      BY <3>1, <3>2
  <2> QED
    BY <2>3, <2>4, <2>6, <2>7, <2>8, <2>9
<1>10. Len(c) \in k .. Len(c)
  BY <1>0, <1>7
<1> QED
  BY <1>2, <1>4, <1>9, <1>10

\* A real path leads to its object.
LEMMA RealPathLeads ==
    ASSUME NEW d, IsDisk(d), NEW n \in Node
    PROVE  LeadsTo(d, d.realPath[n], n)
<1> DEFINE c  == d.realPath[n]
           k  == Len(c)
           at == [i \in k .. k |-> n]
<1>1. c \in Seq(Name)
  BY DEF IsDisk
<1>2. k \in Nat /\ SubSeq(c, 1, k) = c
  BY <1>1
<1>3. k \in 0 .. Len(c) /\ k \in k .. k /\ k .. Len(c) - 1 = {} /\ at \in [k .. k -> Node] /\ at[k] = n
  BY <1>2
<1>4. Follows(d, at, c, k)
  BY <1>2, <1>3 DEF Follows
<1> QED
  BY <1>3, <1>4 DEF LeadsTo

\* What is listed where a canonical path leads is found under that path and its name.
LEMMA EntryLeads ==
    ASSUME NEW d, IsDisk(d), NEW c \in Path, NEW n \in Node, LeadsTo(d, c, n),
           NEW j \in DOMAIN d.listing[n], d.listing[n][j].link \in {"No", "Hidden"}
    PROVE  LeadsTo(d, Append(c, d.listing[n][j].name), d.listing[n][j].node)
<1> DEFINE e == d.listing[n][j]
           c2 == Append(c, e.name)
           L == Len(c)
<1>1. e \in Entry
  BY DEF IsDisk
<1>2. e.name \in Name /\ e.node \in Node
  BY <1>1 DEF Entry
<1>3. c \in Seq(Name) /\ L \in Nat
  BY DEF Path
<1>4. c2 \in Seq(Name) /\ Len(c2) = L + 1 /\ c2[L + 1] = e.name /\ \A i \in 1 .. L : c2[i] = c[i]
  BY <1>2, <1>3
<1>5. PICK k \in 0 .. L : \E at \in [k .. L -> Node] : at[L] = n /\ Follows(d, at, c, k)
  BY DEF LeadsTo
<1>6. PICK at \in [k .. L -> Node] : at[L] = n /\ Follows(d, at, c, k)
  BY <1>5
<1>7. k \in Nat /\ k <= L /\ k \in 0 .. L + 1
  BY <1>3
<1> HIDE DEF L, c2
<1>8. CASE k = L /\ e.link = "No"
  <2>1. d.realPath[n] = SubSeq(c, 1, L)
    BY <1>6, <1>8 DEF Follows
  <2>2. SubSeq(c, 1, L) = c
    BY <1>3 DEF L
  <2>3. d.realPath[e.node] = Append(d.realPath[n], e.name)
    BY <1>8 DEF IsDisk
  <2>4. d.realPath[e.node] = c2
    BY <2>1, <2>2, <2>3 DEF c2
  <2> QED
    BY <1>2, <2>4, RealPathLeads DEF c2
<1>9. CASE ~ (k = L /\ e.link = "No")
  <2> DEFINE bt == [i \in k .. L + 1 |-> IF i = L + 1 THEN e.node ELSE at[i]]
  <2>1. bt \in [k .. L + 1 -> Node] /\ bt[L + 1] = e.node /\ \A i \in k .. L : bt[i] = at[i]
    BY <1>2, <1>3, <1>7
  <2> HIDE DEF bt
  <2>2. d.realPath[bt[k]] = SubSeq(c2, 1, k)
    <3>1. d.realPath[at[k]] = SubSeq(c, 1, k) /\ k \in k .. L
      BY <1>3, <1>6, <1>7 DEF Follows
    <3>2. SubSeq(c, 1, k) = SubSeq(c2, 1, k)
      <4>1. k <= Len(c) /\ k <= Len(c2) /\ \A i \in 1 .. k : c[i] = c2[i]
        BY <1>3, <1>4, <1>7 DEF L
      <4> QED
        BY <1>3, <1>4, <1>7, <4>1
    <3> QED
      BY <2>1, <3>1, <3>2
  <2>3. ASSUME NEW i \in k .. L
        PROVE  \E h \in DOMAIN d.listing[bt[i]] :
                 /\ d.listing[bt[i]][h].name = c2[i + 1] /\ d.listing[bt[i]][h].node = bt[i + 1]
                 /\ i = k => d.listing[bt[i]][h].link = "Hidden"
    <3>1. CASE i = L
      BY <1>3, <1>4, <1>6, <1>9, <2>1, <3>1
    <3>2. CASE i # L
      <4>1. i \in k .. L - 1 /\ i + 1 \in k .. L /\ i + 1 \in 1 .. L
        BY <1>3, <1>7, <3>2
      <4>2. PICK h \in DOMAIN d.listing[at[i]] :
              /\ d.listing[at[i]][h].name = c[i + 1] /\ d.listing[at[i]][h].node = at[i + 1]
              /\ i = k => d.listing[at[i]][h].link = "Hidden"
        BY <1>6, <4>1 DEF Follows, L
      <4>3. bt[i] = at[i] /\ bt[i + 1] = at[i + 1] /\ c2[i + 1] = c[i + 1]
        BY <1>4, <2>1, <4>1
      <4> QED
        BY <4>2, <4>3
    <3> QED
      BY <3>1, <3>2
  <2>4. k .. L = k .. (L + 1) - 1
    BY <1>3, <1>7
  <2>5. Follows(d, bt, c2, k)
    BY <1>4, <2>2, <2>3, <2>4 DEF Follows
  <2> QED
    BY <1>4, <1>7, <2>1, <2>5 DEF LeadsTo, c2
<1> QED
  BY <1>8, <1>9

\* The disk and the limit stay what they are.
LEMMA StepDisk ==
    ASSUME [Next]_vars
    PROVE  disk' = disk /\ limit' = limit
<1>1. ASSUME NEW p, \/ VisitOtherShare(p) \/ VisitBrokenLink(p) \/ VisitFile(p)
                    \/ VisitCycle(p) \/ VisitDuplicate(p) \/ VisitDirectory(p)
      PROVE  UNCHANGED kept
  BY <1>1 DEF VisitOtherShare, VisitBrokenLink, VisitFile, VisitCycle, VisitDuplicate, VisitDirectory
<1>2. CASE VisitProbed
  <2>1. UNCHANGED kept
    BY <1>1, <1>2 DEF VisitProbed
  <2> QED
    BY <2>1 DEF kept
<1>3. CASE LeaveDirectory \/ DirEntryError \/ VisitUnreadable
  BY <1>3 DEF LeaveDirectory, DirEntryError, VisitUnreadable, kept
<1>4. CASE WalkEnds \/ Return \/ Cancel \/ UNCHANGED vars
  BY <1>4 DEF WalkEnds, Return, Cancel, vars
<1> QED
  BY <1>2, <1>3, <1>4 DEF Next, WalkerStep, Finished

\* A step keeps every pending Visit under a canonical path that leads to its object.
LEMMA LeadStep ==
    ASSUME TypeOK, TypeOK', LeadInv, [Next]_vars
    PROVE  LeadInv'
<1> DEFINE Led(w) == w.op = "Visit" /\ w.link # "Broken" => LeadsTo(disk, Canonical(w), w.node)
<1>1. stack \in Seq(Work) /\ \A i \in DOMAIN stack : Led(stack[i])
  BY DEF TypeOK, LeadInv
<1>2. ASSUME NEW t, stack' = t, disk' = disk, \A i \in DOMAIN t : Led(t[i])
      PROVE  LeadInv'
  BY <1>2 DEF LeadInv, Canonical
<1>3. CASE PopsAndTells \/ LeaveDirectory
  <2> DEFINE t == Tail(stack)
  <2>1. stack # <<>> /\ stack' = t /\ disk' = disk
    BY <1>3 DEF PopsAndTells, LeaveDirectory, Popped, Pop, kept
  <2>2. \A i \in DOMAIN t : i + 1 \in DOMAIN stack /\ t[i] = stack[i + 1]
    BY <1>1, <2>1, PoppedStack
  <2> HIDE DEF t, Led
  <2>3. \A i \in DOMAIN t : Led(t[i])
    BY <1>1, <2>2
  <2> QED
    BY <1>2, <2>1, <2>3
<1>4. CASE \E p \in Probe : VisitDirectory(p)
  <2>1. PICK p \in Probe : VisitDirectory(p)
    BY <1>4
  <2>2. PICK c, new : Enters(p, c, new)
    BY <2>1, EntersDirectory
  <2> DEFINE v == Head(stack)
             t == Stacked(c, stack)
  <2>3. /\ stack # <<>> /\ v.op = "Visit" /\ v.link # "Broken" /\ c \in Seq(Work) /\ stack' = t
        /\ c = <<>> \/ c = Children(v)
        /\ disk' = disk
    BY <2>2 DEF Enters, kept
  <2>4. v.node \in Node /\ IsDisk(disk) /\ Canonical(v) \in Path
    BY <2>3, VisitTyped DEF TypeOK
  <2>5. /\ \A i \in 1 .. Len(c) : i \in DOMAIN t /\ t[i] = c[i]
        /\ t[Len(c) + 1] = Leave /\ Len(c) \in Nat
        /\ \A i \in DOMAIN t : i \in 1 .. Len(c) \/ i = Len(c) + 1
                               \/ (i - Len(c) \in 2 .. Len(stack) /\ t[i] = stack[i - Len(c)])
    BY <1>1, <2>3, PushedStack
  <2>6. \A i \in 2 .. Len(stack) : i \in DOMAIN stack
    BY <1>1
  <2>7. LeadsTo(disk, Canonical(v), v.node)
    <3>1. 1 \in DOMAIN stack /\ stack[1] = v
      BY <1>1, <2>3, PoppedStack
    <3> QED
      BY <1>1, <2>3, <3>1
  <2>8. ASSUME NEW i \in 1 .. Len(c) PROVE Led(c[i])
    <3> DEFINE e == disk.listing[v.node][i]
               w == c[i]
    <3>1. c = Children(v)
      BY <2>3
    <3>2. /\ e \in Entry /\ i \in 1 .. Len(disk.listing[v.node])
          /\ e.link = "Error" => w.op = "DirEntryError"
          /\ e.link # "Error" => /\ w.parent = Canonical(v) /\ w.name = e.name
                                 /\ w.node = e.node /\ w.link = e.link
      BY <2>3, <3>1, ChildrenTyped
    <3>3. i \in DOMAIN disk.listing[v.node]
      <4>1. disk.listing[v.node] \in Seq(Entry)
        BY <2>3, VisitTyped
      <4> QED
        BY <3>2, <4>1
    <3>4. e.link \in Links /\ e.node \in Node
      BY <3>2 DEF Entry
    <3>5. e.link \in {"No", "Hidden"} => LeadsTo(disk, Append(Canonical(v), e.name), e.node)
      BY <2>4, <2>7, <3>3, EntryLeads
    <3>6. LeadsTo(disk, disk.realPath[e.node], e.node)
      BY <2>4, <3>4, RealPathLeads
    <3> HIDE DEF e, v, w
    <3>7. SUFFICES ASSUME w.op = "Visit", w.link # "Broken" PROVE LeadsTo(disk, Canonical(w), w.node)
      BY DEF w
    <3>8. e.link # "Error" /\ w.parent = Canonical(v) /\ w.name = e.name /\ w.node = e.node /\ w.link = e.link
      BY <3>2, <3>7
    <3>9. CASE w.link = "Shown" \/ w.parent = <<>>
      <4>1. Canonical(w) = disk.realPath[e.node]
        BY <3>8, <3>9 DEF Canonical
      <4> QED
        BY <3>6, <3>8, <4>1
    <3>10. CASE ~ (w.link = "Shown" \/ w.parent = <<>>)
      <4>1. Canonical(w) = Append(Canonical(v), e.name)
        BY <3>8, <3>10 DEF Canonical
      <4>2. e.link \in {"No", "Hidden"}
        BY <3>4, <3>7, <3>8, <3>10 DEF Links
      <4> QED
        BY <3>5, <3>8, <4>1, <4>2
    <3> QED
      BY <3>9, <3>10
  <2> HIDE DEF t, v
  <2>9. \A i \in DOMAIN t : Led(t[i])
    <3> SUFFICES ASSUME NEW i \in DOMAIN t PROVE Led(t[i])
      OBVIOUS
    <3>1. Led(Leave)
      BY DEF Leave
    <3> HIDE DEF Led
    <3> QED
      BY <1>1, <2>5, <2>6, <2>8, <3>1
  <2> HIDE DEF Led
  <2> QED
    BY <1>2, <2>3, <2>9
<1>5. CASE Ends
  BY <1>1, <1>2, <1>5, StepDisk DEF Ends
<1> QED
  BY <1>3, <1>4, <1>5, StepKinds

\* The directories above a path: the i-th of the active path is the path cut to its length.
LEMMA AncestorPaths ==
    ASSUME NEW ch, NEW n \in Nat, NEW path \in Path, n < Len(path),
           \A i \in 1 .. n : ch[i].path \in Path,
           \A i \in 1 .. n - 1 : ch[i].path = Parent(ch[i + 1].path),
           n > 0 => ch[n].path = Parent(path)
    PROVE  \A i \in 1 .. n : ch[i].path = SubSeq(path, 1, (Len(path) - 1) - (n - i))
<1> DEFINE cut(i) == SubSeq(path, 1, (Len(path) - 1) - (n - i))
           T == {k \in 0 .. n - 1 : ch[n - k].path # cut(n - k)}
<1>0. path \in Seq(Name) /\ Len(path) \in Nat
  BY DEF Path
<1>1. T = {}
  <2> SUFFICES ASSUME T # {} PROVE FALSE
    OBVIOUS
  <2>1. T \subseteq Nat
    OBVIOUS
  <2> HIDE DEF T
  <2>2. PICK x \in T : \A y \in T : x <= y
    BY <2>1, SmallestOf
  <2>3. x \in 0 .. n - 1 /\ ch[n - x].path # cut(n - x)
    BY <2>2 DEF T
  <2>4. CASE x = 0
    <3>1. n - x = n /\ n > 0 /\ (Len(path) - 1) - (n - n) = Len(path) - 1
      BY <1>0, <2>3, <2>4
    <3> QED
      BY <2>3, <3>1 DEF Parent
  <2>5. CASE x # 0
    <3> DEFINE i == n - x
               l == (Len(path) - 1) - (n - i)
    <3>1. /\ i \in 1 .. n - 1 /\ x - 1 \in 0 .. n - 1 /\ ~ (x <= x - 1) /\ n - (x - 1) = i + 1
          /\ l \in Nat /\ l + 1 <= Len(path) /\ (Len(path) - 1) - (n - (i + 1)) = l + 1
      BY <1>0, <2>3, <2>5
    <3>2. x - 1 \notin T
      BY <2>2, <3>1
    <3>3. ch[i + 1].path = cut(i + 1)
      BY <3>1, <3>2 DEF T
    <3>4. ch[i].path = Parent(ch[i + 1].path)
      BY <3>1
    <3>5. ch[i + 1].path = SubSeq(path, 1, l + 1)
      BY <3>1, <3>3
    <3> HIDE DEF l, i
    <3> DEFINE q == SubSeq(path, 1, l + 1)
    <3>6. q \in Seq(Name) /\ Len(q) = l + 1 /\ \A h \in 1 .. l + 1 : q[h] = path[h]
      BY <1>0, <3>1
    <3> HIDE DEF q
    <3>0. l \in Nat /\ l <= Len(path) /\ l <= Len(q) /\ \A h \in 1 .. l : q[h] = path[h]
      BY <1>0, <3>1, <3>6
    <3>7. SubSeq(q, 1, l) = SubSeq(path, 1, l)
      BY <1>0, <3>0, <3>6
    <3>8. Parent(q) = SubSeq(path, 1, l)
      BY <3>1, <3>6, <3>7 DEF Parent
    <3> QED
      BY <2>3, <3>4, <3>5, <3>8 DEF q, l, i
  <2> QED
    BY <2>4, <2>5
<1>2. ASSUME NEW i \in 1 .. n PROVE ch[i].path = cut(i)
  <2>1. n - i \in 0 .. n - 1 /\ n - (n - i) = i
    OBVIOUS
  <2> HIDE DEF cut
  <2> QED
    BY <1>1, <2>1
<1> QED
  BY <1>2

\* The level of pending work is at most the number of active directories.
LEMMA LevelInChain ==
    ASSUME TypeOK, ActiveInv, NEW k \in DOMAIN stack
    PROVE  Level(stack, k) \in Nat /\ Level(stack, k) <= Len(chain)
<1>1. stack \in Seq(Work) /\ k \in Nat /\ 1 \in Nat /\ 1 <= k
  BY DEF TypeOK
<1>2. Level(stack, k) \in Nat
  BY <1>1, LeavesFinite
<1>3. Level(stack, k) <= Level(stack, 1)
  BY <1>1, LevelDecreases
<1> QED
  BY <1>2, <1>3 DEF ActiveInv

\* Two entries of a directory with the same path have the same name.
LEMMA EntryPaths ==
    ASSUME NEW path \in Path, NEW a \in Name, NEW b \in Name
    PROVE  /\ Append(path, a) = Append(path, b) => a = b
           /\ Append(path, a) \in Path /\ Len(Append(path, a)) = Len(path) + 1 /\ Len(path) \in Nat
           /\ Append(path, a) # path
<1>1. path \in Seq(Name) /\ Len(path) \in Nat
  BY DEF Path
<1>2. Append(path, a)[Len(path) + 1] = a /\ Append(path, b)[Len(path) + 1] = b
  BY <1>1
<1>3. Append(path, a) \in Path /\ Len(Append(path, a)) = Len(path) + 1
  BY <1>1 DEF Path
<1>4. Append(path, a) # path
  BY <1>1, <1>3
<1> QED
  BY <1>1, <1>2, <1>3, <1>4

\* A step walks no route a second time.
LEMMA RouteStep ==
    ASSUME TypeOK, TypeOK', ActiveInv, RouteInv, [Next]_vars
    PROVE  RouteInv'
<1> DEFINE top == Len(disk.realPath[Root])
           Apart(t) == \A i, j \in DOMAIN t : t[i].op = "Visit" /\ t[j].op = "Visit" /\ i # j => t[i].path # t[j].path
           Unseen(t, sn) == \A i \in DOMAIN t : t[i].op = "Visit" => \A s \in sn : s.path # t[i].path
           Rooted(sn) == \A s \in sn : \/ Len(s.path) = top
                                       \/ Len(s.path) > top /\ \E r \in sn : r.path = Parent(s.path)
           Unique(sn) == \A r, s \in sn : r.path = s.path => r = s
           Active(ch, sn) == \A i \in DOMAIN ch : ch[i] \in sn
<1>1. /\ stack \in Seq(Work) /\ chain \in Seq(Frame) /\ Len(chain) \in Nat /\ seen \subseteq Frame
      /\ Apart(stack) /\ Unseen(stack, seen) /\ Rooted(seen) /\ Unique(seen) /\ Active(chain, seen)
  BY DEF TypeOK, RouteInv
<1>d. disk' = disk
  BY StepDisk
<1>2. ASSUME NEW t, stack' = t, NEW ch, chain' = ch, NEW sn, seen' = sn,
             Apart(t), Unseen(t, sn), Rooted(sn), Unique(sn), Active(ch, sn)
      PROVE  RouteInv'
  BY <1>2, <1>d DEF RouteInv, Parent
<1>3. CASE PopsAndTells \/ LeaveDirectory
  <2> DEFINE t == Tail(stack)
  <2>1. stack # <<>> /\ stack' = t /\ seen' = seen
    BY <1>3 DEF PopsAndTells, LeaveDirectory, Popped, Pop
  <2>2. DOMAIN t \subseteq Nat /\ \A i \in DOMAIN t : i + 1 \in DOMAIN stack /\ t[i] = stack[i + 1]
    BY <1>1, <2>1, PoppedStack
  <2>3. Active(chain', seen)
    <3>1. CASE chain' = chain
      BY <1>1, <3>1
    <3>2. CASE LeaveDirectory
      <4> DEFINE ch == Front(chain)
      <4>1. chain' = ch /\ Head(stack).op = "Leave"
        BY <3>2 DEF LeaveDirectory, Popped
      <4>2. Len(chain) >= 1
        <5>1. Level(stack, 1) = Level(stack, 2) + 1 /\ Level(stack, 2) \in Nat
          BY <1>1, <2>1, <4>1, LevelBelow
        <5> QED
          BY <5>1 DEF ActiveInv
      <4>3. DOMAIN ch \subseteq DOMAIN chain /\ \A i \in DOMAIN ch : ch[i] = chain[i]
        BY <1>1, <4>2 DEF Front
      <4> HIDE DEF ch
      <4> QED
        BY <1>1, <4>1, <4>3
    <3> QED
      BY <1>3, <3>1, <3>2 DEF PopsAndTells
  <2> HIDE DEF t, Rooted, Unique, Active
  <2>4. Apart(t)
    <3> SUFFICES ASSUME NEW i \in DOMAIN t, NEW j \in DOMAIN t, t[i].op = "Visit", t[j].op = "Visit", i # j
                 PROVE  t[i].path # t[j].path
      OBVIOUS
    <3>1. i + 1 # j + 1
      BY <2>2
    <3> QED
      BY <1>1, <2>2, <3>1
  <2>5. Unseen(t, seen)
    BY <1>1, <2>2
  <2> HIDE DEF Apart, Unseen
  <2> QED
    BY <1>1, <1>2, <2>1, <2>3, <2>4, <2>5
<1>4. CASE \E p \in Probe : VisitDirectory(p)
  <2>1. PICK p \in Probe : VisitDirectory(p)
    BY <1>4
  <2>2. PICK c, new : Enters(p, c, new)
    BY <2>1, EntersDirectory
  <2> DEFINE v == Head(stack)
             f == [key |-> select_loop_key(v, p), path |-> v.path]
             t == Stacked(c, stack)
             ch == Append(chain, f)
             sn == seen \cup {f}
             Child(path) == \E name \in Name : path = Append(v.path, name)
  <2>3. /\ stack # <<>> /\ v.op = "Visit" /\ chain' = ch /\ c \in Seq(Work) /\ stack' = t /\ seen' = sn
        /\ c = <<>> \/ c = Children(v)
    BY <2>2 DEF Enters
  <2>4. /\ v.path \in Path /\ v.depth \in Nat /\ f \in Frame /\ f.path = v.path /\ v.node \in Node
        /\ Len(v.path) >= top /\ Len(v.path) \in Nat /\ top \in Nat
        /\ Len(v.path) = top + v.depth
    <3>1. v.path \in Path /\ v.depth \in Nat /\ v.node \in Node /\ v.depth = Len(v.path) - top
      BY <2>3, VisitTyped
    <3>2. f \in Frame /\ f.path = v.path
      BY <2>3, KeyTyped
    <3>3. Len(v.path) \in Nat /\ top \in Nat
      BY <3>1, DepthTyped DEF Path
    <3> HIDE DEF v, f, top
    <3> QED
      BY <3>1, <3>2, <3>3
  <2>5. 1 \in DOMAIN stack /\ stack[1] = v /\ \A i \in 2 .. Len(stack) : i \in DOMAIN stack /\ i # 1
    BY <1>1, <2>3, PoppedStack
  <2>6. \A s \in seen : s.path # v.path
    BY <1>1, <2>3, <2>5
  <2>7. ASSUME NEW i \in 1 .. Len(c), c[i].op = "Visit"
        PROVE  /\ i \in DOMAIN disk.listing[v.node] /\ disk.listing[v.node][i].name \in Name
               /\ c[i].path = Append(v.path, disk.listing[v.node][i].name)
    <3> DEFINE e == disk.listing[v.node][i]
    <3>1. c = Children(v)
      BY <2>3
    <3>2. /\ e \in Entry /\ i \in 1 .. Len(disk.listing[v.node])
          /\ e.link = "Error" => c[i].op = "DirEntryError"
          /\ e.link # "Error" => c[i].path = Append(v.path, e.name)
      BY <2>3, <3>1, ChildrenTyped
    <3>3. i \in DOMAIN disk.listing[v.node]
      <4>1. disk.listing[v.node] \in Seq(Entry)
        BY <2>3, VisitTyped
      <4> QED
        BY <3>2, <4>1
    <3>4. e.link # "Error" /\ e.name \in Name
      BY <2>7, <3>2 DEF Entry
    <3> HIDE DEF e, v
    <3> QED
      BY <3>2, <3>3, <3>4 DEF e
  <2>8. /\ \A i \in 1 .. Len(c) : i \in DOMAIN t /\ t[i] = c[i]
        /\ t[Len(c) + 1] = Leave /\ Len(c) \in Nat
        /\ \A i \in DOMAIN t : i \in 1 .. Len(c) \/ i = Len(c) + 1
                               \/ (i - Len(c) \in 2 .. Len(stack) /\ t[i] = stack[i - Len(c)])
    BY <1>1, <2>3, PushedStack
  <2>c. \A i \in 1 .. Len(c) : c[i].op = "Visit" => Child(c[i].path)
    BY <2>7
  <2>9. v.depth = Len(chain) /\ (Len(chain) > 0 => chain[Len(chain)].path = Parent(v.path))
    BY <2>3, <2>5 DEF ActiveInv
  <2>10. DOMAIN ch = 1 .. Len(chain) + 1 /\ ch[Len(chain) + 1] = f /\ \A i \in 1 .. Len(chain) : ch[i] = chain[i]
    BY <1>1, <2>4
  <2>11. ASSUME NEW path, Child(path)
         PROVE  /\ \A s \in sn : s.path # path
                /\ \A k \in 2 .. Len(stack) : stack[k].op = "Visit" => stack[k].path # path
    <3>1. PICK name \in Name : path = Append(v.path, name)
      BY <2>11
    <3>2. Parent(path) = v.path /\ Len(path) = Len(v.path) + 1 /\ path # v.path
      BY <2>4, <3>1, ParentOfEntry, EntryPaths
    <3> HIDE DEF v
    <3>3. ASSUME NEW s \in seen, s.path = path PROVE FALSE
      <4>1. Len(s.path) # top
        BY <2>4, <3>2, <3>3
      <4>2. \E r \in seen : r.path = Parent(s.path)
        BY <1>1, <4>1
      <4> QED
        BY <2>6, <3>2, <3>3, <4>2
    <3>4. ASSUME NEW k \in 2 .. Len(stack), stack[k].op = "Visit", stack[k].path = path PROVE FALSE
      <4> DEFINE l == Level(stack, k)
      <4>1. k \in DOMAIN stack
        BY <2>5
      <4>2. l \in Nat /\ l <= Len(chain)
        BY <4>1, LevelInChain
      <4>3. stack[k].depth = l /\ (l > 0 => chain[l].path = Parent(path))
        BY <3>4, <4>1 DEF ActiveInv
      <4>4. stack[k].depth = Len(path) - top
        BY <3>4, <4>1 DEF TypeOK
      <4> HIDE DEF l
      <4>5. l > 0
        BY <2>4, <3>2, <4>3, <4>4
      <4>6. l \in DOMAIN chain
        BY <1>1, <4>2, <4>5
      <4>7. chain[l] \in seen
        BY <1>1, <4>6
      <4> QED
        BY <2>6, <3>2, <4>3, <4>5, <4>7
    <3> QED
      BY <2>4, <3>2, <3>3, <3>4
  <2>12. ASSUME NEW i \in 1 .. Len(c), NEW j \in 1 .. Len(c), c[i].op = "Visit", c[j].op = "Visit", c[i].path = c[j].path
         PROVE  i = j
    <3> DEFINE l == disk.listing[v.node]
    <3>1. /\ i \in DOMAIN l /\ j \in DOMAIN l /\ l[i].name \in Name /\ l[j].name \in Name
          /\ Append(v.path, l[i].name) = Append(v.path, l[j].name)
      BY <2>7, <2>12
    <3>2. l[i].name = l[j].name
      BY <2>4, <3>1, EntryPaths
    <3>3. \A g, h \in DOMAIN l : g # h => l[g].name # l[h].name
      BY <2>4 DEF TypeOK, IsDisk
    <3> QED
      BY <3>1, <3>2, <3>3
  <2> HIDE DEF v, f, t, ch, sn, Child, top
  <2>13. Apart(t)
    <3> SUFFICES ASSUME NEW i \in DOMAIN t, NEW j \in DOMAIN t, t[i].op = "Visit", t[j].op = "Visit", i # j
                 PROVE  t[i].path # t[j].path
      OBVIOUS
    <3>0. Leave.op # "Visit"
      BY DEF Leave
    <3>1. CASE i \in 1 .. Len(c) /\ j \in 1 .. Len(c)
      BY <2>8, <2>12, <3>1
    <3>2. CASE i \in 1 .. Len(c) /\ j \notin 1 .. Len(c)
      BY <2>8, <2>c, <2>11, <3>0, <3>2
    <3>3. CASE i \notin 1 .. Len(c) /\ j \in 1 .. Len(c)
      BY <2>8, <2>c, <2>11, <3>0, <3>3
    <3>4. CASE i \notin 1 .. Len(c) /\ j \notin 1 .. Len(c)
      <4>1. /\ i - Len(c) \in 2 .. Len(stack) /\ t[i] = stack[i - Len(c)]
            /\ j - Len(c) \in 2 .. Len(stack) /\ t[j] = stack[j - Len(c)]
        BY <2>8, <3>0, <3>4
      <4>2. i - Len(c) # j - Len(c) /\ i - Len(c) \in DOMAIN stack /\ j - Len(c) \in DOMAIN stack
        <5>1. i \in Int /\ j \in Int
          BY <2>3 DEF TypeOK
        <5> QED
          BY <2>5, <2>8, <4>1, <5>1
      <4> QED
        BY <1>1, <4>1, <4>2
    <3> QED
      BY <3>1, <3>2, <3>3, <3>4
  <2>14. Unseen(t, sn)
    <3> SUFFICES ASSUME NEW i \in DOMAIN t, t[i].op = "Visit", NEW s \in sn PROVE s.path # t[i].path
      OBVIOUS
    <3>0. Leave.op # "Visit"
      BY DEF Leave
    <3>1. CASE i \in 1 .. Len(c)
      BY <2>8, <2>c, <2>11, <3>1
    <3>2. CASE i \notin 1 .. Len(c)
      <4>1. i - Len(c) \in 2 .. Len(stack) /\ t[i] = stack[i - Len(c)]
        BY <2>8, <3>0, <3>2
      <4> DEFINE k == i - Len(c)
      <4>2. k \in DOMAIN stack /\ k # 1 /\ t[i] = stack[k]
        BY <2>5, <4>1
      <4> HIDE DEF k
      <4>3. s \in seen \/ s = f
        BY DEF sn
      <4> QED
        BY <1>1, <2>3, <2>4, <2>5, <4>2, <4>3
    <3> QED
      BY <3>1, <3>2
  <2>15. Rooted(sn)
    <3> SUFFICES ASSUME NEW s \in sn
                 PROVE  Len(s.path) = top \/ (Len(s.path) > top /\ \E r \in sn : r.path = Parent(s.path))
      BY DEF top
    <3>1. CASE s \in seen
      BY <1>1, <3>1 DEF sn, top
    <3>2. CASE s = f /\ v.depth = 0
      BY <2>4, <3>2
    <3>3. CASE s = f /\ v.depth # 0
      <4>1. Len(chain) > 0 /\ Len(chain) \in DOMAIN chain /\ Len(v.path) > top
        BY <1>1, <2>4, <2>9, <3>3
      <4>2. chain[Len(chain)] \in seen /\ chain[Len(chain)].path = Parent(s.path)
        BY <1>1, <2>4, <2>9, <3>3, <4>1
      <4> QED
        BY <2>4, <3>3, <4>1, <4>2 DEF sn
    <3> QED
      BY <3>1, <3>2, <3>3 DEF sn
  <2>16. Unique(sn)
    BY <1>1, <2>4, <2>6 DEF sn
  <2>17. Active(ch, sn)
    <3> SUFFICES ASSUME NEW i \in DOMAIN ch PROVE ch[i] \in sn
      OBVIOUS
    <3>1. CASE i = Len(chain) + 1
      BY <2>10, <3>1 DEF sn
    <3>2. CASE i \in 1 .. Len(chain)
      BY <1>1, <2>10, <3>2 DEF sn
    <3> QED
      BY <1>1, <2>10, <3>1, <3>2
  <2> HIDE DEF Apart, Unseen, Rooted, Unique, Active
  <2> QED
    BY <1>2, <2>3, <2>13, <2>14, <2>15, <2>16, <2>17
<1>5. CASE Ends
  <2> HIDE DEF Apart, Unseen, Rooted, Unique, Active
  <2> QED
    BY <1>1, <1>2, <1>5 DEF Ends
<1> QED
  BY <1>3, <1>4, <1>5, StepKinds

\* Rows and content stay.
LEMMA RowsStay ==
    ASSUME NEW a \in Seq(Item), NEW new \in Seq(Item), NEW path, NEW n
    PROVE  /\ HasRow(a, path, n) => HasRow(a \o new, path, n)
           /\ HasContent(a, path, n) => HasContent(a \o new, path, n)
<1> DEFINE b == a \o new
<1>1. \A i \in DOMAIN a : i \in DOMAIN b /\ b[i] = a[i]
  BY ItemsGrow
<1> HIDE DEF b
<1>2. HasRow(a, path, n) => HasRow(b, path, n)
  BY <1>1 DEF HasRow
<1>3. HasContent(a, path, n) => HasContent(b, path, n)
  BY <1>1 DEF HasContent
<1> QED
  BY <1>2, <1>3 DEF b

\* With no depth limit a directory that is entered is listed, or the error says it could not be.
LEMMA UnlimitedContent ==
    ASSUME TypeOK, NEW p \in Probe, VisitDirectory(p), limit = Unlimited
    PROVE  HasContent(items', Head(stack).path, Head(stack).node)
<1> DEFINE v == Head(stack)
<1>1. items \in Seq(Item) /\ depth_ok(v)
  BY DEF TypeOK, depth_ok
<1>2. CASE v.node \in disk.denied
  <2> DEFINE o == Object(v, FALSE, FALSE)
             e == Error(v, "CannotEnumerate", <<>>)
  <2>1. items' = items \o <<o, e>>
    BY <1>1, <1>2 DEF VisitDirectory, Emit
  <2>2. e.path = v.path /\ e.node = v.node /\ e.kind = "CannotEnumerate"
    BY DEF Error
  <2> HIDE DEF o, e, v
  <2>3. Len(items) + 2 \in DOMAIN (items \o <<o, e>>) /\ (items \o <<o, e>>)[Len(items) + 2] = e
    BY <1>1
  <2> QED
    BY <2>1, <2>2, <2>3 DEF HasContent, v
<1>3. CASE v.node \notin disk.denied
  <2> DEFINE o == Object(v, TRUE, disk.remote /\ ~ p.id)
  <2>1. items' = items \o <<o>>
    BY <1>1, <1>3 DEF VisitDirectory, Emit
  <2>2. o.path = v.path /\ o.node = v.node /\ o.kind = "Object" /\ o.descends
    BY DEF Object
  <2> HIDE DEF o, v
  <2>3. Len(items) + 1 \in DOMAIN (items \o <<o>>) /\ (items \o <<o>>)[Len(items) + 1] = o
    BY <1>1
  <2> QED
    BY <2>1, <2>2, <2>3 DEF HasContent, v
<1> QED
  BY <1>2, <1>3

\* The key of a Visit leads to its object.
LEMMA KeyLeads ==
    ASSUME TypeOK, LeadInv, stack # <<>>, Head(stack).op = "Visit", Head(stack).link # "Broken", NEW p \in Probe
    PROVE  KeyLeadsTo(disk, select_loop_key(Head(stack), p), Head(stack).node)
<1> DEFINE v == Head(stack)
<1>1. 1 \in DOMAIN stack /\ stack[1] = v
  BY DEF TypeOK
<1>2. LeadsTo(disk, Canonical(v), v.node)
  BY <1>1 DEF LeadInv
<1> HIDE DEF v
<1>3. CASE disk.remote /\ p.id
  BY <1>3 DEF select_loop_key, KeyLeadsTo, v
<1>4. CASE ~ (disk.remote /\ p.id)
  BY <1>2, <1>4 DEF select_loop_key, KeyLeadsTo, v
<1> QED
  BY <1>3, <1>4

\* A step keeps the rows, and with no depth limit the content, of all that is remembered.
LEMMA FrameStep ==
    ASSUME TypeOK, TypeOK', LeadInv, FrameInv, [Next]_vars
    PROVE  FrameInv'
<1>1. items \in Seq(Item) /\ seen \subseteq Frame /\ \A s \in seen : Framed(disk, limit, s, items)
  BY DEF TypeOK, FrameInv
<1>2. disk' = disk /\ limit' = limit
  BY StepDisk
<1>3. ASSUME \A s \in seen' : Framed(disk, limit, s, items') PROVE FrameInv'
  BY <1>2, <1>3 DEF FrameInv
<1>4. CASE PopsAndTells
  <2>1. PICK new : Tells(new)
    BY <1>4 DEF PopsAndTells
  <2>2. new \in Seq(Item) /\ items' = items \o new /\ seen' = seen
    BY <1>4, <2>1 DEF Tells, PopsAndTells
  <2>3. \A s \in seen : Framed(disk, limit, s, items \o new)
    BY <1>1, <2>2, RowsStay DEF Framed
  <2> QED
    BY <1>3, <2>2, <2>3
<1>5. CASE LeaveDirectory \/ Ends
  BY <1>1, <1>3, <1>5 DEF LeaveDirectory, Ends
<1>6. CASE \E p \in Probe : VisitDirectory(p)
  <2>1. PICK p \in Probe : VisitDirectory(p)
    BY <1>6
  <2>2. PICK c, new : Enters(p, c, new)
    BY <2>1, EntersDirectory
  <2> DEFINE v == Head(stack)
             f == [key |-> select_loop_key(v, p), path |-> v.path]
  <2>3. /\ stack # <<>> /\ v.op = "Visit" /\ v.link # "Broken" /\ new \in Seq(Item) /\ new # <<>>
        /\ items' = items \o new /\ seen' = seen \cup {f}
        /\ new[1].kind = "Object" /\ new[1].path = v.path /\ new[1].node = v.node
    BY <2>2 DEF Enters
  <2>4. v.node \in Node
    BY <2>3, VisitTyped
  <2>5. f.key = select_loop_key(v, p) /\ f.path = v.path
    OBVIOUS
  <2>6. KeyLeadsTo(disk, select_loop_key(v, p), v.node)
    BY <2>3, KeyLeads
  <2>7. HasRow(items', v.path, v.node)
    <3>1. 1 \in DOMAIN new
      BY <2>3
    <3>2. Len(items) + 1 \in DOMAIN (items \o new) /\ (items \o new)[Len(items) + 1] = new[1]
      BY <1>1, <2>3, <3>1, ItemsGrow
    <3> QED
      BY <2>3, <3>2 DEF HasRow
  <2>8. limit = Unlimited => HasContent(items', v.path, v.node)
    BY <2>1, UnlimitedContent
  <2> HIDE DEF v, f
  <2>9. Framed(disk, limit, f, items')
    BY <2>4, <2>5, <2>6, <2>7, <2>8 DEF Framed
  <2>10. \A s \in seen : Framed(disk, limit, s, items \o new)
    BY <1>1, <2>3, RowsStay DEF Framed
  <2> QED
    BY <1>3, <2>3, <2>9, <2>10
<1> QED
  BY <1>4, <1>5, <1>6, StepKinds

\* What is remembered under the key of a Visit is the same object, with its row.
LEMMA SameObject ==
    ASSUME TypeOK, LeadInv, FrameInv, stack # <<>>, Head(stack).op = "Visit", Head(stack).link # "Broken",
           NEW p \in Probe, NEW s \in seen, s.key = select_loop_key(Head(stack), p)
    PROVE  /\ HasRow(items, s.path, Head(stack).node)
           /\ limit = Unlimited => HasContent(items, s.path, Head(stack).node)
<1> DEFINE v == Head(stack)
<1>1. PICK n \in Node : /\ KeyLeadsTo(disk, s.key, n) /\ HasRow(items, s.path, n)
                        /\ limit = Unlimited => HasContent(items, s.path, n)
  BY DEF FrameInv, Framed
<1>2. KeyLeadsTo(disk, s.key, v.node) /\ v.node \in Node /\ IsDisk(disk)
  BY KeyLeads, VisitTyped DEF TypeOK
<1>3. s.key \in Key
  BY DEF TypeOK, Frame
<1> HIDE DEF v
<1>4. n = v.node
  <2>1. CASE s.key.by = "id"
    <3>1. <<n>> = <<v.node>>
      BY <1>1, <1>2, <2>1 DEF KeyLeadsTo
    <3> QED
      BY <3>1
  <2>2. CASE s.key.by # "id"
    <3>1. LeadsTo(disk, s.key.of, n) /\ LeadsTo(disk, s.key.of, v.node)
      BY <1>1, <1>2, <2>2 DEF KeyLeadsTo
    <3>2. s.key.of \in Path
      BY <1>3, <2>2 DEF Key
    <3> QED
      BY <1>2, <3>1, <3>2, LeadsToOne
  <2> QED
    BY <2>1, <2>2
<1> QED
  BY <1>1, <1>4 DEF v

\* Only a link that meets a remembered directory is told as a cycle or a duplicate.
LEMMA OtherItems ==
    ASSUME TypeOK, [Next]_vars
    PROVE  \/ \E p \in Probe : VisitCycle(p) \/ VisitDuplicate(p)
           \/ \E new \in Seq(Item) : /\ items' = items \o new
                                     /\ \A i \in DOMAIN new : new[i].kind \notin {"Cycle", "Duplicate"}
<1> DEFINE Plain(new) == /\ new \in Seq(Item) /\ items' = items \o new
                         /\ \A i \in DOMAIN new : new[i].kind \notin {"Cycle", "Duplicate"}
           v == Head(stack)
<1>0. items \in Seq(Item) /\ <<>> \in Path
  BY DEF TypeOK, Path
<1>1. ASSUME NEW what \in Problem \ {"Cycle", "Duplicate"}, v.path \in Path, v.node \in Node
      PROVE  /\ <<Error(v, what, <<>>)>> \in Seq(Item)
             /\ \A i \in DOMAIN <<Error(v, what, <<>>)>> : <<Error(v, what, <<>>)>>[i].kind \notin {"Cycle", "Duplicate"}
  <2> DEFINE e == Error(v, what, <<>>)
  <2>1. e \in Item /\ e.kind = what
    BY <1>0, <1>1 DEF Error, Item
  <2> HIDE DEF e
  <2> QED
    BY <1>1, <2>1 DEF e
<1>2. ASSUME v.path \in Path, v.node \in Node, NEW b \in BOOLEAN, NEW c \in BOOLEAN
      PROVE  /\ <<Object(v, b, c)>> \in Seq(Item)
             /\ \A i \in DOMAIN <<Object(v, b, c)>> : <<Object(v, b, c)>>[i].kind \notin {"Cycle", "Duplicate"}
  <2> DEFINE o == Object(v, b, c)
  <2>1. o \in Item /\ o.kind = "Object"
    BY <1>2 DEF Object, Item
  <2> HIDE DEF o
  <2> QED
    BY <2>1 DEF o
<1>3. ASSUME NEW what \in Problem \ {"Cycle", "Duplicate"}, v.path \in Path, v.node \in Node
      PROVE  LET both == <<Object(v, FALSE, FALSE), Error(v, what, <<>>)>> IN
             both \in Seq(Item) /\ \A i \in DOMAIN both : both[i].kind \notin {"Cycle", "Duplicate"}
  <2> DEFINE e == Error(v, what, <<>>)
             o == Object(v, FALSE, FALSE)
  <2>1. e \in Item /\ e.kind = what
    BY <1>0, <1>3 DEF Error, Item
  <2>2. o \in Item /\ o.kind = "Object"
    BY <1>3 DEF Object, Item
  <2> HIDE DEF e, o
  <2> DEFINE both == <<o, e>>
  <2>3. /\ both \in Seq(Item) /\ DOMAIN both = 1 .. 2 /\ both[1] = o /\ both[2] = e
    BY <2>1, <2>2
  <2>4. o.kind \notin {"Cycle", "Duplicate"} /\ e.kind \notin {"Cycle", "Duplicate"}
    BY <1>3, <2>1, <2>2
  <2> HIDE DEF both
  <2>5. \A i \in DOMAIN both : both[i].kind \notin {"Cycle", "Duplicate"}
    BY <2>3, <2>4
  <2> QED
    BY <2>3, <2>5 DEF e, o, both
<1>w. ASSUME stack # <<>>, v.op = "DirEntryError" PROVE v.path \in Path /\ v.node \in Node
  BY <1>w DEF TypeOK, Work, Leave
<1>v. ASSUME stack # <<>>, v.op = "Visit" PROVE v.path \in Path /\ v.node \in Node
  BY <1>v, VisitTyped
<1>4. CASE DirEntryError
  <2>1. v.path \in Path /\ v.node \in Node /\ items' = items \o <<Error(v, "EntryError", <<>>)>>
    BY <1>4, <1>w DEF DirEntryError, Popped, Emit
  <2>2. "EntryError" \in Problem \ {"Cycle", "Duplicate"}
    BY DEF Problem
  <2> HIDE DEF v
  <2> QED
    BY <1>1, <2>1, <2>2
<1>5. CASE VisitUnreadable
  <2>1. v.path \in Path /\ v.node \in Node /\ items' = items \o <<Error(v, "Unreadable", <<>>)>>
    BY <1>5, <1>v DEF VisitUnreadable, Popped, Emit
  <2>2. "Unreadable" \in Problem \ {"Cycle", "Duplicate"}
    BY DEF Problem
  <2> HIDE DEF v
  <2> QED
    BY <1>1, <2>1, <2>2
<1>6. ASSUME NEW p, VisitOtherShare(p) PROVE \E new : Plain(new)
  <2>1. v.path \in Path /\ v.node \in Node /\ items' = items \o <<Error(v, "OtherShare", <<>>)>>
    BY <1>6, <1>v DEF VisitOtherShare, Popped, Emit
  <2>2. "OtherShare" \in Problem \ {"Cycle", "Duplicate"}
    BY DEF Problem
  <2> HIDE DEF v
  <2> QED
    BY <1>1, <2>1, <2>2
<1>7. ASSUME NEW p, VisitBrokenLink(p) PROVE \E new : Plain(new)
  <2>1. v.path \in Path /\ v.node \in Node
        /\ items' = items \o <<Object(v, FALSE, FALSE), Error(v, "Unresolved", <<>>)>>
    BY <1>7, <1>v DEF VisitBrokenLink, Popped, Emit
  <2>2. "Unresolved" \in Problem \ {"Cycle", "Duplicate"}
    BY DEF Problem
  <2> HIDE DEF v
  <2> QED
    BY <1>3, <2>1, <2>2
<1>8. ASSUME NEW p, VisitFile(p) PROVE \E new : Plain(new)
  <2>1. v.path \in Path /\ v.node \in Node /\ items' = items \o <<Object(v, FALSE, FALSE)>>
    BY <1>8, <1>v DEF VisitFile, Popped, Emit
  <2> HIDE DEF v
  <2> QED
    BY <1>2, <2>1
<1>9. ASSUME NEW p \in Probe, VisitDirectory(p) PROVE \E new : Plain(new)
  <2>1. v.path \in Path /\ v.node \in Node /\ (disk.remote /\ ~ p.id) \in BOOLEAN
    <3>1. v.path \in Path /\ v.node \in Node
      BY <1>9, <1>v DEF VisitDirectory, Popped
    <3> QED
      BY <3>1
  <2>2. \/ items' = items \o <<Object(v, FALSE, FALSE)>>
        \/ items' = items \o <<Object(v, FALSE, FALSE), Error(v, "CannotEnumerate", <<>>)>>
        \/ items' = items \o <<Object(v, TRUE, disk.remote /\ ~ p.id)>>
    BY <1>9 DEF VisitDirectory, Emit
  <2>3. "CannotEnumerate" \in Problem \ {"Cycle", "Duplicate"}
    BY DEF Problem
  <2> HIDE DEF v
  <2> QED
    BY <1>2, <1>3, <2>1, <2>2, <2>3
<1>10. CASE VisitProbed
  <2>1. PICK p \in Probe : VisitOtherShare(p) \/ VisitBrokenLink(p) \/ VisitFile(p)
                           \/ VisitCycle(p) \/ VisitDuplicate(p) \/ VisitDirectory(p)
    BY <1>10 DEF VisitProbed, probe_directory, Probe
  <2> QED
    BY <1>6, <1>7, <1>8, <1>9, <2>1
<1>11. CASE LeaveDirectory \/ WalkEnds \/ Return \/ Cancel \/ UNCHANGED vars
  <2>1. items' = items /\ items = items \o <<>> /\ <<>> \in Seq(Item) /\ DOMAIN <<>> = {}
    BY <1>0, <1>11 DEF LeaveDirectory, WalkEnds, Return, Cancel, vars
  <2> QED
    BY <2>1
<1> QED
  BY <1>4, <1>5, <1>10, <1>11 DEF Next, WalkerStep, Finished

\* The directories above a link are those of the active path.
LEMMA AboveTheLink ==
    ASSUME TypeOK, ActiveInv, RouteInv, stack # <<>>, Head(stack).op = "Visit", NEW s \in seen
    PROVE  IsStrictPrefix(s.path, Head(stack).path) <=> \E i \in DOMAIN chain : chain[i] = s
<1> DEFINE v == Head(stack)
           n == Len(chain)
           top == Len(disk.realPath[Root])
           path == v.path
<1>1. /\ path \in Path /\ v.depth \in Nat /\ v.depth = Len(path) - top /\ top \in Nat \ {0} /\ Len(path) \in Nat
      /\ path \in Seq(Name)
  <2>1. path \in Path /\ v.depth \in Nat /\ v.depth = Len(path) - top
    BY VisitTyped
  <2> HIDE DEF path, v
  <2> QED
    BY <2>1, DepthTyped DEF Path
<1>2. /\ chain \in Seq(Frame) /\ n \in Nat /\ DOMAIN chain = 1 .. n
      /\ 1 \in DOMAIN stack /\ stack[1] = v
      /\ s \in Frame
  BY DEF TypeOK
<1>3. v.depth = n /\ (n > 0 => chain[n].path = Parent(path))
  BY <1>2 DEF ActiveInv
<1>4. \A i \in 1 .. n - 1 : chain[i].path = Parent(chain[i + 1].path)
  BY DEF ActiveInv
<1>5. \A i \in 1 .. n : chain[i].path \in Path
  <2>1. \A i \in 1 .. n : chain[i] \in Frame
    <3> HIDE DEF n
    <3> QED
      BY <1>2
  <2> QED
    BY <2>1 DEF Frame
<1>6. s.path \in Path /\ s.path \in Seq(Name) /\ Len(s.path) \in Nat /\ Len(s.path) >= top
  <2>1. s.path \in Path
    BY <1>2 DEF Frame
  <2>2. Len(s.path) \in Nat
    BY <2>1 DEF Path
  <2> HIDE DEF top
  <2>3. Len(s.path) = top \/ Len(s.path) > top
    BY DEF RouteInv, top
  <2> QED
    BY <1>1, <2>1, <2>2, <2>3 DEF Path
<1>7. s.path # path
  BY <1>2 DEF RouteInv
<1> HIDE DEF v, n, top, path
<1>8. n < Len(path) /\ Len(path) = n + top
  BY <1>1, <1>2, <1>3
<1>9. \A i \in 1 .. n : chain[i].path = SubSeq(path, 1, (Len(path) - 1) - (n - i))
  <2> DEFINE ch == chain
  <2>1. /\ \A i \in 1 .. n : ch[i].path \in Path
        /\ \A i \in 1 .. n - 1 : ch[i].path = Parent(ch[i + 1].path)
        /\ n > 0 => ch[n].path = Parent(path)
    BY <1>3, <1>4, <1>5
  <2> SUFFICES \A i \in 1 .. n : ch[i].path = SubSeq(path, 1, (Len(path) - 1) - (n - i))
    OBVIOUS
  <2> HIDE DEF ch
  <2> QED
    BY <1>1, <1>2, <1>8, <2>1, AncestorPaths
<1>10. ASSUME NEW i \in DOMAIN chain, chain[i] = s PROVE IsStrictPrefix(s.path, path)
  <2> DEFINE l == (Len(path) - 1) - (n - i)
  <2>1. l \in Nat /\ l <= Len(path) /\ s.path = SubSeq(path, 1, l)
    BY <1>1, <1>2, <1>8, <1>9, <1>10
  <2> HIDE DEF l
  <2>2. Len(s.path) = l /\ \A h \in 1 .. l : s.path[h] = path[h]
    BY <1>1, <2>1
  <2>3. SubSeq(s.path, 1, l) = SubSeq(path, 1, l)
    BY <1>1, <1>6, <2>1, <2>2
  <2> QED
    BY <1>7, <2>1, <2>2, <2>3 DEF IsStrictPrefix, IsPrefix
<1>11. ASSUME IsStrictPrefix(s.path, path) PROVE \E i \in DOMAIN chain : chain[i] = s
  <2> DEFINE l == Len(s.path)
             i == (l - top) + 1
  <2>1. l <= Len(path) /\ SubSeq(s.path, 1, l) = SubSeq(path, 1, l)
    BY <1>11 DEF IsStrictPrefix, IsPrefix
  <2>2. s.path = SubSeq(path, 1, l)
    <3>1. SubSeq(s.path, 1, l) = s.path
      BY <1>6
    <3> QED
      BY <2>1, <3>1
  <2>3. l # Len(path)
    <3> SUFFICES ASSUME l = Len(path) PROVE FALSE
      OBVIOUS
    <3>1. SubSeq(path, 1, Len(path)) = path
      BY <1>1
    <3> QED
      BY <1>7, <2>2, <3>1
  <2>4. i \in 1 .. n /\ (Len(path) - 1) - (n - i) = l
    BY <1>1, <1>2, <1>6, <1>8, <2>1, <2>3
  <2>5. chain[i].path = s.path
    <3> HIDE DEF i, l
    <3> QED
      BY <1>9, <2>2, <2>4
  <2>6. chain[i] \in seen /\ i \in DOMAIN chain
    <3> HIDE DEF i
    <3> QED
      BY <1>2, <2>4 DEF RouteInv
  <2>7. chain[i] = s
    <3> HIDE DEF i
    <3> QED
      BY <2>5, <2>6 DEF RouteInv
  <2> QED
    BY <2>6, <2>7
<1> QED
  BY <1>10, <1>11 DEF path, v

\* What a link that meets a remembered directory is told as: the route named leads to the same
\* object, its content is there, and it lies above the link exactly when it is a cycle.
NamesRoute(its, lim, e) ==
    /\ e.kind \in {"Cycle", "Duplicate"}
    /\ HasRow(its, e.ref, e.node)
    /\ lim = Unlimited => HasContent(its, e.ref, e.node)
    /\ e.kind = "Cycle" <=> IsStrictPrefix(e.ref, e.path)

\* A cycle or a duplicate is told by the row of the link and the error that names the route.
LEMMA LinkNamed ==
    ASSUME TypeOK, LeadInv, FrameInv, RouteInv, ActiveInv, NEW p \in Probe, VisitCycle(p) \/ VisitDuplicate(p)
    PROVE  \E o, e \in Item : items' = items \o <<o, e>> /\ o.kind = "Object" /\ NamesRoute(items, limit, e)
<1> DEFINE v == Head(stack)
           key == select_loop_key(v, p)
<1>1. stack # <<>> /\ v.op = "Visit" /\ v.link # "Broken"
  BY DEF VisitCycle, VisitDuplicate, Popped, Enterable
<1>2. v.path \in Path /\ v.node \in Node
  BY <1>1, VisitTyped
<1>3. ASSUME NEW what \in {"Cycle", "Duplicate"}, NEW s \in seen, s.key = key,
             items' = items \o <<Object(v, FALSE, FALSE), Error(v, what, s.path)>>,
             what = "Cycle" <=> \E i \in DOMAIN chain : chain[i] = s
      PROVE  \E o, e \in Item : items' = items \o <<o, e>> /\ o.kind = "Object" /\ NamesRoute(items, limit, e)
  <2> DEFINE o == Object(v, FALSE, FALSE)
             e == Error(v, what, s.path)
  <2>1. s.path \in Path
    BY DEF TypeOK, Frame
  <2>2. o \in Item /\ o.kind = "Object"
    BY <1>2 DEF Object, Item
  <2>3. e \in Item /\ e.kind = what /\ e.ref = s.path /\ e.path = v.path /\ e.node = v.node
    BY <1>2, <2>1 DEF Error, Item, Problem
  <2>4. /\ HasRow(items, s.path, v.node)
        /\ limit = Unlimited => HasContent(items, s.path, v.node)
    BY <1>1, <1>3, SameObject
  <2>5. IsStrictPrefix(s.path, v.path) <=> \E i \in DOMAIN chain : chain[i] = s
    BY <1>1, AboveTheLink
  <2>6. items' = items \o <<o, e>>
    BY <1>3
  <2> HIDE DEF o, e, v
  <2>7. NamesRoute(items, limit, e)
    BY <1>3, <2>3, <2>4, <2>5 DEF NamesRoute
  <2> QED
    BY <2>2, <2>3, <2>6, <2>7
<1>4. CASE VisitCycle(p)
  <2>1. IsCycle(key) /\ items' = items \o <<Object(v, FALSE, FALSE), Error(v, "Cycle", ancestor_path(key))>>
    BY <1>4 DEF VisitCycle, Emit
  <2>2. PICK i \in DOMAIN chain : chain[i].key = key /\ ancestor_path(key) = chain[i].path
    BY <2>1, AncestorFound
  <2>3. chain[i] \in seen
    BY DEF RouteInv
  <2> HIDE DEF v, key
  <2> QED
    BY <1>3, <2>1, <2>2, <2>3
<1>5. CASE VisitDuplicate(p)
  <2>1. IsDuplicate(key) /\ items' = items \o <<Object(v, FALSE, FALSE), Error(v, "Duplicate", first_path(key))>>
    BY <1>5 DEF VisitDuplicate, Emit
  <2>2. PICK s \in seen : s.key = key /\ first_path(key) = s.path
    BY <2>1, FirstFound
  <2>3. ~ \E i \in DOMAIN chain : chain[i] = s
    <3> HIDE DEF v, key
    <3> QED
      BY <2>1, <2>2 DEF IsDuplicate, IsCycle
  <2> HIDE DEF v, key
  <2> QED
    BY <1>3, <2>1, <2>2, <2>3
<1> QED
  BY <1>4, <1>5

\* The error names a route whose row is told before it.
NamedAt(its, lim, i) ==
    /\ \E j \in DOMAIN its : its[j].kind = "Object" /\ j < i /\ its[j].path = its[i].ref /\ its[j].node = its[i].node
    /\ its[i].kind = "Cycle" <=> IsStrictPrefix(its[i].ref, its[i].path)
    /\ lim = Unlimited => \E j \in 1 .. i :
         /\ j \in DOMAIN its /\ its[j].path = its[i].ref /\ its[j].node = its[i].node
         /\ its[j].kind = "CannotEnumerate" \/ (its[j].kind = "Object" /\ its[j].descends)
NamedInv == \A i \in DOMAIN items : items[i].kind \in {"Cycle", "Duplicate"} => NamedAt(items, limit, i)

\* Items told later change nothing of what is told.
LEMMA NamedStays ==
    ASSUME NEW a \in Seq(Item), NEW new \in Seq(Item), NEW i \in DOMAIN a, NEW lim, NamedAt(a, lim, i)
    PROVE  NamedAt(a \o new, lim, i)
<1> DEFINE b == a \o new
<1>1. \A j \in DOMAIN a : j \in DOMAIN b /\ b[j] = a[j]
  BY ItemsGrow
<1> HIDE DEF b
<1>2. PICK j \in DOMAIN a : a[j].kind = "Object" /\ j < i /\ a[j].path = a[i].ref /\ a[j].node = a[i].node
  BY DEF NamedAt
<1>3. \E h \in DOMAIN b : b[h].kind = "Object" /\ h < i /\ b[h].path = b[i].ref /\ b[h].node = b[i].node
  BY <1>1, <1>2
<1>4. b[i].kind = "Cycle" <=> IsStrictPrefix(b[i].ref, b[i].path)
  BY <1>1 DEF NamedAt
<1>5. ASSUME lim = Unlimited
      PROVE  \E h \in 1 .. i : /\ h \in DOMAIN b /\ b[h].path = b[i].ref /\ b[h].node = b[i].node
                               /\ b[h].kind = "CannotEnumerate" \/ (b[h].kind = "Object" /\ b[h].descends)
  <2>1. PICK h \in 1 .. i : /\ h \in DOMAIN a /\ a[h].path = a[i].ref /\ a[h].node = a[i].node
                            /\ a[h].kind = "CannotEnumerate" \/ (a[h].kind = "Object" /\ a[h].descends)
    BY <1>5 DEF NamedAt
  <2>2. h \in DOMAIN b /\ b[h] = a[h] /\ b[i] = a[i]
    BY <1>1, <2>1
  <2> QED
    BY <2>1, <2>2
<1>6. NamedAt(b, lim, i)
  BY <1>3, <1>4, <1>5 DEF NamedAt
<1> QED
  BY <1>6 DEF b

\* A new error names the route it was told with.
LEMMA NewlyNamed ==
    ASSUME NEW a \in Seq(Item), NEW o \in Item, NEW e \in Item, NEW lim, NamesRoute(a, lim, e)
    PROVE  NamedAt(a \o <<o, e>>, lim, Len(a) + 2)
<1> DEFINE new == <<o, e>>
           b == a \o new
           i == Len(a) + 2
<1>1. new \in Seq(Item) /\ DOMAIN new = 1 .. 2 /\ new[2] = e
  OBVIOUS
<1> HIDE DEF new
<1>2. /\ \A j \in DOMAIN a : j \in DOMAIN b /\ b[j] = a[j]
      /\ \A k \in DOMAIN new : Len(a) + k \in DOMAIN b /\ b[Len(a) + k] = new[k]
      /\ Len(a) \in Nat /\ DOMAIN a = 1 .. Len(a)
  BY <1>1, ItemsGrow
<1>3. b[i] = e /\ \A j \in DOMAIN a : j < i /\ j \in 1 .. i
  BY <1>1, <1>2
<1> HIDE DEF b, i
<1>4. PICK j \in DOMAIN a : a[j].kind = "Object" /\ a[j].path = e.ref /\ a[j].node = e.node
  BY DEF NamesRoute, HasRow
<1>5. \E h \in DOMAIN b : b[h].kind = "Object" /\ h < i /\ b[h].path = b[i].ref /\ b[h].node = b[i].node
  BY <1>2, <1>3, <1>4
<1>6. b[i].kind = "Cycle" <=> IsStrictPrefix(b[i].ref, b[i].path)
  BY <1>3 DEF NamesRoute
<1>7. ASSUME lim = Unlimited
      PROVE  \E h \in 1 .. i : /\ h \in DOMAIN b /\ b[h].path = b[i].ref /\ b[h].node = b[i].node
                               /\ b[h].kind = "CannotEnumerate" \/ (b[h].kind = "Object" /\ b[h].descends)
  <2>1. PICK h \in DOMAIN a : /\ a[h].path = e.ref /\ a[h].node = e.node
                              /\ a[h].kind = "CannotEnumerate" \/ (a[h].kind = "Object" /\ a[h].descends)
    BY <1>7 DEF NamesRoute, HasContent
  <2>2. h \in 1 .. i /\ h \in DOMAIN b /\ b[h] = a[h]
    BY <1>2, <1>3
  <2> QED
    BY <1>3, <2>1, <2>2
<1>8. NamedAt(b, lim, i)
  BY <1>5, <1>6, <1>7 DEF NamedAt
<1> QED
  BY <1>8 DEF b, i, new

\* No step makes a wrong cycle or duplicate.
LEMMA NamedStep ==
    ASSUME TypeOK, LeadInv, FrameInv, RouteInv, ActiveInv, NamedInv, [Next]_vars
    PROVE  NamedInv'
<1>1. items \in Seq(Item) /\ limit' = limit
  BY StepDisk DEF TypeOK
<1>2. \A i \in DOMAIN items : items[i].kind \in {"Cycle", "Duplicate"} => NamedAt(items, limit, i)
  BY DEF NamedInv
<1> SUFFICES \A i \in DOMAIN items' : items'[i].kind \in {"Cycle", "Duplicate"} => NamedAt(items', limit, i)
  BY <1>1 DEF NamedInv
<1>3. ASSUME NEW new \in Seq(Item), items' = items \o new,
             \A k \in DOMAIN new : new[k].kind \in {"Cycle", "Duplicate"} => NamedAt(items', limit, Len(items) + k)
      PROVE  \A i \in DOMAIN items' : items'[i].kind \in {"Cycle", "Duplicate"} => NamedAt(items', limit, i)
  <2> SUFFICES ASSUME NEW i \in DOMAIN items', items'[i].kind \in {"Cycle", "Duplicate"}
               PROVE  NamedAt(items', limit, i)
    OBVIOUS
  <2> DEFINE b == items \o new
  <2>1. /\ Len(items) \in Nat /\ DOMAIN b = 1 .. Len(b) /\ Len(b) \in Nat
        /\ \A h \in DOMAIN items : b[h] = items[h]
        /\ \A h \in DOMAIN b : h \in DOMAIN items \/ (h - Len(items) \in DOMAIN new /\ b[h] = new[h - Len(items)])
    BY <1>1, ItemsGrow
  <2>2. items' = b
    BY <1>3
  <2>3. CASE i \in DOMAIN items
    <3>1. items[i].kind \in {"Cycle", "Duplicate"}
      <4> HIDE DEF b
      <4> QED
        BY <2>1, <2>2, <2>3
    <3>2. NamedAt(items, limit, i)
      BY <1>2, <2>3, <3>1
    <3>3. NamedAt(items \o new, limit, i)
      BY <1>1, <2>3, <3>2, NamedStays
    <3> QED
      BY <1>3, <3>3
  <2>4. CASE i \notin DOMAIN items
    <3> HIDE DEF b
    <3> DEFINE k == i - Len(items)
    <3>1. k \in DOMAIN new /\ items'[i] = new[k] /\ Len(items) + k = i
      BY <2>1, <2>2, <2>4
    <3> HIDE DEF k
    <3> QED
      BY <1>3, <3>1
  <2> QED
    BY <2>3, <2>4
<1>4. ASSUME NEW p \in Probe, VisitCycle(p) \/ VisitDuplicate(p)
      PROVE  \A i \in DOMAIN items' : items'[i].kind \in {"Cycle", "Duplicate"} => NamedAt(items', limit, i)
  <2>1. PICK o \in Item, e \in Item : items' = items \o <<o, e>> /\ o.kind = "Object" /\ NamesRoute(items, limit, e)
    BY <1>4, LinkNamed
  <2> DEFINE new == <<o, e>>
  <2>2. new \in Seq(Item) /\ DOMAIN new = 1 .. 2 /\ new[1] = o
    OBVIOUS
  <2>3. NamedAt(items', limit, Len(items) + 2)
    BY <1>1, <2>1, NewlyNamed
  <2>4. items' = items \o new
    BY <2>1
  <2> HIDE DEF new
  <2>5. \A k \in DOMAIN new : new[k].kind \in {"Cycle", "Duplicate"} => NamedAt(items', limit, Len(items) + k)
    <3> SUFFICES ASSUME NEW k \in DOMAIN new, new[k].kind \in {"Cycle", "Duplicate"}
                 PROVE  NamedAt(items', limit, Len(items) + k)
      OBVIOUS
    <3>1. k = 2
      BY <2>1, <2>2
    <3> QED
      BY <2>3, <3>1
  <2> QED
    BY <1>3, <2>2, <2>4, <2>5
<1>5. ASSUME NEW new \in Seq(Item), items' = items \o new,
             \A i \in DOMAIN new : new[i].kind \notin {"Cycle", "Duplicate"}
      PROVE  \A i \in DOMAIN items' : items'[i].kind \in {"Cycle", "Duplicate"} => NamedAt(items', limit, i)
  BY <1>3, <1>5
<1> QED
  BY <1>4, <1>5, OtherItems

\* What is remembered, what is pending and what is told belong together.
LEMMA RoutesAlways == Spec => [](LeadInv /\ FrameInv /\ RouteInv /\ NamedInv)
<1>1. Init => LeadInv /\ FrameInv /\ RouteInv /\ NamedInv
  <2> SUFFICES ASSUME Init PROVE LeadInv /\ FrameInv /\ RouteInv /\ NamedInv
    OBVIOUS
  <2> DEFINE r == Visit(disk.realPath[Root], <<>>, 0, RootEntry(disk))
  <2>1. stack = <<r>> /\ items = <<>> /\ chain = <<>> /\ seen = {} /\ IsDisk(disk) /\ Root \in Node
    BY WalkAssumption DEF Init
  <2>2. Canonical(r) = disk.realPath[r.node] /\ r.node = Root
    BY DEF Canonical, Visit, RootEntry
  <2> HIDE DEF r
  <2>3. DOMAIN stack = {1} /\ stack[1] = r /\ DOMAIN items = {} /\ DOMAIN chain = {}
    BY <2>1
  <2>4. LeadInv
    <3>1. LeadsTo(disk, Canonical(r), r.node)
      BY <2>1, <2>2, RealPathLeads
    <3> QED
      BY <2>3, <3>1 DEF LeadInv
  <2>5. RouteInv
    BY <2>1, <2>3 DEF RouteInv
  <2> QED
    BY <2>1, <2>3, <2>4, <2>5 DEF FrameInv, NamedInv
<1>2. TypeOK /\ TypeOK' /\ ActiveInv /\ LeadInv /\ FrameInv /\ RouteInv /\ NamedInv /\ [Next]_vars
        => LeadInv' /\ FrameInv' /\ RouteInv' /\ NamedInv'
  BY LeadStep, FrameStep, RouteStep, NamedStep
<1> QED
  BY <1>1, <1>2, ActiveAlways, WalkTypeCorrect, PTL DEF Spec

\* What the typed errors of walk_dir claim is true on every disk, whatever the server hides of
\* its links and however often a probe fails: a ReparseCycle names a directory that lies above
\* the link and is the link's own target, a ReparseDuplicateTarget another route to the same
\* directory that was told before.
THEOREM RoutesAreNamedRightlyAlways == Spec => []RoutesAreNamedRightly
<1>1. NamedInv => RoutesAreNamedRightly
  BY DEF NamedInv, NamedAt, RoutesAreNamedRightly, Objects
<1> QED
  BY <1>1, RoutesAlways, PTL

\* Without a depth limit nothing is lost to a duplicate: the directory that is left out was
\* listed, or could not be, under the path the error names.
THEOREM DuplicateContentIsListedAlways == Spec => []DuplicateContentIsListed
<1>1. TypeOK /\ NamedInv => DuplicateContentIsListed
  <2> SUFFICES ASSUME NamedInv, limit = Unlimited, NEW i \in DOMAIN items, items[i].kind = "Duplicate"
               PROVE  \E j \in 1 .. i : /\ items[j].path = items[i].ref /\ items[j].node = items[i].node
                                        /\ j \in Enumerations \/ items[j].kind = "CannotEnumerate"
    BY DEF DuplicateContentIsListed, ContentIsUnderFirstPath
  <2>1. PICK j \in 1 .. i : /\ j \in DOMAIN items /\ items[j].path = items[i].ref /\ items[j].node = items[i].node
                            /\ items[j].kind = "CannotEnumerate" \/ (items[j].kind = "Object" /\ items[j].descends)
    BY DEF NamedInv, NamedAt
  <2> QED
    BY <2>1 DEF Enumerations, Objects
<1> QED
  BY <1>1, RoutesAlways, WalkTypeCorrect, PTL
============================================================================
