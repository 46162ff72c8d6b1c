------------------------------ MODULE TreeWalk ------------------------------
(***************************************************************************)
(* The directory walker, crates/fs_scanner/src/walker.rs: an iterative     *)
(* depth-first walk that follows links, tells cycles from duplicate routes *)
(* and stops at a depth limit or when another thread cancels.              *)
(*                                                                         *)
(* A disk has one node per file system object.  The listing of a directory *)
(* is a sequence of entries [name, node, link]: a plain child (link "No"), *)
(* a link whose reparse flag is visible ("Shown"), one the SMB server      *)
(* follows itself ("Hidden"), one that cannot be resolved or that leads    *)
(* from a share to this machine ("Broken"), or an entry read_dir could not *)
(* deliver ("Error").  The head of the stack is its top.                   *)
(***************************************************************************)
EXTENDS Integers, Sequences, SequencesExt, FiniteSets

CONSTANTS Node, Name, Root,
          Disks,     \* the file systems considered
          Limits,    \* the values of WalkConfig.max_depth considered
          MaxPath    \* Windows opens no path longer than this

Unlimited == -1
Links     == {"No", "Shown", "Hidden", "Broken", "Error"}
Entry     == [name : Name, node : Node, link : Links]

\* remote: scanned over SMB.  flaky: directories whose probe may fail.  Real paths tell objects
\* apart and lead through no link.
IsDisk(d) ==
    /\ d.kind \in [Node -> {"Dir", "File", "Unreadable", "OtherShare"}]
    /\ d.listing \in [Node -> Seq(Entry)]
    /\ d.realPath \in [Node -> Seq(Name)] /\ d.realPath[Root] # <<>>
    /\ d.denied \subseteq Node /\ d.flaky \subseteq Node
    /\ d.remote \in BOOLEAN
    /\ \A n \in Node : \A i, j \in DOMAIN d.listing[n] :
         i # j => d.listing[n][i].name # d.listing[n][j].name
    /\ \A n \in Node : \A i \in DOMAIN d.listing[n] :
         LET e == d.listing[n][i] IN
         /\ e.link = "No" => d.realPath[e.node] = Append(d.realPath[n], e.name)
         /\ e.link = "Hidden" => d.remote
         /\ e.link = "Hidden" => \A m \in Node : ~ IsPrefix(Append(d.realPath[n], e.name), d.realPath[m])
    /\ \A m, n \in Node : d.realPath[m] = d.realPath[n] => m = n

ASSUME WalkAssumption ==
    /\ Root \in Node
    /\ Limits \subseteq Nat \cup {Unlimited}
    /\ MaxPath \in Nat
    /\ \A d \in Disks : IsDisk(d)

VARIABLES disk, limit,
          stack,      \* pending WalkWork
          chain,      \* LoopDetector.chain: (key, path) of the active recursion path
          seen,       \* LoopDetector.seen_first_path, as a set of (key, path)
          items,      \* what on_item received
          cancel,     \* the CancellationToken
          status,     \* "walking", "left" (walk_dir returned), "done"
          cancelled   \* what walk_tree_streaming returned
vars == <<disk, limit, stack, chain, seen, items, cancel, status, cancelled>>

----------------------------------------------------------------------------
\* One open per remote directory tells its identity and the share it is served from;
\* after the retries either may still be missing.
Probe == [id : BOOLEAN, path : BOOLEAN]
probe_directory(n) ==
    IF n \in disk.flaky THEN Probe ELSE {[id |-> TRUE, path |-> TRUE]}

\* Reparse points and the root resolve through the file system; a plain child, and a
\* link the server follows itself, derive their canonical path from the parent's.
Canonical(v) ==
    IF v.link = "Shown" \/ v.parent = <<>> THEN disk.realPath[v.node]
    ELSE Append(v.parent, v.name)

\* Mutants: directories are told apart by name only; by path even over SMB.
select_loop_key_by_name(v, p) == [by |-> "path", of |-> <<v.name>>]
select_loop_key_by_path(v, p) == [by |-> "path", of |-> Canonical(v)]

select_loop_key(v, p) ==
    IF disk.remote /\ p.id THEN [by |-> "id", of |-> <<v.node>>]
                           ELSE [by |-> "path", of |-> Canonical(v)]

\* LoopDetector::enter.
IsCycle(key)     == \E i \in DOMAIN chain : chain[i].key = key
IsDuplicate(key) == ~ IsCycle(key) /\ \E s \in seen : s.key = key
IsFresh(key)     == ~ IsCycle(key) /\ ~ IsDuplicate(key)
\* Mutant: the cycle is blamed on the scan root.
ancestor_path_root(key) == chain[1].path
ancestor_path(key) == chain[CHOOSE i \in DOMAIN chain :
                              chain[i].key = key /\ \A j \in 1 .. i - 1 : chain[j].key # key].path
first_path(key)    == (CHOOSE s \in seen : s.key = key).path

\* Mutant: one level too deep.
depth_ok_inclusive(v) == limit = Unlimited \/ v.depth <= limit
depth_ok(v) == limit = Unlimited \/ v.depth < limit

\* The rows and errors of a visit; an object row says whether the walk descends and
\* whether the identity of the directory stayed unknown.
Object(v, descends, unknown) ==
    [kind |-> "Object", path |-> v.path, node |-> v.node,
     descends |-> descends, identityUnknown |-> descends /\ unknown]
Error(v, what, ref) == [kind |-> what, path |-> v.path, node |-> v.node, ref |-> ref]

Visit(path, parent, depth, e) ==
    [op |-> "Visit", path |-> path, parent |-> parent, depth |-> depth,
     name |-> e.name, node |-> e.node, link |-> e.link]
Leave == [op |-> "Leave"]

\* Mutant: entries read_dir could not deliver are skipped.
Children_without_errors(v) ==
    LET listing == SelectSeq(disk.listing[v.node], LAMBDA e : e.link # "Error") IN
    [i \in DOMAIN listing |->
        Visit(Append(v.path, listing[i].name), Canonical(v), v.depth + 1, listing[i])]

\* The entries of a listing as work, in the order read_dir returned them.
Children(v) ==
    LET listing == disk.listing[v.node] IN
    [i \in DOMAIN listing |->
        IF listing[i].link = "Error"
        THEN [op |-> "DirEntryError", path |-> v.path, node |-> v.node]
        ELSE Visit(Append(v.path, listing[i].name), Canonical(v), v.depth + 1, listing[i])]

----------------------------------------------------------------------------
RootEntry(d) == [name |-> Head(d.realPath[Root]), node |-> Root, link |-> "No"]

Init ==
    /\ disk \in Disks
    /\ limit \in Limits
    /\ stack = <<Visit(disk.realPath[Root], <<>>, 0, RootEntry(disk))>>
    /\ chain = <<>>
    /\ seen = {}
    /\ items = <<>>
    /\ cancel = FALSE
    /\ status = "walking"
    /\ cancelled = FALSE

\* The next unit of work, popped while the token is not cancelled.
Popped(op) == status = "walking" /\ ~ cancel /\ stack # <<>> /\ Head(stack).op = op

Emit(new) == items' = items \o new
Pop == stack' = Tail(stack)
kept == <<disk, limit, cancel, status, cancelled>>

LeaveDirectory ==
    /\ Popped("Leave")
    /\ Pop
    /\ chain' = Front(chain)
    /\ UNCHANGED <<seen, items, kept>>

DirEntryError ==
    /\ Popped("DirEntryError")
    /\ Pop
    /\ Emit(<<Error(Head(stack), "EntryError", <<>>)>>)
    /\ UNCHANGED <<chain, seen, kept>>

\* The security descriptor cannot be read, or Windows cannot open the path at all.
Unreadable(v) == disk.kind[v.node] = "Unreadable" \/ Len(v.path) > MaxPath

VisitUnreadable ==
    /\ Popped("Visit") /\ Unreadable(Head(stack))
    /\ Pop
    /\ Emit(<<Error(Head(stack), "Unreadable", <<>>)>>)
    /\ UNCHANGED <<chain, seen, kept>>

IsDir(v) == disk.kind[v.node] \in {"Dir", "OtherShare"}

\* Served from another share than the root: reported, neither shown nor enumerated.
OtherShare(v, p) ==
    disk.remote /\ v.parent # <<>> /\ disk.kind[v.node] = "OtherShare" /\ p.path

VisitOtherShare(p) ==
    /\ Popped("Visit") /\ ~ Unreadable(Head(stack)) /\ OtherShare(Head(stack), p)
    /\ Pop
    /\ Emit(<<Error(Head(stack), "OtherShare", <<>>)>>)
    /\ UNCHANGED <<chain, seen, kept>>

Shown(v, p) == ~ Unreadable(v) /\ ~ OtherShare(v, p)

VisitBrokenLink(p) ==
    /\ Popped("Visit") /\ Shown(Head(stack), p) /\ Head(stack).link = "Broken"
    /\ Pop
    /\ Emit(<<Object(Head(stack), FALSE, FALSE), Error(Head(stack), "Unresolved", <<>>)>>)
    /\ UNCHANGED <<chain, seen, kept>>

VisitFile(p) ==
    /\ Popped("Visit") /\ Shown(Head(stack), p) /\ Head(stack).link # "Broken"
    /\ ~ IsDir(Head(stack))
    /\ Pop
    /\ Emit(<<Object(Head(stack), FALSE, FALSE)>>)
    /\ UNCHANGED <<chain, seen, kept>>

Enterable(v, p) == Shown(v, p) /\ v.link # "Broken" /\ IsDir(v)

VisitCycle(p) ==
    /\ Popped("Visit") /\ Enterable(Head(stack), p)
    /\ LET v == Head(stack) IN
       /\ IsCycle(select_loop_key(v, p))
       /\ Emit(<<Object(v, FALSE, FALSE), Error(v, "Cycle", ancestor_path(select_loop_key(v, p)))>>)
    /\ Pop
    /\ UNCHANGED <<chain, seen, kept>>

VisitDuplicate(p) ==
    /\ Popped("Visit") /\ Enterable(Head(stack), p)
    /\ LET v == Head(stack) IN
       /\ IsDuplicate(select_loop_key(v, p))
       /\ Emit(<<Object(v, FALSE, FALSE), Error(v, "Duplicate", first_path(select_loop_key(v, p)))>>)
    /\ Pop
    /\ UNCHANGED <<chain, seen, kept>>

\* Mutant: Leave on top of the children.
Pushed_leave_first(v) ==
    <<Leave>> \o (IF depth_ok(v) /\ v.node \notin disk.denied THEN Children(v) ELSE <<>>)
    \o Tail(stack)

\* Leave goes below the children: it is popped when the whole subtree is done.
Pushed(v) ==
    (IF depth_ok(v) /\ v.node \notin disk.denied THEN Children(v) ELSE <<>>)
    \o <<Leave>> \o Tail(stack)

VisitDirectory(p) ==
    /\ Popped("Visit") /\ Enterable(Head(stack), p)
    /\ LET v   == Head(stack)
           key == select_loop_key(v, p)
       IN  /\ IsFresh(key)
           /\ seen' = seen \cup {[key |-> key, path |-> v.path]}
           /\ chain' = Append(chain, [key |-> key, path |-> v.path])
           /\ stack' = Pushed(v)
           /\ Emit(IF ~ depth_ok(v) THEN <<Object(v, FALSE, FALSE)>>
                   ELSE IF v.node \in disk.denied
                   THEN <<Object(v, FALSE, FALSE), Error(v, "CannotEnumerate", <<>>)>>
                   ELSE <<Object(v, TRUE, disk.remote /\ ~ p.id)>>)
    /\ UNCHANGED kept

VisitProbed ==
    \E p \in (IF stack # <<>> /\ Head(stack).op = "Visit" THEN probe_directory(Head(stack).node)
              ELSE {}) :
        \/ VisitOtherShare(p) \/ VisitBrokenLink(p) \/ VisitFile(p)
        \/ VisitCycle(p) \/ VisitDuplicate(p) \/ VisitDirectory(p)

\* Mutant: the walk ends only when no work is left.
WalkEnds_when_empty ==
    /\ status = "walking" /\ stack = <<>>
    /\ status' = "left"
    /\ UNCHANGED <<disk, limit, stack, chain, seen, items, cancel, cancelled>>

\* walk_dir returns: nothing left, or cancelled.  What is then on the stack, the unit
\* popped before the token was read included, stays undone.
WalkEnds ==
    /\ status = "walking" /\ (cancel \/ stack = <<>>)
    /\ status' = "left"
    /\ UNCHANGED <<disk, limit, stack, chain, seen, items, cancel, cancelled>>

\* Mutant: a walk that was cut short is returned as complete.
Return_complete ==
    /\ status = "left"
    /\ status' = "done"
    /\ UNCHANGED <<disk, limit, stack, chain, seen, items, cancel, cancelled>>

\* walk_tree_streaming reads the token once more and returns it.
Return ==
    /\ status = "left"
    /\ cancelled' = cancel
    /\ status' = "done"
    /\ UNCHANGED <<disk, limit, stack, chain, seen, items, cancel>>

\* Another thread cancels, at any time.
Cancel ==
    /\ ~ cancel /\ status # "done"
    /\ cancel' = TRUE
    /\ UNCHANGED <<disk, limit, stack, chain, seen, items, status, cancelled>>

Finished == status = "done" /\ UNCHANGED vars

WalkerStep ==
    \/ LeaveDirectory \/ DirEntryError \/ VisitUnreadable \/ VisitProbed \/ WalkEnds \/ Return
Next == WalkerStep \/ Cancel \/ Finished

\* The walk runs on its own thread; nobody has to cancel it.
Spec == Init /\ [][Next]_vars /\ WF_vars(WalkerStep)

----------------------------------------------------------------------------
MaxDepth == IF limit = Unlimited THEN MaxPath ELSE limit

Path == Seq(Name)
Work == [op : {"Visit"}, path : Path, parent : Path, depth : Nat, name : Name, node : Node, link : Links]
        \cup [op : {"DirEntryError"}, path : Path, node : Node]
        \cup {Leave}
Key   == [by : {"id"}, of : Seq(Node)] \cup [by : {"path"}, of : Path]
Frame == [key : Key, path : Path]
Problem == {"EntryError", "Unreadable", "OtherShare", "Unresolved", "Cycle", "Duplicate", "CannotEnumerate"}
Item  == [kind : {"Object"}, path : Path, node : Node, descends : BOOLEAN, identityUnknown : BOOLEAN]
         \cup [kind : Problem, path : Path, node : Node, ref : Path]

\* The state has its type, and no pending Visit lies below max_depth.
TypeOK ==
    /\ IsDisk(disk) /\ limit \in Limits
    /\ stack \in Seq(Work) /\ chain \in Seq(Frame) /\ seen \subseteq Frame /\ items \in Seq(Item)
    /\ \A i \in DOMAIN stack : stack[i].op = "Visit" =>
         /\ stack[i].depth = Len(stack[i].path) - Len(disk.realPath[Root])
         /\ stack[i].depth \in 0 .. MaxDepth
    /\ cancel \in BOOLEAN /\ cancelled \in BOOLEAN
    /\ status \in {"walking", "left", "done"}

Objects      == {i \in DOMAIN items : items[i].kind = "Object"}
Enumerations == {i \in Objects : items[i].descends}
Parent(path) == SubSeq(path, 1, Len(path) - 1)
IsRoot(path) == path = disk.realPath[Root]

\* LoopDetector.chain (enter and leave) is the active recursion path and nothing else: one
\* entry per pending Leave, each the parent directory of the next, the last the parent of the
\* work on top of the stack.
ChainIsActivePath ==
    /\ Len(chain) = Cardinality({i \in DOMAIN stack : stack[i].op = "Leave"})
    /\ \A i \in 1 .. Len(chain) - 1 : chain[i].path = Parent(chain[i + 1].path)
    /\ stack # <<>> /\ Head(stack).op = "Visit" =>
         /\ Len(chain) = Head(stack).depth
         /\ chain # <<>> => chain[Len(chain)].path = Parent(Head(stack).path)

\* What the typed errors claim: a ReparseCycle names a directory above the link that is
\* the link's own target, a ReparseDuplicateTarget another route to the same directory.
RoutesAreNamedRightly ==
    \A i \in DOMAIN items : items[i].kind \in {"Cycle", "Duplicate"} =>
        /\ \E j \in Objects : j < i /\ items[j].path = items[i].ref /\ items[j].node = items[i].node
        /\ items[i].kind = "Cycle" <=> IsStrictPrefix(items[i].ref, items[i].path)

\* "Each distinct directory is enumerated exactly once", or one of the two rows says that
\* the identity of the directory was unknown.
EnumeratedOnce ==
    \A i, j \in Enumerations : i < j /\ items[i].node = items[j].node =>
        items[i].identityUnknown \/ items[j].identityUnknown

\* An entry of a directory has its row or its error after the row of the directory.
Told(i, e) ==
    \E j \in i + 1 .. Len(items) :
        IF e.link = "Error" THEN items[j].kind = "EntryError" /\ items[j].path = items[i].path
        ELSE items[j].path = Append(items[i].path, e.name)

Entries(i) == {disk.listing[items[i].node][k] : k \in DOMAIN disk.listing[items[i].node]}

\* "Never silent skips": a walk that ran to its end has a row or an error for every entry
\* of every directory it lists, after the row of that directory.
NoSilentSkip ==
    status # "walking" /\ ~ cancel => \A i \in Enumerations : \A e \in Entries(i) : Told(i, e)

\* "Each distinct directory is enumerated exactly once": a directory the depth limit
\* would let the walk list is left out as a duplicate only if its content really is in the
\* result (or could not be listed) under the path the error names.
ContentIsUnderFirstPath ==
    \A i \in DOMAIN items :
        items[i].kind = "Duplicate" /\ (limit = Unlimited \/ Len(items[i].path) - Len(disk.realPath[Root]) < limit) =>
            \E j \in 1 .. i : /\ items[j].path = items[i].ref /\ items[j].node = items[i].node
                              /\ j \in Enumerations \/ items[j].kind = "CannotEnumerate"

\* The same for the walks without a depth limit, the default of a full audit.
DuplicateContentIsListed == limit = Unlimited => ContentIsUnderFirstPath

\* What walk_tree_streaming returns: a walk with work left undone is never returned as a
\* complete one.
PartialIsReported == status = "done" /\ stack # <<>> => cancelled

\* Every walk_dir ends: links cannot make it loop forever, and a cancelled walk stops.
WalkTerminates == <>(status = "done")

----------------------------------------------------------------------------
\* The inductive invariants behind these properties.  How many directories are active above
\* the work at position i of a stack: the Leaves below it.
Level(s, i) == Cardinality({j \in DOMAIN s : j >= i /\ s[j].op = "Leave"})

\* All pending work, not only that on top, hangs below the active path.
ActiveInv ==
    /\ Len(chain) = Level(stack, 1)
    /\ \A i \in 1 .. Len(chain) - 1 : chain[i].path = Parent(chain[i + 1].path)
    /\ \A i \in DOMAIN stack : stack[i].op = "Visit" =>
         /\ stack[i].depth = Level(stack, i)
         /\ Level(stack, i) > 0 => chain[Level(stack, i)].path = Parent(stack[i].path)

\* On a local disk the derived canonical paths are the real ones,
CanonicalInv ==
    ~ disk.remote => \A i \in DOMAIN stack :
        stack[i].op = "Visit" /\ stack[i].link # "Broken" => Canonical(stack[i]) = disk.realPath[stack[i].node]

\* and what has been enumerated is remembered under its identity, or its path.
SeenInv ==
    \A i \in Enumerations :
        /\ disk.remote /\ ~ items[i].identityUnknown =>
             \E s \in seen : s.key = [by |-> "id", of |-> <<items[i].node>>]
        /\ ~ disk.remote => \E s \in seen : s.key = [by |-> "path", of |-> disk.realPath[items[i].node]]

\* Every entry of an enumerated directory is told or pending.
Pending(i, e) ==
    \E m \in DOMAIN stack :
        IF e.link = "Error" THEN stack[m].op = "DirEntryError" /\ stack[m].path = items[i].path
        ELSE stack[m].op = "Visit" /\ stack[m].path = Append(items[i].path, e.name)
PendingInv == \A i \in Enumerations : \A e \in Entries(i) : Told(i, e) \/ Pending(i, e)

\* A walk ends with nothing left to do, or cancelled.
EndInv ==
    /\ status # "walking" => cancel \/ stack = <<>>
    /\ PartialIsReported

\* How a canonical path leads to an object: along a real path, and from there through a link
\* the server follows itself to what is listed behind it.
Follows(d, at, c, k) ==
    /\ d.realPath[at[k]] = SubSeq(c, 1, k)
    /\ \A i \in k .. Len(c) - 1 : \E j \in DOMAIN d.listing[at[i]] :
         LET e == d.listing[at[i]][j] IN
         /\ e.name = c[i + 1] /\ e.node = at[i + 1]
         /\ i = k => e.link = "Hidden"
LeadsTo(d, c, n) ==
    \E k \in 0 .. Len(c) : \E at \in [k .. Len(c) -> Node] : at[Len(c)] = n /\ Follows(d, at, c, k)

LeadInv ==
    \A i \in DOMAIN stack : stack[i].op = "Visit" /\ stack[i].link # "Broken" =>
        LeadsTo(disk, Canonical(stack[i]), stack[i].node)

\* What LoopDetector remembers has its row, and with no depth limit its content.
KeyLeadsTo(d, key, n) == IF key.by = "id" THEN key.of = <<n>> ELSE LeadsTo(d, key.of, n)
HasRow(its, path, n) ==
    \E j \in DOMAIN its : its[j].kind = "Object" /\ its[j].path = path /\ its[j].node = n
HasContent(its, path, n) ==
    \E j \in DOMAIN its : /\ its[j].path = path /\ its[j].node = n
                          /\ its[j].kind = "CannotEnumerate" \/ (its[j].kind = "Object" /\ its[j].descends)
Framed(d, lim, s, its) ==
    \E n \in Node : /\ KeyLeadsTo(d, s.key, n) /\ HasRow(its, s.path, n)
                    /\ lim = Unlimited => HasContent(its, s.path, n)
FrameInv == \A s \in seen : Framed(disk, limit, s, items)

\* No route is walked twice.
RouteInv ==
    /\ \A i, j \in DOMAIN stack : stack[i].op = "Visit" /\ stack[j].op = "Visit" /\ i # j =>
         stack[i].path # stack[j].path
    /\ \A i \in DOMAIN stack : stack[i].op = "Visit" => \A s \in seen : s.path # stack[i].path
    /\ \A s \in seen : \/ Len(s.path) = Len(disk.realPath[Root])
                       \/ Len(s.path) > Len(disk.realPath[Root]) /\ \E t \in seen : t.path = Parent(s.path)
    /\ \A s, t \in seen : s.path = t.path => s = t
    /\ \A i \in DOMAIN chain : chain[i] \in seen

WalkInv == ActiveInv /\ CanonicalInv /\ SeenInv /\ EnumeratedOnce /\ PendingInv /\ EndInv
           /\ LeadInv /\ FrameInv /\ RouteInv
============================================================================
