----------------------------- MODULE MCTreeWalk -----------------------------
(***************************************************************************)
(* Disks with three directories and a file: every placement of one link    *)
(* per directory, to every directory, in every order of the listings.      *)
(***************************************************************************)
EXTENDS TreeWalk

MCNode == {"r", "a", "b", "f"}
MCName == MCNode \cup {"l", "x"}

Plain(n)   == [name |-> n, node |-> n, link |-> "No"]
To(n, k)   == [name |-> "l", node |-> n, link |-> k]
NoLink     == {{}}
LinksTo(k) == {{To(n, k)} : n \in {"r", "a", "b"}} \cup NoLink

\* The listings of a directory with these plain entries and at most one link.
ListingsOf(plain, k) == UNION {SetToSeqs(plain \cup l) : l \in LinksTo(k)}

Disk(r, a, b, bPath, remote, flaky) ==
    [kind     |-> [n \in MCNode |-> IF n = "f" THEN "File" ELSE "Dir"],
     listing  |-> [n \in MCNode |-> CASE n = "r" -> r [] n = "a" -> a [] n = "b" -> b [] n = "f" -> <<>>],
     realPath |-> [n \in MCNode |-> CASE n = "r" -> <<"r">> [] n = "a" -> <<"r", "a">>
                                      [] n = "b" -> bPath    [] n = "f" -> Append(bPath, "f")],
     denied |-> {}, flaky |-> flaky, remote |-> remote]

Flat(k, remote, flaky) ==
    {Disk(r, a, b, <<"r", "b">>, remote, flaky) :
        r \in ListingsOf({Plain("a"), Plain("b")}, k), a \in ListingsOf({}, k), b \in {<<Plain("f")>>}}
Deep(k, remote, flaky) ==
    {Disk(r, a, b, <<"r", "a", "b">>, remote, flaky) :
        r \in ListingsOf({Plain("a")}, k), a \in ListingsOf({Plain("b")}, k),
        b \in ListingsOf({Plain("f")}, k)}

\* Failures: unreadable objects, another share, denied listings, bad entries, broken links.
Failing ==
    LET base == Disk(<<Plain("a")>>, <<To("r", "Shown"), Plain("b"), [To("b", "Error") EXCEPT !.name = "x"]>>,
                     <<To("a", "Broken"), Plain("f")>>, <<"r", "a", "b">>, TRUE, {})
    IN  {[base EXCEPT !.kind["a"] = x, !.kind["f"] = y, !.denied = z] :
            x \in {"Dir", "OtherShare", "Unreadable"}, y \in {"File", "Unreadable"}, z \in {{}, {"r"}, {"b"}}}

MCLimits    == {Unlimited, 2}
LocalDisks  == Flat("Shown", FALSE, {}) \cup Deep("Shown", FALSE, {})
RemoteDisks == Flat("Hidden", TRUE, {"a"}) \cup Deep("Hidden", TRUE, {"b"}) \cup Failing
MCDisks     == LocalDisks \cup RemoteDisks
=============================================================================
