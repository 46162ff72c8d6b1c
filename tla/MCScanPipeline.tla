--------------------------- MODULE MCScanPipeline ---------------------------
(***************************************************************************)
(* Small instances of ScanPipeline: two scans, short walks, combinations   *)
(* of --db, --output and --force, a channel of one slot.                   *)
(***************************************************************************)
EXTENDS ScanPipeline

MCProcess == {"p1", "p2"}

\* A link with its diagnostic, then an unreadable object: every kind, in an order that lets a
\* cancellation fall before, between and after visits.
MCTrees    == {<<"Object", "Diagnostic", "Error">>}
ShortTrees == {<<"Object", "Object">>}

MCOptions == {[db |-> f, out |-> "Csv", force |-> f] : f \in BOOLEAN}
             \cup {[db |-> TRUE, out |-> "Report", force |-> TRUE], [db |-> TRUE, out |-> "None", force |-> FALSE]}
NoForce   == {[db |-> FALSE, out |-> "Csv", force |-> FALSE]}
=============================================================================
