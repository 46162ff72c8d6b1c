------------------------------ MODULE ScanStore ------------------------------
(***************************************************************************)
(* The stored scan history as crates/persistence reads it: the comparison  *)
(* of two runs (delta.rs).  A run is [target, rows, partial]; a row is     *)
(* [key, sig], its key the pair of identity and path, its signature the    *)
(* audit-relevant fields by name.                                          *)
(***************************************************************************)
EXTENDS Naturals, Sequences, FiniteSets

\* Every field that differs is a reason of its own.
signature_diff(old, new) == {f \in DOMAIN old : old[f] # new[f]}

KeysOf(rows) == {rows[i].key : i \in DOMAIN rows}

\* Collected into a map: of two rows with one key the last stays.
RowOf(rows, k) ==
    LET at == CHOOSE i \in DOMAIN rows :
                  rows[i].key = k /\ \A j \in DOMAIN rows : rows[j].key = k => j <= i
    IN  rows[at]

diff_permission_lists(old, new) ==
    LET added   == KeysOf(new) \ KeysOf(old)
        removed == KeysOf(old) \ KeysOf(new)
        Reasons(k) == signature_diff(RowOf(old, k).sig, RowOf(new, k).sig)
        changed == {k \in KeysOf(old) \cap KeysOf(new) : Reasons(k) # {}}
    IN  {[key |-> k, kind |-> "Added", reasons |-> {}] : k \in added}
        \cup {[key |-> k, kind |-> "Removed", reasons |-> {}] : k \in removed}
        \cup {[key |-> k, kind |-> "Changed", reasons |-> Reasons(k)] : k \in changed}
=============================================================================
