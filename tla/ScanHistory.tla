---------------------------- MODULE ScanHistory ----------------------------
(***************************************************************************)
(* What a reader of the scan history may rely on: a run appears in one     *)
(* step, complete or marked as cut short, and never changes afterwards.    *)
(***************************************************************************)
EXTENDS Naturals, Sequences

CONSTANTS Process   \* the scans, one run each
VARIABLES tree,     \* tree[p]: the items the walk of p would deliver if nothing stopped it
          history   \* history[p]: the stored items of the run, or NoRun

NoRun == [stored |-> FALSE, items |-> <<>>]
Run(items) == [stored |-> TRUE, items |-> items]
Note  == 0          \* the stored error "Scan cancelled by user - results are partial"

Delivered(k) == [i \in 1 .. k |-> i]

Init == history = [p \in Process |-> NoRun]

\* Everything the walk delivers, or less of it with the note.
Publish(p) ==
    /\ history[p] = NoRun
    /\ \E k \in 0 .. Len(tree[p]) :
         \/ history' = [history EXCEPT ![p] = Run(Append(Delivered(k), Note))]
         \/ k = Len(tree[p]) /\ history' = [history EXCEPT ![p] = Run(Delivered(k))]
    /\ UNCHANGED tree

Next == \E p \in Process : Publish(p)
Spec == Init /\ [][Next]_<<tree, history>>
============================================================================
