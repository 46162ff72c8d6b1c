--------------------------- MODULE SharedHistory ---------------------------
(***************************************************************************)
(* The two windows of GuiWorker beside other processes on the database: a  *)
(* CLI scan that holds the write lock from its first row to its COMMIT and *)
(* a process that reads for longer than SQLite waits (a large run being    *)
(* loaded).                                                                *)
(***************************************************************************)
EXTENDS GuiWorker

CONSTANT CliRun   \* the number of the run the CLI scan writes, above every number the window gives

here == <<clicks, issued, reqs, evts, wakeups, pumping, worker, dbOpen, cancel, last, deleting, elsewhere, ui>>

\* ScanStore::begin_scan of run_scan.
CliBegins ==
    /\ lock = Nobody /\ CliRun \notin DOMAIN store
    /\ lock' = "cli" /\ UNCHANGED <<here, store, reading>>
CliCommits ==
    /\ lock = "cli" /\ ~ reading
    /\ lock' = Nobody
    /\ store' = [r \in DOMAIN store \cup {CliRun} |-> IF r = CliRun THEN StoredRun ELSE store[r]]
    /\ UNCHANGED <<here, reading>>
CliFails == lock = "cli" /\ lock' = Nobody /\ UNCHANGED <<here, store, reading>>

Reader == reading' = ~ reading /\ UNCHANGED <<here, store, lock>>

Other == CliBegins \/ CliCommits \/ CliFails \/ Reader

SharedNext == Next \/ Other
SharedSpec == Init /\ [][SharedNext]_vars /\ WF_vars(Worker) /\ WF_vars(Pump)
=============================================================================
