------------------------------ MODULE GuiWorker ------------------------------
(***************************************************************************)
(* The window of the GUI: its tabs (crates/gui/src/tabs), the worker       *)
(* thread that serves their requests (worker.rs), the event pump between   *)
(* the two (main.rs) and the scan history both read and write through      *)
(* SQLite.  The UI thread and the worker share two queues, the wake-ups of *)
(* the event loop and one cancellation token.                              *)
(*                                                                         *)
(* Requests are numbered; a run stored for request n has number n.         *)
(***************************************************************************)
EXTENDS ScanStore

CONSTANTS
    Tabs,         \* the tabs that ask one question and show one answer
    Guarded,      \* those whose button is disabled while the answer is out
    Found,        \* how many objects the tree of a scan holds
    StoredRuns,   \* runs in the database when the window opens
    MaxLoads,     \* bound: clicks on "Load scan history"
    MaxRequests,  \* bound: other clicks that send a request, deletions of the second window
    MaxMarks      \* bound: check marks set or taken back, panels closed

\* The requests of the Scan and the Delta tab, and the events that are no answer yet.
ScanAndDelta == {"scan", "export", "runs", "compare", "delete", "errors"}
Progress     == {"scan item", "scan error", "risks"}

\* The preloaded list, every click, and the reload after every deletion.
MaxId == 2 * MaxRequests + MaxLoads + 1

ASSUME GuiAssumption ==
    /\ Guarded \subseteq Tabs
    /\ Found \in Nat /\ MaxRequests \in Nat /\ MaxLoads \in Nat /\ MaxMarks \in Nat
    /\ StoredRuns \subseteq Nat /\ \A r \in StoredRuns : r > MaxId
    /\ {"analyze", "identities"} \subseteq Tabs /\ "identities" \notin Guarded
    /\ Tabs \cap ScanAndDelta = {} /\ Tabs \cap Progress = {}

VARIABLES
    clicks,     \* clicks left, by bound, in both windows
    issued,     \* requests numbered so far
    reqs,       \* the request channel
    evts,       \* the event channel
    wakeups,    \* closures handed to invoke_from_event_loop and not run yet
    pumping,    \* pump_worker_events is running: the UI thread takes no click
    worker,     \* the worker thread: where it stands and what it works on
    dbOpen,     \* Database::open succeeded
    cancel,     \* the CancellationToken of the window
    last,       \* last_permissions (and the findings and trustees that go with them)
    store,      \* the committed runs
    deleting,   \* runs deleted in a transaction still open on the worker's connection
    lock,       \* who holds SQLite's write lock
    reading,    \* another process holds a read lock on the database
    elsewhere,  \* history: for each run another window deleted, what the worker may have read of it
    tab, scan, delta   \* what the tabs show

sqlite == <<store, deleting, lock, reading, elsewhere>>
ui     == <<tab, scan, delta>>
vars   == <<clicks, issued, reqs, evts, wakeups, pumping, worker, dbOpen, cancel, last, sqlite, ui>>

None   == 0
NoExport == [asked |-> None, rows |-> <<>>]
Nobody == "nobody"
Idle   == [pc |-> "recv", id |-> None, rows |-> <<>>, found |-> 0, errors |-> 0, cancelled |-> FALSE]

Row(id, path) == [key |-> path, sig |-> [effective_mask |-> id]]
RowsOf(id, k) == [i \in 1 .. k |-> Row(id, i)]
StoredRun     == [target |-> "root", rows |-> <<Row(1, 1), Row(1, 2)>>, partial |-> FALSE]

\* What a statement on the worker's own connection sees.
View == [r \in DOMAIN store \ deleting |-> store[r]]

\* run_ui asks for the list of identities before the window opens.
Preload == [kind |-> "identities", id |-> 1, arg |-> None]

Init ==
    /\ clicks = [load |-> MaxLoads, other |-> MaxRequests, mark |-> MaxMarks]
    /\ issued = 1 /\ reqs = <<Preload>> /\ evts = <<>> /\ wakeups = 0 /\ pumping = FALSE
    /\ worker = [Idle EXCEPT !.pc = "start"]
    /\ dbOpen = FALSE /\ cancel = FALSE
    /\ last = <<>>
    /\ store = [r \in StoredRuns |-> StoredRun]
    /\ deleting = {} /\ lock = Nobody /\ reading = FALSE /\ elsewhere = [r \in {} |-> {}]
    /\ tab = [t \in Tabs |-> [running |-> FALSE, shown |-> None,
                              asked |-> IF t = "identities" THEN 1 ELSE None]]
    /\ scan = [running |-> FALSE, done |-> FALSE, id |-> None, rows |-> <<>>, errors |-> 0,
               risks |-> None, run |-> None, cancelled |-> FALSE, isError |-> FALSE,
               cancelClicked |-> "no", export |-> NoExport]
    /\ delta = [loading |-> FALSE, runs |-> {}, old |-> None, new |-> None,
                result |-> <<>>, title |-> None, errors |-> None]

----------------------------------------------------------------------------
(* Clicks.  The UI thread runs one handler at a time.                      *)

Clicked(b) == ~ pumping /\ clicks[b] > 0 /\ clicks' = [clicks EXCEPT ![b] = @ - 1]
CanAsk  == Clicked("other")
Next1   == issued + 1
Reached == worker.pc # "dead"      \* Sender::send succeeds

\* A request is numbered and sent; a dead worker refuses it.
Send(kind, arg) ==
    /\ issued' = Next1
    /\ reqs' = IF Reached THEN Append(reqs, [kind |-> kind, id |-> Next1, arg |-> arg]) ELSE reqs

\* Analyze, "Who has access?", Groups, Shares, Trusts; Search AD and the update check.
Ask(t) ==
    /\ CanAsk /\ t # "identities" /\ (t \in Guarded => ~ tab[t].running)
    /\ Send(t, None)
    /\ tab' = [tab EXCEPT ![t] = [running |-> Reached, asked |-> IF Reached THEN Next1 ELSE @.asked,
                                  shown |-> IF t \in Guarded THEN None ELSE @.shown]]
    /\ UNCHANGED <<evts, wakeups, pumping, worker, dbOpen, cancel, last, sqlite, scan, delta>>

\* Mutants of the Start click: the lists are kept; the token is not reset.
StartScan_keeping_rows ==
    /\ CanAsk /\ ~ scan.running
    /\ Send("scan", None)
    /\ cancel' = FALSE
    /\ scan' = [scan EXCEPT !.running = Reached, !.done = FALSE, !.id = Next1, !.run = None, !.risks = None,
                            !.cancelled = FALSE,
                            !.isError = ~ Reached, !.cancelClicked = "no", !.export = NoExport]
    /\ UNCHANGED <<evts, wakeups, pumping, worker, dbOpen, last, sqlite, tab, delta>>
StartScan_keeping_token ==
    /\ CanAsk /\ ~ scan.running
    /\ Send("scan", None)
    /\ scan' = [scan EXCEPT !.running = Reached, !.done = FALSE, !.id = Next1, !.rows = <<>>,
                            !.errors = 0, !.run = None, !.risks = None,
                            !.cancelled = FALSE, !.isError = ~ Reached,
                            !.cancelClicked = "no", !.export = NoExport]
    /\ UNCHANGED <<evts, wakeups, pumping, worker, dbOpen, cancel, last, sqlite, tab, delta>>

\* Start: the lists are cleared and the token is reset before the request is sent.
StartScan ==
    /\ CanAsk /\ ~ scan.running
    /\ Send("scan", None)
    /\ cancel' = FALSE
    /\ scan' = [scan EXCEPT !.running = Reached, !.done = FALSE, !.id = Next1, !.rows = <<>>,
                            !.errors = 0, !.run = None, !.risks = None,
                            !.cancelled = FALSE, !.isError = ~ Reached,
                            !.cancelClicked = "no", !.export = NoExport]
    /\ UNCHANGED <<evts, wakeups, pumping, worker, dbOpen, last, sqlite, tab, delta>>

\* The worker has not begun to walk the tree of the scan the tab waits for.
BeforeWalk == worker.id # scan.id /\ \E i \in DOMAIN reqs : reqs[i].id = scan.id

\* Cancel; the model also notes whether the walk had begun.
CancelScan ==
    /\ ~ pumping /\ scan.running
    /\ cancel' = TRUE
    /\ scan' = [scan EXCEPT !.cancelClicked = IF BeforeWalk \/ @ = "early" THEN "early" ELSE "late"]
    /\ UNCHANGED <<clicks, issued, reqs, evts, wakeups, pumping, worker, dbOpen, last, sqlite, tab, delta>>

\* Export is possible at any time: the worker writes what it scanned last.
Export ==
    /\ CanAsk
    /\ Send("export", scan.id)
    /\ scan' = [scan EXCEPT !.export = NoExport]
    /\ UNCHANGED <<evts, wakeups, pumping, worker, dbOpen, cancel, last, sqlite, tab, delta>>

LoadRuns ==
    /\ Clicked("load") /\ ~ delta.loading
    /\ Send("runs", None)
    /\ delta' = [delta EXCEPT !.loading = Reached]
    /\ UNCHANGED <<evts, wakeups, pumping, worker, dbOpen, cancel, last, sqlite, tab, scan>>

\* The exclusive check marks: a second click takes the mark back.
Pick(side, r) ==
    /\ Clicked("mark") /\ r \in delta.runs
    /\ delta' = [delta EXCEPT ![side] = IF @ = r THEN None ELSE r]
    /\ UNCHANGED <<issued, reqs, evts, wakeups, pumping, worker, dbOpen, cancel, last, sqlite, tab, scan>>

Compare ==
    /\ CanAsk /\ delta.old # None /\ delta.new # None /\ delta.old # delta.new
    /\ Send("compare", <<delta.old, delta.new>>)
    /\ delta' = [delta EXCEPT !.loading = Reached, !.result = <<>>]
    /\ UNCHANGED <<evts, wakeups, pumping, worker, dbOpen, cancel, last, sqlite, tab, scan>>

DeleteRun(r) ==
    /\ CanAsk /\ r \in delta.runs
    /\ Send("delete", r)
    /\ UNCHANGED <<evts, wakeups, pumping, worker, dbOpen, cancel, last, sqlite, ui>>

\* The panel opens at once under the label of the run; its rows follow.
ShowErrors(r) ==
    /\ CanAsk /\ r \in delta.runs
    /\ Send("errors", r)
    /\ delta' = [delta EXCEPT !.title = IF Reached THEN r ELSE None, !.errors = None]
    /\ UNCHANGED <<evts, wakeups, pumping, worker, dbOpen, cancel, last, sqlite, tab, scan>>

ClosePanel ==
    /\ Clicked("mark") /\ delta.title # None
    /\ delta' = [delta EXCEPT !.title = None]
    /\ UNCHANGED <<issued, reqs, evts, wakeups, pumping, worker, dbOpen, cancel, last, sqlite, tab, scan>>

----------------------------------------------------------------------------
(* The worker thread: spawn_worker and its handlers.                       *)

workerOnly == <<clicks, issued, pumping, cancel, ui>>

\* Mutant: the newest answer is delivered first.
Emit_first(e) == evts' = <<e>> \o evts

\* evt_tx.send.
Emit(e) == evts' = Append(evts, e)

Req        == Head(reqs)
Ok(kind, value) == [kind |-> kind, id |-> Req.id, ok |-> TRUE, value |-> <<value>>]
Err(kind)       == [kind |-> kind, id |-> Req.id, ok |-> FALSE, value |-> <<>>]

StartWorker ==
    /\ worker.pc = "start"
    /\ worker' = Idle
    /\ dbOpen' \in BOOLEAN
    /\ UNCHANGED <<workerOnly, reqs, evts, wakeups, last, sqlite>>

\* The tokio runtime cannot be created: the thread returns and both channels close.
WorkerDies ==
    /\ worker.pc = "start"
    /\ worker' = [worker EXCEPT !.pc = "dead"]
    /\ reqs' = <<>>
    /\ UNCHANGED <<workerOnly, evts, wakeups, dbOpen, last, sqlite>>

Serves(kinds) == worker.pc = "recv" /\ reqs # <<>> /\ Req.kind \in kinds
Mine(pc)      == worker.pc = pc
Finish        == reqs' = Tail(reqs) /\ worker' = [Idle EXCEPT !.pc = "notify"]

\* SQLite (external): BEGIN IMMEDIATE fails while another process holds the write lock or a
\* transaction is open on this connection, COMMIT while another process reads; every
\* statement may fail (a lock held longer than SQLite waits, a disk error, a corrupt row).
BeginFails  == lock # Nobody
CommitFails == reading

\* Mutant: a cancelled run is stored without its note.
persist_scan_without_note(id, target, rows, cancelled) ==
    [r \in DOMAIN store \cup {id} |->
        IF r = id THEN [target |-> target, rows |-> rows, partial |-> FALSE] ELSE store[r]]

\* persist_scan: one transaction; a cancelled run carries the pathless note.
persist_scan(id, target, rows, cancelled) ==
    [r \in DOMAIN store \cup {id} |->
        IF r = id THEN [target |-> target, rows |-> rows, partial |-> cancelled] ELSE store[r]]

\* It is stored, or nothing of it is (ScanWriter rolls back when dropped) and the reason is told.
Persisted(target, rows, cancelled, run) ==
    \/ /\ dbOpen /\ ~ BeginFails /\ ~ CommitFails
       /\ run = Req.id
       /\ store' = persist_scan(Req.id, target, rows, cancelled)
    \/ run = None /\ UNCHANGED store

\* Mutant: a failed analysis is not reported.
Analyze_silent ==
    /\ Serves({"analyze"}) /\ Finish
    /\ \/ \E run \in {None, Req.id} :
           /\ Persisted("path", RowsOf(Req.id, 1), FALSE, run)
           /\ Emit(Ok("analyze", run))
       \/ UNCHANGED <<evts, store>>
    /\ UNCHANGED <<workerOnly, wakeups, dbOpen, last, deleting, lock, reading, elsewhere>>

\* Analyze: a result becomes a run of one row; a failed analysis is not stored.
Analyze ==
    /\ Serves({"analyze"}) /\ Finish
    /\ \/ \E run \in {None, Req.id} :
           /\ Persisted("path", RowsOf(Req.id, 1), FALSE, run)
           /\ Emit(Ok("analyze", run))
       \/ Emit(Err("analyze")) /\ UNCHANGED store
    /\ UNCHANGED <<workerOnly, wakeups, dbOpen, last, deleting, lock, reading, elsewhere>>

\* The handlers that read the target, the directory or the release source and keep nothing.
Answer ==
    /\ Serves(Tabs \ {"analyze"}) /\ Finish
    /\ Emit(Ok(Req.kind, None)) \/ Emit(Err(Req.kind))
    /\ UNCHANGED <<workerOnly, wakeups, dbOpen, last, sqlite>>

\* recv returns a scan: handle_scan begins.
ScanBegins ==
    /\ Serves({"scan"})
    /\ worker' = [Idle EXCEPT !.pc = "scan", !.id = Req.id]
    /\ UNCHANGED <<workerOnly, reqs, evts, wakeups, dbOpen, last, sqlite>>

\* Mutant: the early return forgets the summary.
ScanRejected_silently ==
    /\ Mine("scan") /\ worker.found = 0
    /\ Finish
    /\ Emit([Err("scan error") EXCEPT !.value = <<worker.id>>])
    /\ UNCHANGED <<workerOnly, wakeups, dbOpen, last, sqlite>>

\* An invalid input or an unresolved identity ends it with one error and no rows.
ScanRejected ==
    /\ Mine("scan") /\ worker.found = 0
    /\ Emit([Err("scan error") EXCEPT !.value = <<worker.id>>])
    /\ worker' = [worker EXCEPT !.pc = "rows", !.errors = 1, !.found = 1]
    /\ UNCHANGED <<workerOnly, reqs, wakeups, dbOpen, last, sqlite>>

\* walk_tree: the token is read before each object.
WalkOn ==
    /\ Mine("scan") /\ ~ cancel /\ worker.found < Found
    /\ worker' = [worker EXCEPT !.found = @ + 1]
    /\ UNCHANGED <<workerOnly, reqs, evts, wakeups, dbOpen, last, sqlite>>

WalkEnds ==
    /\ Mine("scan") /\ (cancel \/ worker.found = Found)
    /\ worker' = [worker EXCEPT !.pc = "rows", !.cancelled = cancel]
    /\ UNCHANGED <<workerOnly, reqs, evts, wakeups, dbOpen, last, sqlite>>

Evaluated == Len(worker.rows) + worker.errors

\* Each object is evaluated after the whole walk; its row or its error is sent, unannounced.
EvaluateRow ==
    /\ Mine("rows") /\ Evaluated < worker.found
    /\ \/ /\ Emit(Ok("scan item", Row(worker.id, Evaluated + 1)))
          /\ worker' = [worker EXCEPT !.rows = Append(@, Row(worker.id, Evaluated + 1))]
       \/ /\ Emit([Err("scan error") EXCEPT !.value = <<worker.id>>])
          /\ worker' = [worker EXCEPT !.errors = @ + 1]
    /\ UNCHANGED <<workerOnly, reqs, wakeups, dbOpen, last, sqlite>>

\* The results of this scan replace those of the last one, rows or not.
Keep(rows) == rows

\* The run is stored; findings and ScanDone are sent.
ScanDone ==
    /\ Mine("rows") /\ Evaluated = worker.found /\ Finish
    /\ \E run \in {None, worker.id} :
         /\ Persisted("root", worker.rows, worker.cancelled, run)
         /\ evts' = evts \o
              << Ok("risks", worker.id),
                 Ok("scan", [run |-> run, cancelled |-> worker.cancelled, errors |-> worker.errors]) >>
    /\ last' = Keep(worker.rows)
    /\ UNCHANGED <<workerOnly, wakeups, dbOpen, deleting, lock, reading, elsewhere>>

\* export_report: refused for an existing file, an invalid path or a failing write.
ExportReport ==
    /\ Serves({"export"}) /\ Finish
    /\ Emit(Err("export")) \/ Emit(Ok("export", [asked |-> Req.arg, rows |-> last]))
    /\ UNCHANGED <<workerOnly, wakeups, dbOpen, last, sqlite>>

ListRuns ==
    /\ Serves({"runs"}) /\ Finish
    /\ (dbOpen /\ Emit(Ok("runs", DOMAIN View))) \/ Emit(Err("runs"))
    /\ UNCHANGED <<workerOnly, wakeups, dbOpen, last, sqlite>>

ListRunErrors ==
    /\ Serves({"errors"}) /\ Finish
    /\ (dbOpen /\ Emit(Ok("errors", Req.arg))) \/ Emit(Err("errors"))
    /\ UNCHANGED <<workerOnly, wakeups, dbOpen, last, sqlite>>

\* Mutant: a run that does not exist is not noticed.
run_target_unchecked(r) == TRUE

\* run_target: an unknown run is an error.
run_target(r) == r \in DOMAIN View

Targets(pair) == \A i \in 1 .. 2 : run_target(pair[i])
RowsIn(r)     == IF r \in DOMAIN View THEN View[r].rows ELSE <<>>

\* compare_scans reads the two targets, then the rows of each run, outside any transaction.
CompareTargets ==
    /\ Serves({"compare"})
    /\ IF /\ dbOpen /\ Targets(Req.arg)
          /\ {Req.arg[1], Req.arg[2]} \subseteq DOMAIN View =>
                View[Req.arg[1]].target = View[Req.arg[2]].target
       THEN /\ worker' = [worker EXCEPT !.pc = "load"]
            /\ UNCHANGED <<reqs, evts>>
       ELSE Finish /\ Emit(Err("compare"))
    /\ UNCHANGED <<workerOnly, wakeups, dbOpen, last, sqlite>>

CompareRows ==
    /\ Mine("load") /\ Finish
    /\ \/ Emit(Ok("compare", [of |-> Req.arg,
                            rows |-> diff_permission_lists(RowsIn(Req.arg[1]), RowsIn(Req.arg[2]))]))
       \/ Emit(Err("compare"))
    /\ UNCHANGED <<workerOnly, wakeups, dbOpen, last, sqlite>>

\* A statement of the deletion fails (external): ROLLBACK.
DeleteFails(r) == UNCHANGED <<deleting, lock>>

\* ScanStore::delete_scan_run.  A COMMIT that fails returns at once: the transaction stays
\* open on the connection, and with it the write lock.
DeleteScanRun ==
    /\ Serves({"delete"}) /\ Finish
    /\ \/ /\ dbOpen => BeginFails
          /\ Emit([Err("delete") EXCEPT !.value = <<Req.arg>>]) /\ UNCHANGED <<store, deleting, lock>>
       \/ /\ dbOpen /\ ~ BeginFails /\ ~ CommitFails
          /\ store' = [r \in DOMAIN store \ {Req.arg} |-> store[r]]
          /\ Emit(Ok("delete", Req.arg)) /\ UNCHANGED <<deleting, lock>>
       \/ /\ dbOpen /\ ~ BeginFails
          /\ DeleteFails(Req.arg)
          /\ Emit([Err("delete") EXCEPT !.value = <<Req.arg>>]) /\ UNCHANGED store
       \/ /\ dbOpen /\ ~ BeginFails /\ CommitFails
          /\ deleting' = {Req.arg} /\ lock' = "worker"
          /\ Emit([Err("delete") EXCEPT !.value = <<Req.arg>>]) /\ UNCHANGED store
    /\ UNCHANGED <<workerOnly, wakeups, dbOpen, last, reading, elsewhere>>

\* Mutant: the event loop is told twice.
Notify_twice ==
    /\ worker.pc = "notify"
    /\ wakeups' = wakeups + 2
    /\ worker' = Idle
    /\ UNCHANGED <<workerOnly, reqs, evts, dbOpen, last, sqlite>>

\* notify(): after the event is in the channel.
Notify ==
    /\ worker.pc = "notify"
    /\ wakeups' = wakeups + 1
    /\ worker' = Idle
    /\ UNCHANGED <<workerOnly, reqs, evts, dbOpen, last, sqlite>>
Worker ==
    \/ StartWorker \/ WorkerDies \/ Analyze \/ Answer \/ ScanBegins \/ ScanRejected \/ WalkOn \/ WalkEnds
    \/ EvaluateRow \/ ScanDone \/ ExportReport \/ ListRuns \/ ListRunErrors
    \/ CompareTargets \/ CompareRows \/ DeleteScanRun \/ Notify

----------------------------------------------------------------------------
(* The event pump, on the UI thread.                                       *)

uiOnly == <<clicks, worker, dbOpen, cancel, last, sqlite>>

\* try_recv until the channel is empty.
StillPumping(events) == events # <<>>

Wake ==
    /\ wakeups > 0 /\ ~ pumping
    /\ wakeups' = wakeups - 1
    /\ pumping' = (evts # <<>>)
    /\ UNCHANGED <<uiOnly, issued, reqs, evts, ui>>

Event == Head(evts)
Handles(kinds) ==
    /\ pumping /\ Event.kind \in kinds
    /\ evts' = Tail(evts) /\ pumping' = StillPumping(Tail(evts))
Value    == Event.value[1]
pumpOnly == <<uiOnly, wakeups>>

\* apply_result, handle_trustees_done, handle_done of Groups, Shares and Trusts, ...
ShowAnswer ==
    /\ Handles(Tabs)
    /\ tab' = [tab EXCEPT ![Event.kind] = [@ EXCEPT !.running = FALSE, !.shown = Event.id]]
    /\ UNCHANGED <<pumpOnly, issued, reqs, scan, delta>>

\* handle_item, handle_error, handle_risk_findings.
ShowProgress ==
    /\ Handles({"scan item", "scan error", "risks"})
    /\ scan' = [scan EXCEPT
          !.rows   = IF Event.kind = "scan item" THEN Append(@, Value) ELSE @,
          !.errors = IF Event.kind = "scan error" THEN @ + 1 ELSE @,
          !.risks  = IF Event.kind = "risks" THEN Value ELSE @]
    /\ UNCHANGED <<pumpOnly, issued, reqs, tab, delta>>

\* handle_done: a cancelled scan and a failed persistence are shown as errors.
ShowScanDone ==
    /\ Handles({"scan"})
    /\ scan' = [scan EXCEPT !.running = FALSE, !.done = TRUE, !.errors = Value.errors,
                            !.run = Value.run, !.cancelled = Value.cancelled,
                            !.isError = Value.cancelled \/ Value.run = None]
    /\ UNCHANGED <<pumpOnly, issued, reqs, tab, delta>>

ShowExport ==
    /\ Handles({"export"})
    /\ scan' = [scan EXCEPT !.export = IF Event.ok THEN Value ELSE NoExport]
    /\ UNCHANGED <<pumpOnly, issued, reqs, tab, delta>>

Still(r, runs) == IF r \in runs THEN r ELSE None

\* handle_runs_loaded: marks on runs that no longer exist are dropped.
ShowRuns ==
    /\ Handles({"runs"})
    /\ delta' = IF Event.ok
                THEN [delta EXCEPT !.loading = FALSE, !.runs = Value,
                                   !.old = Still(@, Value), !.new = Still(@, Value)]
                ELSE [delta EXCEPT !.loading = FALSE]
    /\ UNCHANGED <<pumpOnly, issued, reqs, tab, scan>>

\* handle_computed.
ShowDelta ==
    /\ Handles({"compare"})
    /\ delta' = [delta EXCEPT !.loading = FALSE, !.result = IF Event.ok THEN <<Value>> ELSE <<>>]
    /\ UNCHANGED <<pumpOnly, issued, reqs, tab, scan>>

\* Mutant: the panel of a failed load stays open.
ShowRunErrors_open ==
    /\ Handles({"errors"})
    /\ delta' = IF Event.ok THEN [delta EXCEPT !.errors = Value] ELSE delta
    /\ UNCHANGED <<pumpOnly, issued, reqs, tab, scan>>

\* handle_run_errors_loaded: the event does not say whose errors it carries.
ShowRunErrors ==
    /\ Handles({"errors"})
    /\ delta' = IF Event.ok THEN [delta EXCEPT !.errors = Value] ELSE [delta EXCEPT !.title = None]
    /\ UNCHANGED <<pumpOnly, issued, reqs, tab, scan>>

\* handle_run_deleted: marks, the delta and the panel go, and the list is asked for again.
ShowDeleted ==
    /\ Handles({"delete"})
    /\ LET r == Value
       IN  IF Event.ok
           THEN /\ delta' = [delta EXCEPT !.runs = @ \ {r}, !.result = <<>>, !.title = None,
                                          !.old = IF @ = r THEN None ELSE @,
                                          !.new = IF @ = r THEN None ELSE @]
                /\ Send("runs", None)
           ELSE UNCHANGED <<delta, issued, reqs>>
    /\ UNCHANGED <<pumpOnly, tab, scan>>

Pump == Wake \/ ShowAnswer \/ ShowProgress \/ ShowScanDone \/ ShowExport \/ ShowRuns
        \/ ShowDelta \/ ShowRunErrors \/ ShowDeleted

----------------------------------------------------------------------------
(* A second window of the program on the same database.                    *)

\* What the worker may have read, or may still read, as the rows of a run: its rows, also
\* those of a run that is gone; nothing, if the run went while it was being compared.
ReadAs(r) == (IF r \in DOMAIN store THEN {store[r].rows} ELSE {})
             \cup (IF r \in DOMAIN elsewhere THEN elsewhere[r] ELSE {})
Compared  == IF worker.pc = "load" THEN {Req.arg[1], Req.arg[2]} ELSE {}

\* Its ScanStore::delete_scan_run; this window is not told.
SecondWindow(r) ==
    /\ lock = Nobody /\ ~ reading
    /\ clicks["other"] > 0 /\ clicks' = [clicks EXCEPT !["other"] = @ - 1]
    /\ store' = [q \in DOMAIN store \ {r} |-> store[q]]
    /\ elsewhere' = [q \in DOMAIN elsewhere \cup {r} |->
                       IF q = r THEN ReadAs(r) \cup (IF r \in Compared THEN {<<>>} ELSE {}) ELSE elsewhere[q]]
    /\ UNCHANGED <<issued, reqs, evts, wakeups, pumping, worker, dbOpen, cancel, last,
                   deleting, lock, reading, ui>>

----------------------------------------------------------------------------
Click ==
    \/ \E t \in Tabs : Ask(t)
    \/ StartScan \/ CancelScan \/ Export \/ LoadRuns \/ Compare \/ ClosePanel
    \/ \E r \in delta.runs : DeleteRun(r) \/ ShowErrors(r) \/ \E side \in {"old", "new"} : Pick(side, r)

Window      == Click \/ Worker \/ Pump
OtherWindow == \E r \in DOMAIN store : SecondWindow(r)

Next == Window \/ OtherWindow

\* The worker thread and the event loop keep running; nobody has to click.
Spec == Init /\ [][Next]_vars /\ WF_vars(Worker) /\ WF_vars(Pump)

----------------------------------------------------------------------------
\* Nothing is under way in the window.
Settled == worker.pc = "recv" /\ reqs = <<>> /\ evts = <<>> /\ ~ pumping

\* The state has its type; no more wake-ups than answers; a transaction that is left open
\* holds the write lock.
TypeOK ==
    /\ issued \in 1 .. MaxId /\ wakeups \in 0 .. issued /\ pumping \in BOOLEAN
    /\ worker.pc \in {"start", "dead", "recv", "scan", "rows", "load", "notify"}
    /\ worker.found \in 0 .. Found + 1 /\ Len(worker.rows) <= worker.found
    /\ lock \in {Nobody, "worker", "cli"} /\ (deleting # {} <=> lock = "worker")
    /\ \A r \in DOMAIN store : store[r].partial \in BOOLEAN
    /\ delta.old \in delta.runs \cup {None} /\ delta.new \in delta.runs \cup {None}

\* Once everything is answered, every tab shows the answer to its latest request.
TabsShowLatest ==
    Settled => \A t \in Tabs : ~ tab[t].running /\ tab[t].shown = tab[t].asked

\* Every row and finding in the Scan tab belongs to the scan started last, although rows of
\* an earlier scan may still have been in the channel when Start cleared the lists; a report
\* exported for the scan on screen holds its rows (handle_scan, LastScan, export_report).
RowsAreOfThisScan ==
    /\ \A i \in DOMAIN scan.rows : scan.rows[i].sig.effective_mask = scan.id
    /\ scan.risks \in {None, scan.id}
    /\ scan.export.asked = scan.id /\ scan.done => scan.export.rows = scan.rows

\* What the tab shows of a finished scan is what the history holds of it: the same rows, the
\* note that it is partial exactly if the tab says so; a scan that was not stored is an error.
ShownScanIsStored ==
    scan.done =>
        /\ scan.run = None => scan.isError
        /\ scan.run \in DOMAIN store => store[scan.run].rows = scan.rows
                                        /\ store[scan.run].partial = scan.cancelled

\* One token serves every scan of the window: a scan is cut short only by a Cancel of its own,
\* and a Cancel while it still waits in the queue is not lost.
CancelIsOfThisScan ==
    scan.done =>
        /\ scan.cancelled => scan.cancelClicked # "no"
        /\ scan.cancelClicked = "early" => scan.cancelled \/ (scan.rows = <<>> /\ scan.errors = 1)

\* The delta on screen compares what its two runs held, whichever window deletes them and
\* when: never "everything was removed" because one of them was gone before the comparison,
\* and nothing of a run this window has deleted.  A run the second window deletes between the
\* reads of compare_scans is read as empty; the history ReadAs allows exactly that.
Real(d) == \E x \in ReadAs(d.of[1]), y \in ReadAs(d.of[2]) : d.rows = diff_permission_lists(x, y)
DeltaIsReal == Settled /\ delta.result # <<>> => Real(delta.result[1])

\* An open error panel shows the errors of the run it names.
PanelIsTrue == Settled /\ delta.title # None => delta.errors = delta.title

\* "Either everything is gone or nothing": between requests the window reads what everybody
\* else reads, no transaction of a failed deletion is left open.
StoreIsSettled == worker.pc = "recv" => View = store /\ lock # "worker"

\* Every button comes back: no request is swallowed by a failing handler, a full history,
\* a cancelled scan or a lock another process holds.
Waiting == scan.running \/ delta.loading \/ \E t \in Tabs : tab[t].running
EveryRequestAnswered == Waiting ~> (~ Waiting \/ worker.pc = "dead")

\* The messages of some kinds in a channel, in their order.
Positions(s, kinds) == {i \in DOMAIN s : s[i].kind \in kinds}
Rank(s, kinds, i)   == Cardinality({j \in Positions(s, kinds) : j <= i})
Of(s, kinds) ==
    [k \in 1 .. Cardinality(Positions(s, kinds)) |->
        s[CHOOSE i \in Positions(s, kinds) : Rank(s, kinds, i) = k]]

Asked  == Tabs \cup ScanAndDelta
Ids(s) == [i \in DOMAIN s |-> s[i].id]
RS == INSTANCE RequestService WITH
          Request <- 1 .. MaxId, Initial <- <<1>>,
          waiting <- Ids(reqs), answered <- Ids(Of(evts, Asked)), gone <- worker.pc = "dead"

\* Queues, wake-ups and the multi-step handlers amount to a service that answers every
\* request once, in the order they were made.
ServesInOrder == RS!Spec

----------------------------------------------------------------------------
\* The inductive invariants behind these properties.
In(s)      == {s[i] : i \in DOMAIN s}
Channel(s) == s \in Seq(In(s))
InQueue(kinds)  == \E m \in In(reqs) : m.kind \in kinds
InFlight(kinds) == \E m \in In(evts) : m.kind \in kinds

\* The fields of the state, and what stays true of them whatever is asked.
ShapeInv ==
    /\ DOMAIN worker = {"pc", "id", "rows", "found", "errors", "cancelled"}
    /\ DOMAIN scan = {"running", "done", "id", "rows", "errors", "risks", "run", "cancelled",
                      "isError", "cancelClicked", "export"}
    /\ DOMAIN delta = {"loading", "runs", "old", "new", "result", "title", "errors"}
    /\ DOMAIN tab = Tabs /\ \A t \in Tabs : DOMAIN tab[t] = {"running", "asked", "shown"}
    /\ worker.pc \in {"start", "dead", "recv", "scan", "rows", "load", "notify"}
    /\ cancel \in BOOLEAN /\ worker.cancelled \in BOOLEAN
    /\ lock \in {Nobody, "worker", "cli"} /\ (deleting # {} <=> lock = "worker")
    /\ \A r \in DOMAIN store : store[r].partial \in BOOLEAN
    /\ delta.old \in delta.runs \cup {None} /\ delta.new \in delta.runs \cup {None}

\* Requests are numbered in the order they are made, and answers keep it.
Numbered(rs, es, n) ==
    /\ Channel(rs) /\ Channel(es) /\ n \in Nat \ {0}
    /\ \A i \in DOMAIN rs : rs[i].kind \in Asked /\ rs[i].id \in 1 .. n
    /\ \A i \in DOMAIN es : es[i].kind \in Asked \cup Progress /\ es[i].id \in 1 .. n
    /\ \A i, j \in DOMAIN rs : i < j => rs[i].id < rs[j].id
    /\ \A i, j \in DOMAIN es : es[i].kind \in Asked /\ i < j /\ es[j].kind \in Asked => es[i].id < es[j].id
    /\ \A i \in DOMAIN es, j \in DOMAIN rs : es[i].kind \in Asked => es[i].id < rs[j].id

QueueInv ==
    /\ Numbered(reqs, evts, issued)
    /\ pumping \in BOOLEAN /\ (pumping => evts # <<>>)
    /\ worker.pc \in {"scan", "rows"} => reqs # <<>> /\ Head(reqs).kind = "scan"
    /\ worker.pc = "load" => reqs # <<>> /\ Head(reqs).kind = "compare"
    /\ worker.pc \in {"start", "dead"} => evts = <<>>
    /\ worker.pc = "dead" => reqs = <<>>

\* What is asked and what is announced stays within the clicks; a walk within its tree.
BoundInv ==
    /\ clicks \in [{"load", "other", "mark"} -> Nat]
    /\ wakeups \in Nat
    /\ wakeups + Len(reqs) + (IF worker.pc = "notify" THEN 1 ELSE 0) <= issued
    /\ issued + clicks["load"] + 2 * clicks["other"] + Len(Of(reqs, {"delete"})) + Len(Of(evts, {"delete"})) <= MaxId
    /\ worker.found \in Nat /\ worker.errors \in Nat
    /\ Channel(worker.rows) /\ Len(worker.rows) + worker.errors <= worker.found
    /\ worker.found <= Found + 1 /\ (worker.pc # "rows" => worker.found <= Found)

\* The latest request of a tab waits or is in flight; otherwise its answer is shown and the
\* last of its kind.
TabInv(t) ==
    /\ tab[t].asked \in 0 .. issued
    /\ worker.pc # "dead" =>
        /\ \A m \in In(reqs) \cup In(evts) : m.kind = t => m.id <= tab[t].asked
        /\ \/ ~ tab[t].running /\ tab[t].shown = tab[t].asked /\ ~ InQueue({t}) /\ ~ InFlight({t})
           \/ \E m \in In(reqs) \cup In(evts) : m.kind = t /\ m.id = tab[t].asked

\* So do the errors of the run an open panel names.
LastOf(s, kind, m) == m.kind = kind /\ \A o \in In(s) : o.kind = kind => o.id <= m.id
PanelInv ==
    /\ worker.pc \in {"start", "dead"} => delta.runs = {} /\ delta.title = None
    /\ delta.title # None =>
        /\ \A m \in In(reqs) : LastOf(reqs, "errors", m) => m.arg = delta.title
        /\ ~ InQueue({"errors"}) =>
             \A m \in In(evts) : LastOf(evts, "errors", m) /\ m.ok => m.value = <<delta.title>>
        /\ ~ InQueue({"errors"}) /\ ~ InFlight({"errors"}) => delta.errors = delta.title

\* One scan at a time: while it is asked for, walked, in flight or shown, everything about a
\* scan is about the one the tab started, and its summary comes last.
Scanning == Progress \cup {"scan"}
SummaryLast(s) == \A i, j \in DOMAIN s : s[i].kind = "scan" /\ i < j => s[j].kind \notin Scanning
ScanInv ==
    /\ scan.id \in 0 .. issued /\ (scan.done => ~ scan.running /\ scan.id # None)
    /\ \A m \in In(reqs) : m.kind = "scan" <=> m.id = scan.id
    /\ \A m \in In(evts) : m.kind \in Scanning => m.id = scan.id /\ scan.running
    /\ InQueue({"scan"}) => scan.running /\ ~ InFlight({"scan"})
    /\ SummaryLast(evts)
    /\ worker.id = IF worker.pc \in {"scan", "rows"} THEN scan.id ELSE None

\* The rows on their way and on screen are those the worker has evaluated; after the scan
\* they are what it remembers for an export.
Values(s)         == [k \in DOMAIN s |-> s[k].value[1]]
Arrived(rows, es) == rows \o Values(Of(es, {"scan item"}))
Arriving          == Arrived(scan.rows, evts)
RowsInv ==
    /\ Channel(scan.rows) /\ Channel(last)
    /\ \A x \in In(Arriving) : x.sig.effective_mask = scan.id
    /\ scan.risks \in {None, scan.id}
    /\ \A m \in In(evts) : m.kind = "risks" => m.value = <<scan.id>>
    /\ InQueue({"scan"}) => Arriving = IF worker.pc \in {"scan", "rows"} THEN worker.rows ELSE <<>>
    /\ InFlight({"scan"}) \/ scan.done => Arriving = last

\* An export of the scan on screen is asked for, and written, after that scan.
Exported(e) ==
    /\ e.asked \in 0 .. issued
    /\ e.asked = scan.id /\ scan.id # None => e.rows = last /\ ~ InQueue({"scan"})
ExportInv ==
    /\ \A m \in In(reqs) : m.kind = "export" =>
         /\ m.arg \in 0 .. issued
         /\ m.arg = scan.id => \A o \in In(reqs) : o.kind = "scan" => o.id < m.id
    /\ \A m \in In(evts) : m.kind = "export" /\ m.ok => Exported(m.value[1])
    /\ Exported(scan.export)

\* A finished scan is in the history as it is remembered; nothing is stored under the number
\* of a request that waits.
Stored(run, cancelled) == run \in DOMAIN store => store[run].rows = last /\ store[run].partial = cancelled
StoredInv ==
    /\ DOMAIN store \subseteq Nat \ {None}
    /\ \A r \in DOMAIN store : r > MaxId \/ (r <= issued /\ \A m \in In(reqs) : r < m.id)
    /\ \A m \in In(evts) : m.kind = "scan" =>
         m.value[1].run \in {None, scan.id} /\ Stored(m.value[1].run, m.value[1].cancelled)
    /\ scan.done => /\ scan.run \in {None, scan.id} /\ Stored(scan.run, scan.cancelled)
                    /\ scan.run = None => scan.isError

\* The token is set exactly if Cancel was clicked for this scan; clicked before the walk it
\* stops the walk at once.
CutShort(cancelled, rows, errors) ==
    /\ cancelled => scan.cancelClicked # "no"
    /\ scan.cancelClicked = "early" => cancelled \/ (rows = <<>> /\ errors = 1)
CancelInv ==
    /\ cancel <=> scan.cancelClicked # "no"
    /\ worker.pc = "scan" /\ scan.cancelClicked = "early" => worker.found = 0
    /\ worker.pc \in {"start", "recv", "scan"} => worker.rows = <<>> /\ worker.errors = 0 /\ ~ worker.cancelled
    /\ worker.pc = "rows" =>
         /\ CutShort(worker.cancelled, worker.rows, worker.errors)
         /\ scan.cancelClicked = "early" => Len(worker.rows) + worker.errors = worker.found
    /\ \A m \in In(evts) : m.kind = "scan" => CutShort(m.value[1].cancelled, last, m.value[1].errors)
    /\ scan.done => CutShort(scan.cancelled, last, scan.errors)

\* A comparison, on its way or on screen, is one of what its runs held, or the news that one
\* of them has been deleted here follows it.
DeletedAfter(d, n) ==
    \E m \in In(evts) : m.kind = "delete" /\ m.ok /\ n < m.id /\ m.value[1] \in {d.of[1], d.of[2]}
DeltaInv ==
    /\ worker.pc = "load" => \A i \in 1 .. 2 : RowsIn(Head(reqs).arg[i]) \in ReadAs(Head(reqs).arg[i])
    /\ \A m \in In(evts) : m.kind = "compare" /\ m.ok => Real(m.value[1]) \/ DeletedAfter(m.value[1], m.id)
    /\ delta.result # <<>> => Real(delta.result[1]) \/ DeletedAfter(delta.result[1], 0)

TabsInv == \A t \in Tabs : TabInv(t)
=============================================================================
