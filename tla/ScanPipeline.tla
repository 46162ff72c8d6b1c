---------------------------- MODULE ScanPipeline ----------------------------
(***************************************************************************)
(* `adpa scan`: run_scan in crates/cli/src/main.rs with the ScanWriter of  *)
(* crates/persistence and the CsvFileWriter of crates/exporter.  In every  *)
(* process a blocking thread walks the tree and sends what it finds        *)
(* through a bounded channel; the main task evaluates each item and adds   *)
(* it to one open database transaction and to the CSV rows.  The processes *)
(* share a database file and an export path.                               *)
(*                                                                         *)
(* The items of a walk are numbered in the order it delivers them.  A      *)
(* "Diagnostic" is the error a visit emits after its object: the           *)
(* cancellation token is read before a visit, never within one.            *)
(***************************************************************************)
EXTENDS Naturals, Sequences

CONSTANTS Process,
          Trees,      \* the walks considered: sequences of kinds of items
          Options,    \* [db, out, force]: --db, the format of --output, --force
          Capacity,   \* of the channel (256 in the code)
          Overlap     \* whether two scans may run at the same time

Kind == {"Object", "Error", "Diagnostic"}

Nobody   == "nobody"
NoFile   == "no file"
Foreign  == "foreign"            \* a file of another program

ASSUME PipelineAssumption ==
    /\ Process \cap {Nobody, NoFile, Foreign} = {}
    /\ Trees \subseteq Seq(Kind)
    /\ Options \subseteq [db : BOOLEAN, out : {"None", "Csv", "Report"}, force : BOOLEAN]
    /\ Capacity \in Nat \ {0}
    /\ Overlap \in BOOLEAN

VARIABLES
    tree, opt,
    pc,        \* where run_scan stands
    walker,    \* the walk task: "off", "walking", or how it ended: "cancelled", "complete"
    walked,    \* how many items the walk has found
    unsent,    \* the walk waits in blocking_send with its last item
    channel, open,       \* the channel and whether its receiver exists
    cancel,    \* the CancellationToken
    written,   \* the items in the open transaction (memory, without --db)
    kept,      \* all_permissions: the rows kept for a JSON or HTML report
    lock,      \* the process that holds SQLite's write lock
    history,   \* what readers of the database see
    names,     \* the files named <target> and <target>.partial
    content,   \* the rows in each file
    handle,    \* the file a process writes to, and its position
    exited

mainVars   == <<pc, open, written, kept, lock, history, names, content, handle, exited>>
walkerVars == <<walker, walked, unsent>>
vars == <<tree, opt, mainVars, walkerVars, channel, cancel>>

H == INSTANCE ScanHistory WITH Process <- Process, tree <- tree, history <- history
NoRun == H!NoRun
Note  == H!Note

NoHandle == [file |-> NoFile, at |-> 0]
Files    == Process \cup {Foreign}
Gap      == [by |-> Nobody, item |-> 0]
Running(p) == pc[p] \notin {"new", "crashed"} /\ p \notin exited

----------------------------------------------------------------------------
Init ==
    /\ tree \in [Process -> Trees]
    /\ opt \in [Process -> Options]
    /\ pc = [p \in Process |-> "new"]
    /\ walker = [p \in Process |-> "off"]
    /\ walked = [p \in Process |-> 0]
    /\ unsent = [p \in Process |-> FALSE]
    /\ channel = [p \in Process |-> <<>>]
    /\ open = [p \in Process |-> TRUE]
    /\ cancel = [p \in Process |-> FALSE]
    /\ written = [p \in Process |-> <<>>]
    /\ kept = [p \in Process |-> <<>>]
    /\ lock = Nobody
    /\ history = [p \in Process |-> NoRun]
    /\ names = [target |-> NoFile, partial |-> NoFile]
    /\ content = [f \in Files |-> <<>>]
    /\ handle = [p \in Process |-> NoHandle]
    /\ exited = {}

Goto(p, from, to) == pc[p] = from /\ pc' = [pc EXCEPT ![p] = to]

\* Inputs are validated and the database is opened.
Start(p) ==
    /\ Overlap \/ \A q \in Process : pc[q] \in {"new", "crashed"} \/ q \in exited
    /\ Goto(p, "new", "check")
    /\ UNCHANGED <<tree, opt, walkerVars, channel, cancel, open, written, kept, lock, history, names,
                   content, handle, exited>>

\* check_overwrite_policy, before the scan.
Refuses(p) == opt[p].out # "None" /\ names.target # NoFile /\ ~ opt[p].force

CheckTarget(p) ==
    /\ ~ Refuses(p)
    /\ Goto(p, "check", "create")
    /\ UNCHANGED <<tree, opt, walkerVars, channel, cancel, open, written, kept, lock, history, names,
                   content, handle, exited>>

\* open_export_file(FileOverwrite): an existing file is truncated, not replaced.
Opened(p, name) == IF names[name] = NoFile THEN p ELSE names[name]

\* Mutant: the rows go to the target itself.
CreateCsv_in_place(p) ==
    /\ Goto(p, "create", "begin")
    /\ IF opt[p].out # "Csv" THEN UNCHANGED <<names, content, handle>>
       ELSE /\ ~ Refuses(p)
            /\ names' = [names EXCEPT !.target = Opened(p, "target")]
            /\ content' = [content EXCEPT ![Opened(p, "target")] = <<>>]
            /\ handle' = [handle EXCEPT ![p] = [file |-> Opened(p, "target"), at |-> 0]]
    /\ UNCHANGED <<tree, opt, walkerVars, channel, cancel, open, written, kept, lock, history, exited>>

\* CsvFileWriter::create.
CreateCsv(p) ==
    /\ Goto(p, "create", "begin")
    /\ IF opt[p].out # "Csv" THEN UNCHANGED <<names, content, handle>>
       ELSE /\ ~ Refuses(p)
            /\ names' = [names EXCEPT !.partial = Opened(p, "partial")]
            /\ content' = [content EXCEPT ![Opened(p, "partial")] = <<>>]
            /\ handle' = [handle EXCEPT ![p] = [file |-> Opened(p, "partial"), at |-> 0]]
    /\ UNCHANGED <<tree, opt, walkerVars, channel, cancel, open, written, kept, lock, history, exited>>

\* ScanStore::begin_scan (BEGIN IMMEDIATE), then the walk task is spawned.
Begin(p) ==
    /\ Goto(p, "begin", "scan")
    /\ opt[p].db => lock = Nobody
    /\ lock' = IF opt[p].db THEN p ELSE lock
    /\ walker' = [walker EXCEPT ![p] = "walking"]
    /\ UNCHANGED <<tree, opt, walked, unsent, channel, cancel, open, written, kept, history,
                   names, content, handle, exited>>

----------------------------------------------------------------------------
\* The walk task.  Between two visits: the next item starts a visit, or there is none.
BetweenVisits(p) == walked[p] < Len(tree[p]) => tree[p][walked[p] + 1] # "Diagnostic"

WalkOn(p) ==
    /\ walker[p] = "walking" /\ ~ unsent[p] /\ walked[p] < Len(tree[p])
    /\ BetweenVisits(p) => ~ cancel[p]
    /\ walked' = [walked EXCEPT ![p] = @ + 1]
    /\ unsent' = [unsent EXCEPT ![p] = TRUE]
    /\ UNCHANGED <<tree, opt, mainVars, walker, channel, cancel>>

\* Mutant: the walk is not paced by the consumer.
Send_unbounded(p) ==
    /\ unsent[p]
    /\ channel' = [channel EXCEPT ![p] = IF open[p] THEN Append(@, walked[p]) ELSE @]
    /\ unsent' = [unsent EXCEPT ![p] = FALSE]
    /\ UNCHANGED <<tree, opt, mainVars, walker, walked, cancel>>

\* blocking_send waits while the channel is full; its failure is ignored.
Send(p) ==
    /\ unsent[p]
    /\ IF open[p]
       THEN /\ Len(channel[p]) < Capacity
            /\ channel' = [channel EXCEPT ![p] = Append(@, walked[p])]
       ELSE UNCHANGED channel
    /\ unsent' = [unsent EXCEPT ![p] = FALSE]
    /\ UNCHANGED <<tree, opt, mainVars, walker, walked, cancel>>

\* The walk returns whether it was cancelled and drops the sender.
WalkReturns(p) ==
    /\ walker[p] = "walking" /\ ~ unsent[p] /\ BetweenVisits(p)
    /\ cancel[p] \/ walked[p] = Len(tree[p])
    /\ walker' = [walker EXCEPT ![p] = IF cancel[p] THEN "cancelled" ELSE "complete"]
    /\ UNCHANGED <<tree, opt, mainVars, walked, unsent, channel, cancel>>

WalkEnded(p) == walker[p] \in {"cancelled", "complete"}

\* Ctrl-C: the handler only sets the token.
Cancel(p) ==
    /\ Running(p) /\ ~ cancel[p]
    /\ cancel' = [cancel EXCEPT ![p] = TRUE]
    /\ UNCHANGED <<tree, opt, mainVars, walkerVars, channel>>

----------------------------------------------------------------------------
\* A row at a position of a file; a file truncated meanwhile has a gap before it.
Put(rows, at, row) ==
    [i \in 1 .. (IF at > Len(rows) THEN at ELSE Len(rows)) |->
        IF i = at THEN row ELSE IF i <= Len(rows) THEN rows[i] ELSE Gap]

\* One item received: evaluated, added to the transaction and, an object, to the CSV or
\* to the results a report is made of.
Consume(p) ==
    /\ pc[p] = "scan" /\ channel[p] # <<>>
    /\ LET i   == Head(channel[p])
           h   == handle[p]
           row == [by |-> p, item |-> i]
       IN  /\ channel' = [channel EXCEPT ![p] = Tail(@)]
           /\ written' = [written EXCEPT ![p] = Append(@, i)]
           /\ kept' = [kept EXCEPT ![p] = IF tree[p][i] = "Object" /\ opt[p].out = "Report"
                                          THEN Append(@, row) ELSE @]
           /\ IF tree[p][i] = "Object" /\ opt[p].out = "Csv"
              THEN /\ content' = [content EXCEPT ![h.file] = Put(@, h.at + 1, row)]
                   /\ handle' = [handle EXCEPT ![p].at = @ + 1]
              ELSE UNCHANGED <<content, handle>>
    /\ UNCHANGED <<tree, opt, walkerVars, cancel, pc, open, lock, history, names, exited>>

\* Mutant: an empty channel is taken for the end of the walk.
Drain_when_empty(p) ==
    /\ Goto(p, "scan", "commit")
    /\ channel[p] = <<>>
    /\ written' = [written EXCEPT ![p] = IF walker[p] = "cancelled" THEN Append(@, Note) ELSE @]
    /\ UNCHANGED <<tree, opt, walkerVars, channel, cancel, open, kept, lock, history, names, content,
                   handle, exited>>

\* recv returns None once the sender is gone and the channel is empty; a cancelled walk
\* adds the note.
Drain(p) ==
    /\ Goto(p, "scan", "commit")
    /\ channel[p] = <<>> /\ WalkEnded(p)
    /\ written' = [written EXCEPT ![p] = IF walker[p] = "cancelled" THEN Append(@, Note) ELSE @]
    /\ UNCHANGED <<tree, opt, walkerVars, channel, cancel, open, kept, lock, history, names, content,
                   handle, exited>>

\* Mutant: the export is published before the run.
Commit_last(p) ==
    /\ Goto(p, "commit", "finish")
    /\ UNCHANGED <<tree, opt, walkerVars, channel, cancel, open, written, kept, lock, history, names,
                   content, handle, exited>>

\* ScanWriter::commit.
Commit(p) ==
    /\ Goto(p, "commit", "finish")
    /\ IF opt[p].db
       THEN history' = [history EXCEPT ![p] = H!Run(written[p])] /\ lock' = Nobody
       ELSE UNCHANGED <<history, lock>>
    /\ UNCHANGED <<tree, opt, walkerVars, channel, cancel, open, written, kept, names, content, handle,
                   exited>>

\* CsvFileWriter::finish flushes the rows and looks at the target once more.
Finish(p) ==
    /\ Goto(p, "finish", IF opt[p].out = "Csv" THEN "rename" ELSE "report")
    /\ opt[p].out = "Csv" => ~ Refuses(p)
    /\ UNCHANGED <<tree, opt, walkerVars, channel, cancel, open, written, kept, lock, history, names,
                   content, handle, exited>>

\* Whatever is named <target>.partial now becomes the target.
Rename(p) ==
    /\ Goto(p, "rename", "drop")
    /\ names.partial # NoFile
    /\ names' = [target |-> names.partial, partial |-> NoFile]
    /\ handle' = [handle EXCEPT ![p] = NoHandle]
    /\ UNCHANGED <<tree, opt, walkerVars, channel, cancel, open, written, kept, lock, history, content,
                   exited>>

\* The drop of the finished writer removes whatever is named <target>.partial by then.
DropWriter(p) ==
    /\ Goto(p, "drop", "done")
    /\ names' = [names EXCEPT !.partial = NoFile]
    /\ UNCHANGED <<tree, opt, walkerVars, channel, cancel, open, written, kept, lock, history, content,
                   handle, exited>>

\* export_analysis: a JSON or HTML report is written at once.
Report(p) ==
    /\ Goto(p, "report", "done")
    /\ IF opt[p].out # "Report" THEN UNCHANGED <<names, content>>
       ELSE /\ ~ Refuses(p)
            /\ names' = [names EXCEPT !.target = Opened(p, "target")]
            /\ content' = [content EXCEPT ![Opened(p, "target")] = kept[p]]
    /\ UNCHANGED <<tree, opt, walkerVars, channel, cancel, open, written, kept, lock, history, handle,
                   exited>>

\* The report cannot be written to its end (the disk is full): what is written stays.
ReportBreaksOff(p) ==
    /\ opt[p].out = "Report" /\ ~ Refuses(p)
    /\ Goto(p, "report", "failed")
    /\ names' = [names EXCEPT !.target = Opened(p, "target")]
    /\ \E k \in 0 .. Len(kept[p]) :
         content' = [content EXCEPT ![Opened(p, "target")] = SubSeq(kept[p], 1, k)]
    /\ open' = [open EXCEPT ![p] = FALSE]
    /\ UNCHANGED <<tree, opt, walkerVars, channel, cancel, written, kept, lock, history, handle, exited>>

\* Mutants of the error return: the partial file stays; the receiver stays.
Abandoned_partial(p) ==
    /\ names' = names
    /\ open' = [open EXCEPT ![p] = FALSE]
Abandoned_receiver(p) ==
    /\ names' = [names EXCEPT !.partial = IF handle[p] # NoHandle THEN NoFile ELSE @]
    /\ open' = open

\* What an error return drops: the receiver with what is queued, the ScanWriter (ROLLBACK),
\* the CsvFileWriter (the file now named <target>.partial is removed).
Abandoned(p) ==
    /\ names' = [names EXCEPT !.partial = IF handle[p] # NoHandle THEN NoFile ELSE @]
    /\ open' = [open EXCEPT ![p] = FALSE]

\* Every step that returns a Result may fail: opening, creating, BEGIN (another scan holds
\* the lock longer than SQLite waits), a row, COMMIT, finish, the report.
Fail(p) ==
    /\ \/ pc[p] \in {"check", "create", "begin", "commit", "finish", "rename", "report"}
       \/ pc[p] = "scan" /\ channel[p] # <<>>
    /\ pc' = [pc EXCEPT ![p] = "failed"]
    /\ Abandoned(p)
    /\ channel' = [channel EXCEPT ![p] = IF open'[p] THEN @ ELSE <<>>]
    /\ written' = [written EXCEPT ![p] = <<>>]
    /\ kept' = [kept EXCEPT ![p] = <<>>]
    /\ handle' = [handle EXCEPT ![p] = NoHandle]
    /\ lock' = IF lock = p THEN Nobody ELSE lock
    /\ UNCHANGED <<tree, opt, walkerVars, cancel, history, content, exited>>

\* The tokio runtime is dropped when main returns: it waits for the walk task.
Exit(p) ==
    /\ pc[p] \in {"done", "failed"} /\ p \notin exited
    /\ walker[p] # "walking"
    /\ exited' = exited \cup {p}
    /\ UNCHANGED <<tree, opt, walkerVars, channel, cancel, pc, open, written, kept, lock, history, names,
                   content, handle>>

\* The process is killed: SQLite's journal undoes the transaction, the files stay.
Crash(p) ==
    /\ Running(p)
    /\ pc' = [pc EXCEPT ![p] = "crashed"]
    /\ walker' = [walker EXCEPT ![p] = "off"]
    /\ unsent' = [unsent EXCEPT ![p] = FALSE]
    /\ channel' = [channel EXCEPT ![p] = <<>>]
    /\ written' = [written EXCEPT ![p] = <<>>]
    /\ kept' = [kept EXCEPT ![p] = <<>>]
    /\ handle' = [handle EXCEPT ![p] = NoHandle]
    /\ lock' = IF lock = p THEN Nobody ELSE lock
    /\ UNCHANGED <<tree, opt, walked, cancel, open, history, names, content, exited>>

\* Another program creates a file at the export path.
OtherProgram ==
    /\ names.target = NoFile /\ content[Foreign] = <<>>
    /\ names' = [names EXCEPT !.target = Foreign]
    /\ content' = [content EXCEPT ![Foreign] = <<Gap>>]
    /\ UNCHANGED <<tree, opt, pc, open, written, kept, lock, history, handle, exited, walkerVars, channel,
                   cancel>>

Main(p) ==
    \/ CheckTarget(p) \/ CreateCsv(p) \/ Begin(p) \/ Consume(p) \/ Drain(p) \/ Commit(p)
    \/ Finish(p) \/ Rename(p) \/ DropWriter(p) \/ Report(p) \/ ReportBreaksOff(p) \/ Fail(p) \/ Exit(p)
Walk(p) == WalkOn(p) \/ Send(p) \/ WalkReturns(p)
Ended == \A p \in Process : pc[p] = "crashed" \/ p \in exited
Next ==
    \/ \E p \in Process : Start(p) \/ Main(p) \/ Walk(p) \/ Cancel(p) \/ Crash(p)
    \/ OtherProgram
    \/ Ended /\ UNCHANGED vars

\* Both tasks of a process keep running; nobody has to start, cancel or kill one.
Spec == Init /\ [][Next]_vars /\ \A p \in Process : WF_vars(Main(p)) /\ WF_vars(Walk(p))

----------------------------------------------------------------------------
Row == [by : Process \cup {Nobody}, item : Nat]
Stages == {"new", "check", "create", "begin", "scan", "commit", "finish", "rename", "drop", "report",
           "done", "failed", "crashed"}

\* The state has its type; the channel stays within its bound.
TypeOK ==
    /\ tree \in [Process -> Trees] /\ opt \in [Process -> Options]
    /\ pc \in [Process -> Stages]
    /\ walker \in [Process -> {"off", "walking", "cancelled", "complete"}]
    /\ walked \in [Process -> Nat] /\ \A p \in Process : walked[p] <= Len(tree[p])
    /\ unsent \in [Process -> BOOLEAN]
    /\ channel \in [Process -> Seq(Nat)] /\ \A p \in Process : Len(channel[p]) <= Capacity
    /\ open \in [Process -> BOOLEAN] /\ cancel \in [Process -> BOOLEAN]
    /\ written \in [Process -> Seq(Nat)] /\ kept \in [Process -> Seq(Row)]
    /\ lock \in Process \cup {Nobody} /\ exited \subseteq Process
    /\ history \in [Process -> [stored : BOOLEAN, items : Seq(Nat)]]
    /\ names \in [target : Files \cup {NoFile}, partial : Files \cup {NoFile}]
    /\ content \in [Files -> Seq(Row)]
    /\ handle \in [Process -> [file : Files \cup {NoFile}, at : Nat]]

\* "The history is never silently partial": commits, rollbacks and crashes of run_scan
\* appear to readers of the database as the atomic publications of ScanHistory.
PublishesWholeRuns == H!Spec

\* A JSON or HTML report is written in place and may end in the middle.
ReportBroken == \E p \in Process : opt[p].out = "Report" /\ pc[p] \in {"failed", "crashed"}

\* Every object among the first n items of the walk of p, once and in order.
ObjectRows(rows, p, n) ==
    /\ \A i \in DOMAIN rows : rows[i].by = p
    /\ \A i, j \in DOMAIN rows : i < j => rows[i].item < rows[j].item
    /\ {rows[i].item : i \in DOMAIN rows} = {i \in 1 .. n : tree[p][i] = "Object"}

\* "A half-written export can never be taken for a complete one": the file at the export
\* path, unless another program put it there or a report broke off in it, holds every row of
\* one finished walk (CsvFileWriter::finish, export_analysis).
ExportIsWhole ==
    names.target \notin {NoFile, Foreign} /\ ~ ReportBroken =>
        \E p \in Process :
            /\ WalkEnded(p) \/ pc[p] = "crashed"
            /\ ObjectRows(content[names.target], p, walked[p])

\* Whoever has the export file of a scan with --db finds its run in the history: the commit
\* comes before the rename.
ExportedRunIsInHistory ==
    \A p \in Process :
        opt[p].db /\ names.target # NoFile
        /\ (\E i \in DOMAIN content[names.target] : content[names.target][i].by = p) =>
            history[p] # NoRun

\* "If the scan fails, no partial export is left behind": neither name leads to the rows of
\* a scan with a CSV export that returned an error.
FailedScanLeavesNoExport ==
    \A p \in Process : opt[p].out = "Csv" /\ pc[p] = "failed" =>
        \A n \in {"target", "partial"} : names[n] # NoFile =>
            \A i \in DOMAIN content[names[n]] : content[names[n]][i].by # p

\* No scan hangs: bounded channel, cancellation, write lock and error returns leave neither
\* task waiting for the other forever.
ScanEnds == \A p \in Process : pc[p] # "new" ~> (pc[p] = "crashed" \/ p \in exited)

----------------------------------------------------------------------------
\* The inductive invariant behind these properties.  What the consumer has of the walk.
Consumed(p) == IF unsent[p] THEN walked[p] - Len(channel[p]) - 1 ELSE walked[p] - Len(channel[p])

BeforeScan == {"new", "check", "create", "begin"}
AfterScan  == {"commit", "finish", "rename", "drop", "report", "done"}
Writing    == {"begin", "scan", "commit", "finish", "rename"}
Committed  == {"finish", "rename", "drop", "report", "done"}

\* The channel hands the items over in order, none lost and none twice; the end of the
\* scan follows the end of the walk.
ItemsInv(p) ==
    /\ pc[p] \in BeforeScan => /\ walker[p] = "off" /\ walked[p] = 0 /\ ~ unsent[p] /\ channel[p] = <<>>
                               /\ written[p] = <<>> /\ kept[p] = <<>>
    /\ pc[p] \in BeforeScan \cup {"scan"} => open[p] /\ history[p] = NoRun
    /\ pc[p] = "scan" =>
         /\ written[p] = H!Delivered(Len(written[p])) /\ Consumed(p) = Len(written[p])
         /\ \A i \in DOMAIN channel[p] : channel[p][i] = Len(written[p]) + i
    /\ pc[p] \in AfterScan =>
         /\ open[p] /\ WalkEnded(p) /\ channel[p] = <<>>
         /\ written[p] = IF walker[p] = "complete" THEN H!Delivered(walked[p])
                         ELSE Append(H!Delivered(walked[p]), Note)
    /\ pc[p] = "commit" => history[p] = NoRun
    /\ pc[p] = "rename" => opt[p].out = "Csv"
    /\ pc[p] \in Committed /\ opt[p].db => history[p] # NoRun
    /\ pc[p] = "crashed" => walker[p] = "off"
    /\ unsent[p] => walker[p] = "walking"
    /\ walker[p] = "complete" => walked[p] = Len(tree[p])
    /\ p \in exited => pc[p] \in {"done", "failed"}

\* One scan at a time: what the two names lead to,
OneScan == \A p, q \in Process : Running(p) /\ Running(q) => p = q

NamesInv ==
    /\ names.target = names.partial => names.target = NoFile
    /\ \A n \in {"target", "partial"} :
         names[n] \in Process => pc[names[n]] \notin {"new", "check", "create"}
    /\ names.partial # Foreign /\ (names.partial \in Process => opt[names.partial].out = "Csv")

\* that the rows of p go to the file named <target>.partial, or are kept for its report,
WriterInv(p) ==
    /\ IF pc[p] \in Writing /\ opt[p].out = "Csv"
       THEN /\ handle[p].file = names.partial /\ names.partial # NoFile
            /\ handle[p].at = Len(content[names.partial])
            /\ ObjectRows(content[names.partial], p, Consumed(p))
       ELSE handle[p] = NoHandle
    /\ pc[p] \in Writing \cup {"report"} /\ opt[p].out = "Report" =>
         ObjectRows(kept[p], p, Consumed(p))

HasRowsOf(n, p) == \E i \in DOMAIN content[names[n]] : content[names[n]][i].by = p

\* and whose rows each of them has.
PartialInv == names.partial # NoFile => \A p \in Process : HasRowsOf("partial", p) =>
    opt[p].out = "Csv" /\ (pc[p] = "crashed" \/ handle[p] # NoHandle)
TargetInv == names.target # NoFile => \A p \in Process : HasRowsOf("target", p) =>
    /\ opt[p].db => history[p] # NoRun
    /\ opt[p].out = "Csv" => pc[p] \in {"drop", "done", "crashed"}

PipelineInv == \A p \in Process : ItemsInv(p)
ExportInv   == OneScan /\ NamesInv /\ (\A p \in Process : WriterInv(p)) /\ PartialInv /\ TargetInv
               /\ ExportIsWhole
=============================================================================
