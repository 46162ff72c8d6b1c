-------------------------- MODULE ScanPipelineProofs --------------------------
(***************************************************************************)
(* What holds of run_scan for every number of scans, every walk and every  *)
(* size of the channel.                                                    *)
(***************************************************************************)
EXTENDS ScanPipeline, TLAPS

\* Rows written into a file, with or without a gap, are rows.
LEMMA PutTyped ==
    ASSUME NEW rows \in Seq(Row), NEW at \in Nat \ {0}, NEW row \in Row
    PROVE  Put(rows, at, row) \in Seq(Row)
<1> DEFINE n == IF at > Len(rows) THEN at ELSE Len(rows)
<1>1. n \in Nat /\ Len(rows) \in Nat
  OBVIOUS
<1>2. Gap \in Row
  BY DEF Gap, Row
<1>3. \A i \in 1 .. n : i <= Len(rows) => rows[i] \in Row
  BY <1>1
<1> HIDE DEF n
<1>4. [i \in 1 .. n |-> IF i = at THEN row ELSE IF i <= Len(rows) THEN rows[i] ELSE Gap] \in [1 .. n -> Row]
  BY <1>2, <1>3
<1> QED
  BY <1>1, <1>4 DEF Put, n

\* The walk of a scan is a sequence.
LEMMA TreeTyped ==
    ASSUME TypeOK, NEW p \in Process
    PROVE  tree[p] \in Seq(Kind) /\ Len(tree[p]) \in Nat
  BY PipelineAssumption DEF TypeOK

\* What a process is set up with stays as it is.
LEMMA InputsFixed == [Next]_vars => tree' = tree /\ opt' = opt
  BY DEF Next, vars, Start, Main, Walk, Cancel, Crash, OtherProgram, CheckTarget, CreateCsv, Begin,
         Consume, Drain, Commit, Finish, Rename, DropWriter, Report, ReportBreaksOff, Fail, Exit,
         WalkOn, Send, WalkReturns

\* A process opens a file that exists, or its own.
LEMMA OpenedTyped ==
    ASSUME TypeOK, NEW p \in Process, NEW n \in {"target", "partial"}
    PROVE  Opened(p, n) \in Files
<1>1. names[n] \in Files \cup {NoFile}
  BY DEF TypeOK
<1> QED
  BY <1>1 DEF Opened, Files

----------------------------------------------------------------------------
\* One step per action of run_scan and of its walk task.
LEMMA TypeStep == TypeOK /\ [Next]_vars => TypeOK'
<1> SUFFICES ASSUME TypeOK, [Next]_vars PROVE TypeOK'
  OBVIOUS
<1> DEFINE NameSet == [target : Files \cup {NoFile}, partial : Files \cup {NoFile}]
           HandleSet == [Process -> [file : Files \cup {NoFile}, at : Nat]]
<1>0. tree' = tree /\ opt' = opt
  BY InputsFixed
<1>n. names \in NameSet
  BY DEF TypeOK
<1>h. handle \in HandleSet
  BY DEF TypeOK
<1>c. content \in [Files -> Seq(Row)] /\ kept \in [Process -> Seq(Row)] /\ written \in [Process -> Seq(Nat)]
  BY DEF TypeOK
<1>1. ASSUME NEW p \in Process, Start(p) \/ CheckTarget(p) \/ Finish(p) PROVE TypeOK'
  BY <1>1 DEF TypeOK, Start, CheckTarget, Finish, Goto, Stages, walkerVars
<1>2. ASSUME NEW p \in Process, CreateCsv(p) PROVE TypeOK'
  <2>1. names' \in NameSet
    BY <1>2, <1>n, OpenedTyped DEF CreateCsv
  <2>2. content' \in [Files -> Seq(Row)]
    <3>1. content' = content \/ content' = [content EXCEPT ![Opened(p, "partial")] = <<>>]
      BY <1>2 DEF CreateCsv
    <3>2. <<>> \in Seq(Row)
      OBVIOUS
    <3> QED
      BY <1>c, <3>1, <3>2
  <2>3. handle' \in HandleSet
    BY <1>2, <1>h, OpenedTyped DEF CreateCsv
  <2> QED
    BY <1>2, <2>1, <2>2, <2>3 DEF TypeOK, CreateCsv, Goto, Stages, walkerVars
<1>3. ASSUME NEW p \in Process, Begin(p) PROVE TypeOK'
  BY <1>3 DEF TypeOK, Begin, Goto, Stages
<1>4. ASSUME NEW p \in Process, WalkOn(p) PROVE TypeOK'
  <2>1. walked' \in [Process -> Nat] /\ \A q \in Process : walked'[q] <= Len(tree[q])
    BY <1>4, TreeTyped DEF WalkOn, TypeOK
  <2> QED
    BY <1>4, <2>1 DEF TypeOK, WalkOn, mainVars
<1>5. ASSUME NEW p \in Process, Send(p) PROVE TypeOK'
  <2>1. channel' \in [Process -> Seq(Nat)] /\ \A q \in Process : Len(channel'[q]) <= Capacity
    <3>1. CASE open[p]
      <4>1. /\ channel' = [channel EXCEPT ![p] = Append(channel[p], walked[p])]
            /\ Len(channel[p]) < Capacity
        BY <1>5, <3>1 DEF Send
      <4>2. channel[p] \in Seq(Nat) /\ walked[p] \in Nat /\ Capacity \in Nat
        BY PipelineAssumption DEF TypeOK
      <4>3. Append(channel[p], walked[p]) \in Seq(Nat) /\ Len(Append(channel[p], walked[p])) <= Capacity
        BY <4>1, <4>2
      <4> QED
        BY <4>1, <4>3 DEF TypeOK
    <3>2. CASE ~ open[p]
      BY <1>5, <3>2 DEF Send, TypeOK
    <3> QED
      BY <3>1, <3>2
  <2> QED
    BY <1>5, <2>1 DEF TypeOK, Send, mainVars
<1>6. ASSUME NEW p \in Process, WalkReturns(p) \/ Cancel(p) PROVE TypeOK'
  BY <1>6 DEF TypeOK, WalkReturns, Cancel, mainVars, walkerVars
<1>7. ASSUME NEW p \in Process, Consume(p) PROVE TypeOK'
  <2> DEFINE i == Head(channel[p])
             row == [by |-> p, item |-> i]
  <2>1. channel[p] \in Seq(Nat) /\ channel[p] # <<>> /\ Capacity \in Nat
    BY <1>7, PipelineAssumption DEF Consume, TypeOK
  <2>2. i \in Nat /\ Tail(channel[p]) \in Seq(Nat) /\ Len(Tail(channel[p])) <= Len(channel[p])
    BY <2>1
  <2>3. row \in Row
    BY <2>2 DEF Row
  <2> HIDE DEF row, i
  <2>4. channel' \in [Process -> Seq(Nat)] /\ \A q \in Process : Len(channel'[q]) <= Capacity
    <3>1. channel' = [channel EXCEPT ![p] = Tail(channel[p])] /\ Len(channel[p]) <= Capacity
      BY <1>7 DEF Consume, TypeOK
    <3>2. Len(Tail(channel[p])) <= Capacity
      BY <2>1, <2>2, <3>1
    <3> QED
      BY <2>2, <3>1, <3>2 DEF TypeOK
  <2>5. written' \in [Process -> Seq(Nat)]
    BY <1>7, <2>2 DEF Consume, TypeOK, i
  <2>6. kept' \in [Process -> Seq(Row)]
    <3>1. \/ kept' = [kept EXCEPT ![p] = Append(kept[p], row)]
          \/ kept' = [kept EXCEPT ![p] = kept[p]]
      BY <1>7 DEF Consume, row, i
    <3>2. kept[p] \in Seq(Row) /\ Append(kept[p], row) \in Seq(Row)
      BY <1>c, <2>3
    <3> QED
      BY <1>c, <3>1, <3>2
  <2>7. content' \in [Files -> Seq(Row)] /\ handle' \in HandleSet
    <3>1. CASE UNCHANGED <<content, handle>>
      BY <3>1 DEF TypeOK
    <3>2. CASE /\ content' = [content EXCEPT ![handle[p].file] = Put(@, handle[p].at + 1, row)]
               /\ handle' = [handle EXCEPT ![p].at = @ + 1]
      <4>1. handle[p] \in [file : Files \cup {NoFile}, at : Nat] /\ handle[p].at + 1 \in Nat \ {0}
        BY DEF TypeOK
      <4>2. \A f \in Files : Put(content[f], handle[p].at + 1, row) \in Seq(Row)
        BY <2>3, <4>1, PutTyped DEF TypeOK
      <4>3. content' \in [Files -> Seq(Row)]
        BY <1>c, <3>2, <4>2
      <4> QED
        BY <1>h, <3>2, <4>3
    <3> QED
      BY <1>7, <3>1, <3>2 DEF Consume, row, i
  <2> QED
    BY <1>7, <2>4, <2>5, <2>6, <2>7 DEF TypeOK, Consume, walkerVars
<1>8. ASSUME NEW p \in Process, Drain(p) PROVE TypeOK'
  <2>1. Note \in Nat
    BY DEF Note, H!Note
  <2>2. written' \in [Process -> Seq(Nat)]
    BY <1>8, <2>1 DEF Drain, TypeOK
  <2> QED
    BY <1>8, <2>2 DEF TypeOK, Drain, Goto, Stages, walkerVars
<1>9. ASSUME NEW p \in Process, Commit(p) PROVE TypeOK'
  <2>1. H!Run(written[p]) \in [stored : BOOLEAN, items : Seq(Nat)]
    BY DEF H!Run, TypeOK
  <2>2. history' \in [Process -> [stored : BOOLEAN, items : Seq(Nat)]]
    BY <1>9, <2>1 DEF Commit, TypeOK
  <2> QED
    BY <1>9, <2>2 DEF TypeOK, Commit, Goto, Stages, walkerVars
<1>10. ASSUME NEW p \in Process, Rename(p) \/ DropWriter(p) PROVE TypeOK'
  <2>1. handle' \in HandleSet
    BY <1>10, <1>h DEF Rename, DropWriter, NoHandle
  <2>2. names' \in NameSet
    BY <1>10, <1>n DEF Rename, DropWriter
  <2> QED
    BY <1>10, <2>1, <2>2 DEF TypeOK, Rename, DropWriter, Goto, Stages, walkerVars
<1>11. ASSUME NEW p \in Process, Report(p) \/ ReportBreaksOff(p) PROVE TypeOK'
  <2>1. names' \in NameSet
    BY <1>11, <1>n, OpenedTyped DEF Report, ReportBreaksOff
  <2>2. content' \in [Files -> Seq(Row)]
    <3>1. kept[p] \in Seq(Row)
      BY DEF TypeOK
    <3>2. \A k \in 0 .. Len(kept[p]) : SubSeq(kept[p], 1, k) \in Seq(Row)
      BY <3>1
    <3> QED
      BY <1>11, <1>c, <3>1, <3>2 DEF Report, ReportBreaksOff
  <2> QED
    BY <1>11, <2>1, <2>2 DEF TypeOK, Report, ReportBreaksOff, Goto, Stages, walkerVars
<1>12. ASSUME NEW p \in Process, Fail(p) PROVE TypeOK'
  <2>1. names' \in NameSet
    BY <1>12, <1>n DEF Fail, Abandoned
  <2>2. handle' \in HandleSet
    BY <1>12, <1>h DEF Fail, NoHandle
  <2>3. channel' \in [Process -> Seq(Nat)] /\ \A q \in Process : Len(channel'[q]) <= Capacity
    BY <1>12, PipelineAssumption DEF Fail, TypeOK
  <2>4. written' \in [Process -> Seq(Nat)] /\ kept' \in [Process -> Seq(Row)]
    BY <1>12, <1>c DEF Fail
  <2> QED
    BY <1>12, <2>1, <2>2, <2>3, <2>4 DEF TypeOK, Fail, Abandoned, Stages, walkerVars
<1>13. ASSUME NEW p \in Process, Exit(p) PROVE TypeOK'
  BY <1>13 DEF TypeOK, Exit, walkerVars
<1>14. ASSUME NEW p \in Process, Crash(p) PROVE TypeOK'
  <2>1. handle' \in HandleSet
    BY <1>14, <1>h DEF Crash, NoHandle
  <2>2. channel' \in [Process -> Seq(Nat)] /\ \A q \in Process : Len(channel'[q]) <= Capacity
    BY <1>14, PipelineAssumption DEF Crash, TypeOK
  <2>3. written' \in [Process -> Seq(Nat)] /\ kept' \in [Process -> Seq(Row)]
    BY <1>14, <1>c DEF Crash
  <2> QED
    BY <1>14, <2>1, <2>2, <2>3 DEF TypeOK, Crash, Stages
<1>15. CASE OtherProgram
  <2>1. <<Gap>> \in Seq(Row)
    BY DEF Gap, Row
  <2>2. names' \in NameSet
    BY <1>15, <1>n DEF OtherProgram, Files
  <2> QED
    BY <1>15, <2>1, <2>2 DEF TypeOK, OtherProgram, walkerVars
<1>16. CASE UNCHANGED vars
  BY <1>16 DEF TypeOK, vars, mainVars, walkerVars
<1> QED
  BY <1>1, <1>2, <1>3, <1>4, <1>5, <1>6, <1>7, <1>8, <1>9, <1>10, <1>11, <1>12, <1>13, <1>14, <1>15, <1>16
     DEF Next, Main, Walk

\* Every piece of a scan keeps its type and the channel its bound, however many scans run.
THEOREM PipelineTypeCorrect == Spec => []TypeOK
<1>1. Init => TypeOK
  <2> SUFFICES ASSUME Init PROVE TypeOK
    OBVIOUS
  <2>1. history \in [Process -> [stored : BOOLEAN, items : Seq(Nat)]]
    BY DEF Init, NoRun, H!NoRun
  <2>2. \A p \in Process : tree[p] \in Seq(Kind)
    BY PipelineAssumption DEF Init
  <2> QED
    BY <2>1, <2>2, PipelineAssumption DEF Init, TypeOK, Stages, NoHandle, Files
<1> QED
  BY <1>1, TypeStep, PTL DEF Spec

----------------------------------------------------------------------------
\* The items of a walk, delivered in order.
LEMMA DeliveredInOrder ==
    ASSUME NEW k \in Nat
    PROVE  /\ H!Delivered(k) \in Seq(Nat) /\ Len(H!Delivered(k)) = k
           /\ H!Delivered(0) = <<>>
           /\ Append(H!Delivered(k), k + 1) = H!Delivered(k + 1)
  BY DEF H!Delivered

\* What a scan is about, apart from its files.
Items(p) == <<pc[p], walker[p], walked[p], unsent[p], channel[p], open[p], written[p], kept[p],
              history[p], p \in exited>>

\* A scan keeps its invariant while nothing of it moves.
LEMMA ItemsKept ==
    ASSUME NEW q \in Process, ItemsInv(q), tree' = tree, opt' = opt, UNCHANGED Items(q)
    PROVE  ItemsInv(q)'
<1>1. /\ pc[q]' = pc[q] /\ walker[q]' = walker[q] /\ walked[q]' = walked[q] /\ unsent[q]' = unsent[q]
      /\ channel[q]' = channel[q] /\ open[q]' = open[q] /\ written[q]' = written[q] /\ kept[q]' = kept[q]
      /\ history[q]' = history[q] /\ (q \in exited' <=> q \in exited)
  BY DEF Items
<1>2. Consumed(q)' = Consumed(q) /\ (WalkEnded(q)' <=> WalkEnded(q))
  BY <1>1 DEF Consumed, WalkEnded
<1> QED
  BY <1>1, <1>2 DEF ItemsInv

\* No process touches the items of another one: they share the lock and the files only.
LEMMA OnlyOwnItems ==
    ASSUME TypeOK, NEW p \in Process, NEW q \in Process \ {p},
           Start(p) \/ Main(p) \/ Walk(p) \/ Cancel(p) \/ Crash(p)
    PROVE  UNCHANGED Items(q)
<1> USE DEF Items, Goto, TypeOK
<1>1. CASE Start(p) \/ CheckTarget(p) \/ CreateCsv(p) \/ Begin(p) \/ Finish(p) \/ Rename(p) \/ DropWriter(p)
  BY <1>1 DEF Start, CheckTarget, CreateCsv, Begin, Finish, Rename, DropWriter, walkerVars
<1>2. CASE Walk(p) \/ Cancel(p)
  BY <1>2 DEF Walk, WalkOn, Send, WalkReturns, Cancel, mainVars, walkerVars
<1>3. CASE Consume(p) \/ Drain(p) \/ Commit(p)
  BY <1>3 DEF Consume, Drain, Commit, walkerVars
<1>4. CASE Report(p) \/ ReportBreaksOff(p)
  BY <1>4 DEF Report, ReportBreaksOff, walkerVars
<1>6. CASE Exit(p)
  BY <1>6 DEF Exit, walkerVars
<1>5. CASE Fail(p) \/ Crash(p)
  BY <1>5 DEF Fail, Abandoned, Crash, walkerVars
<1> QED
  BY <1>1, <1>2, <1>3, <1>4, <1>5, <1>6 DEF Main

\* The steps of a scan itself.
LEMMA OwnStep ==
    ASSUME TypeOK, NEW p \in Process, ItemsInv(p), tree' = tree, opt' = opt,
           Start(p) \/ Main(p) \/ Walk(p) \/ Cancel(p) \/ Crash(p)
    PROVE  ItemsInv(p)'
<1> DEFINE n == Len(written[p])
           m == Len(channel[p])
<1>t. /\ written[p] \in Seq(Nat) /\ channel[p] \in Seq(Nat) /\ n \in Nat /\ m \in Nat
      /\ walked[p] \in Nat /\ pc[p] \in Stages /\ unsent[p] \in BOOLEAN /\ open[p] \in BOOLEAN
      /\ walker[p] \in {"off", "walking", "cancelled", "complete"}
  BY DEF TypeOK
<1>d. DOMAIN channel[p] = 1 .. m
  BY <1>t
<1>s. pc[p] = "scan" => /\ open[p] /\ history[p] = NoRun /\ written[p] = H!Delivered(n) /\ Consumed(p) = n
                        /\ \A i \in DOMAIN channel[p] : channel[p][i] = n + i
  BY DEF ItemsInv
<1>e. \A a \in Nat : /\ Len(Append(channel[p], a)) = m + 1 /\ Append(channel[p], a)[m + 1] = a
                     /\ \A i \in 1 .. m : Append(channel[p], a)[i] = channel[p][i]
  BY <1>t
<1>w. walker[p] = "walking" => pc[p] \in {"scan", "failed"}
  BY <1>t DEF ItemsInv, WalkEnded, Stages, BeforeScan, AfterScan
<1>1. CASE Start(p) \/ CheckTarget(p) \/ CreateCsv(p)
  <2>1. pc[p] \in BeforeScan /\ pc[p]' \in BeforeScan
    BY <1>1 DEF Start, CheckTarget, CreateCsv, Goto, BeforeScan, TypeOK
  <2>2. UNCHANGED <<walkerVars, channel, open, written, kept, history, exited>>
    BY <1>1 DEF Start, CheckTarget, CreateCsv
  <2> QED
    BY <2>1, <2>2 DEF ItemsInv, BeforeScan, AfterScan, Committed, walkerVars
<1>2. CASE Begin(p)
  <2>1. pc[p] = "begin" /\ pc[p]' = "scan" /\ walker[p]' = "walking"
    BY <1>2 DEF Begin, Goto, TypeOK
  <2>2. UNCHANGED <<walked, unsent, channel, open, written, kept, history, exited>>
    BY <1>2 DEF Begin
  <2>3. /\ walked[p] = 0 /\ ~ unsent[p] /\ channel[p] = <<>> /\ written[p] = <<>> /\ open[p]
        /\ history[p] = NoRun /\ p \notin exited
    BY <2>1 DEF ItemsInv, BeforeScan
  <2>4. Len(written[p]) = 0 /\ Len(channel[p]) = 0 /\ DOMAIN channel[p] = {}
    BY <2>3
  <2>5. H!Delivered(0) = <<>>
    BY DeliveredInOrder
  <2>6. written[p]' = H!Delivered(Len(written[p]')) /\ Len(written[p]') = 0
    BY <2>2, <2>3, <2>4, <2>5
  <2>7. Consumed(p)' = 0
    <3>1. walked[p]' = 0 /\ Len(channel[p]') = 0 /\ ~ unsent[p]'
      BY <2>2, <2>3, <2>4
    <3> QED
      BY <3>1 DEF Consumed
  <2> QED
    BY <2>1, <2>2, <2>3, <2>4, <2>6, <2>7 DEF ItemsInv, BeforeScan, AfterScan, Committed
<1>3. CASE WalkOn(p)
  <2>1. /\ walker[p] = "walking" /\ ~ unsent[p] /\ walked[p]' = walked[p] + 1 /\ unsent[p]'
        /\ walker' = walker /\ channel' = channel /\ UNCHANGED mainVars
    BY <1>3 DEF WalkOn, TypeOK
  <2>2. Consumed(p)' = Consumed(p)
    BY <1>t, <2>1 DEF Consumed
  <2> QED
    BY <1>w, <2>1, <2>2 DEF ItemsInv, BeforeScan, AfterScan, Committed, mainVars
<1>4. CASE Send(p)
  <2>1. unsent[p] /\ ~ unsent[p]' /\ UNCHANGED <<walker, walked>> /\ UNCHANGED mainVars
    BY <1>4 DEF Send, TypeOK
  <2>2. walker[p] = "walking" /\ pc[p] \in {"scan", "failed"}
    BY <1>w, <2>1 DEF ItemsInv
  <2>3. CASE pc[p] = "failed"
    BY <2>1, <2>2, <2>3 DEF ItemsInv, BeforeScan, AfterScan, Committed, mainVars
  <2>4. CASE pc[p] = "scan"
    <3>1. open[p] /\ channel[p]' = Append(channel[p], walked[p])
      BY <1>4, <2>4 DEF Send, TypeOK, ItemsInv
    <3>2. walked[p] = n + m + 1 /\ \A i \in 1 .. m : channel[p][i] = n + i
      <4>1. n = walked[p] - m - 1
        BY <1>s, <2>1, <2>4 DEF Consumed
      <4>2. walked[p] \in Nat /\ n \in Nat /\ m \in Nat
        BY <1>t
      <4>3. \A i \in 1 .. m : channel[p][i] = n + i
        BY <1>s, <1>d, <2>4
      <4> HIDE DEF n, m
      <4> QED
        BY <4>1, <4>2, <4>3
    <3>3. Len(channel[p]') = m + 1 /\ \A i \in 1 .. m + 1 : channel[p]'[i] = n + i
      <4>1. n \in Nat /\ m \in Nat
        BY <1>t
      <4>2. /\ Len(channel[p]') = m + 1 /\ channel[p]'[m + 1] = walked[p]
            /\ \A i \in 1 .. m : channel[p]'[i] = channel[p][i]
        BY <1>t, <1>e, <3>1
      <4> HIDE DEF n, m
      <4> QED
        BY <3>2, <4>1, <4>2
    <3>4. Consumed(p)' = n
      <4>1. walked[p]' = n + m + 1 /\ Len(channel[p]') = m + 1 /\ ~ unsent[p]'
        BY <2>1, <3>2, <3>3
      <4>2. n \in Nat /\ m \in Nat
        BY <1>t
      <4> HIDE DEF n, m
      <4> QED
        BY <4>1, <4>2 DEF Consumed
    <3>5. DOMAIN channel[p]' = 1 .. m + 1
      BY <1>t, <3>1
    <3> QED
      BY <2>1, <2>2, <2>4, <3>1, <3>3, <3>4, <3>5 DEF ItemsInv, BeforeScan, AfterScan, Committed, mainVars
  <2> QED
    BY <2>2, <2>3, <2>4
<1>5. CASE WalkReturns(p)
  <2>1. /\ walker[p] = "walking" /\ walker[p]' \in {"cancelled", "complete"} /\ ~ unsent[p]
        /\ walker[p]' = "complete" => walked[p] = Len(tree[p])
        /\ UNCHANGED <<walked, unsent, channel>> /\ UNCHANGED mainVars
    BY <1>5 DEF WalkReturns, TypeOK
  <2>2. Consumed(p)' = Consumed(p)
    BY <2>1 DEF Consumed
  <2> QED
    BY <1>w, <2>1, <2>2 DEF ItemsInv, BeforeScan, AfterScan, Committed, mainVars
<1>6. CASE Cancel(p)
  BY <1>6, ItemsKept DEF Cancel, mainVars, walkerVars, Items
<1>7. CASE Consume(p)
  <2>1. /\ pc[p] = "scan" /\ channel[p] # <<>> /\ channel[p]' = Tail(channel[p])
        /\ written[p]' = Append(written[p], Head(channel[p]))
        /\ UNCHANGED <<pc, walkerVars, open, history, exited>>
    BY <1>7 DEF Consume, TypeOK
  <2>2. /\ written[p] = H!Delivered(n) /\ Consumed(p) = n /\ \A i \in 1 .. m : channel[p][i] = n + i
        /\ open[p] /\ history[p] = NoRun
    BY <1>s, <1>d, <2>1
  <2>3. m > 0 /\ Head(channel[p]) = n + 1
    <3>1. m > 0 /\ Head(channel[p]) = channel[p][1]
      BY <1>t, <2>1
    <3> QED
      BY <1>t, <2>2, <3>1
  <2>4. written[p]' = H!Delivered(n + 1) /\ Len(written[p]') = n + 1
    <3>1. written[p]' = Append(H!Delivered(n), n + 1)
      BY <2>1, <2>2, <2>3
    <3>2. n + 1 \in Nat
      BY <1>t
    <3> HIDE DEF n
    <3> QED
      BY <1>t, <3>1, <3>2, DeliveredInOrder
  <2>5. DOMAIN channel[p]' = 1 .. m - 1 /\ Len(channel[p]') = m - 1
        /\ \A i \in 1 .. m - 1 : channel[p]'[i] = (n + 1) + i
    BY <1>t, <2>1, <2>2, <2>3
  <2>6. Consumed(p)' = n + 1
    <3>1. walked[p]' = walked[p] /\ unsent[p]' = unsent[p]
      BY <2>1 DEF walkerVars
    <3>2. n = IF unsent[p] THEN walked[p] - m - 1 ELSE walked[p] - m
      BY <2>2 DEF Consumed
    <3>3. n \in Nat /\ m \in Nat /\ walked[p] \in Nat /\ Len(channel[p]') = m - 1
      BY <1>t, <2>5
    <3> HIDE DEF n, m
    <3> QED
      BY <3>1, <3>2, <3>3 DEF Consumed
  <2> QED
    BY <2>1, <2>2, <2>4, <2>5, <2>6 DEF ItemsInv, BeforeScan, AfterScan, Committed, walkerVars
<1>8. CASE Drain(p)
  <2>1. /\ pc[p] = "scan" /\ pc[p]' = "commit" /\ channel[p] = <<>> /\ WalkEnded(p)
        /\ written[p]' = IF walker[p] = "cancelled" THEN Append(written[p], Note) ELSE written[p]
        /\ UNCHANGED <<walkerVars, channel, open, history, exited>>
    BY <1>8 DEF Drain, Goto, TypeOK
  <2>2. written[p] = H!Delivered(n) /\ Consumed(p) = n /\ ~ unsent[p]
    BY <2>1 DEF ItemsInv, WalkEnded
  <2>3. walked[p] = n
    BY <1>t, <2>1, <2>2 DEF Consumed
  <2>4. WalkEnded(p)' /\ (walker[p] = "complete" <=> walker[p] # "cancelled")
    BY <2>1 DEF WalkEnded, walkerVars
  <2> QED
    BY <2>1, <2>2, <2>3, <2>4 DEF ItemsInv, BeforeScan, AfterScan, Committed, walkerVars
<1>9. CASE Commit(p)
  <2>1. /\ pc[p] = "commit" /\ pc[p]' = "finish"
        /\ history[p]' = IF opt[p].db THEN H!Run(written[p]) ELSE history[p]
        /\ UNCHANGED <<walkerVars, channel, open, written, exited>>
    BY <1>9 DEF Commit, Goto, TypeOK
  <2>2. H!Run(written[p]) # NoRun
    BY DEF H!Run, NoRun, H!NoRun
  <2>3. WalkEnded(p)' <=> WalkEnded(p)
    BY <2>1 DEF WalkEnded, walkerVars
  <2> QED
    BY <2>1, <2>2, <2>3 DEF ItemsInv, BeforeScan, AfterScan, Committed, walkerVars
<1>10. CASE Finish(p) \/ Rename(p) \/ DropWriter(p) \/ Report(p)
  <2>1. /\ pc[p] \in {"finish", "rename", "drop", "report"} /\ pc[p]' \in {"rename", "report", "drop", "done"}
        /\ pc[p]' = "rename" => opt[p].out = "Csv"
        /\ UNCHANGED <<walkerVars, channel, open, written, history, exited>>
    BY <1>10 DEF Finish, Rename, DropWriter, Report, Goto, TypeOK
  <2>2. WalkEnded(p)' <=> WalkEnded(p)
    BY <2>1 DEF WalkEnded, walkerVars
  <2> QED
    BY <2>1, <2>2 DEF ItemsInv, BeforeScan, AfterScan, Committed, walkerVars
<1>11. CASE ReportBreaksOff(p) \/ Fail(p)
  <2>1. /\ pc[p] \notin {"done", "failed"} /\ pc[p]' = "failed" /\ UNCHANGED <<walkerVars, exited>>
    BY <1>11 DEF ReportBreaksOff, Fail, Goto, TypeOK
  <2> QED
    BY <2>1 DEF ItemsInv, BeforeScan, AfterScan, Committed, walkerVars
<1>12. CASE Exit(p)
  <2>1. pc[p] \in {"done", "failed"} /\ UNCHANGED <<pc, walkerVars, channel, open, written, kept, history>>
    BY <1>12 DEF Exit
  <2>2. WalkEnded(p)' <=> WalkEnded(p)
    BY <2>1 DEF WalkEnded, walkerVars
  <2> QED
    BY <2>1, <2>2 DEF ItemsInv, BeforeScan, AfterScan, Committed, walkerVars
<1>13. CASE Crash(p)
  <2>1. pc[p]' = "crashed" /\ walker[p]' = "off" /\ ~ unsent[p]' /\ p \notin exited /\ exited' = exited
    BY <1>13 DEF Crash, Running, TypeOK
  <2> QED
    BY <2>1 DEF ItemsInv, BeforeScan, AfterScan, Committed
<1> QED
  BY <1>1, <1>2, <1>3, <1>4, <1>5, <1>6, <1>7, <1>8, <1>9, <1>10, <1>11, <1>12, <1>13 DEF Main, Walk

\* The channel loses and duplicates nothing, in any interleaving of any number of scans.
LEMMA PipelineStep == TypeOK /\ PipelineInv /\ [Next]_vars => PipelineInv'
<1> SUFFICES ASSUME TypeOK, PipelineInv, [Next]_vars, NEW q \in Process PROVE ItemsInv(q)'
  BY DEF PipelineInv
<1>0. tree' = tree /\ opt' = opt /\ ItemsInv(q)
  BY InputsFixed DEF PipelineInv
<1>1. ASSUME NEW p \in Process, Start(p) \/ Main(p) \/ Walk(p) \/ Cancel(p) \/ Crash(p)
      PROVE  ItemsInv(q)'
  BY <1>0, <1>1, OwnStep, OnlyOwnItems, ItemsKept
<1>2. CASE OtherProgram \/ UNCHANGED vars
  BY <1>0, <1>2, ItemsKept DEF OtherProgram, vars, mainVars, walkerVars, Items
<1> QED
  BY <1>1, <1>2 DEF Next

\* The strengthening the results about the history rest on.
LEMMA PipelineInvariant == Spec => [](TypeOK /\ PipelineInv)
<1>1. Init => PipelineInv
  <2> SUFFICES ASSUME Init, NEW p \in Process PROVE ItemsInv(p)
    BY DEF PipelineInv
  <2>1. /\ pc[p] = "new" /\ walker[p] = "off" /\ walked[p] = 0 /\ ~ unsent[p] /\ channel[p] = <<>>
        /\ open[p] /\ written[p] = <<>> /\ kept[p] = <<>> /\ history[p] = NoRun /\ p \notin exited
    BY DEF Init
  <2> QED
    BY <2>1 DEF ItemsInv, BeforeScan, AfterScan, Committed
<1> QED
  BY <1>1, PipelineTypeCorrect, PipelineStep, PTL DEF Spec

----------------------------------------------------------------------------
\* The commit of a scan is a publication of a whole run, or of a marked part of one.
LEMMA CommitPublishes ==
    ASSUME TypeOK, NEW p \in Process, ItemsInv(p), Commit(p), opt[p].db
    PROVE  H!Publish(p)
<1>1. /\ pc[p] = "commit" /\ tree' = tree /\ history' = [history EXCEPT ![p] = H!Run(written[p])]
  BY DEF Commit, Goto
<1>2. /\ history[p] = NoRun /\ WalkEnded(p) /\ (walker[p] = "complete" => walked[p] = Len(tree[p]))
      /\ written[p] = IF walker[p] = "complete" THEN H!Delivered(walked[p])
                      ELSE Append(H!Delivered(walked[p]), Note)
  BY <1>1 DEF ItemsInv, AfterScan
<1>3. walked[p] \in 0 .. Len(tree[p])
  BY TreeTyped DEF TypeOK
<1>4. CASE walker[p] = "complete"
  <2>1. walked[p] = Len(tree[p]) /\ written[p] = H!Delivered(walked[p])
    BY <1>2, <1>4, Zenon
  <2>2. history' = [history EXCEPT ![p] = H!Run(H!Delivered(walked[p]))]
    BY <1>1, <2>1, Zenon
  <2> QED
    BY <1>1, <1>2, <1>3, <2>1, <2>2, Zenon DEF H!Publish, NoRun
<1>5. CASE walker[p] # "complete"
  <2>1. history' = [history EXCEPT ![p] = H!Run(Append(H!Delivered(walked[p]), H!Note))]
    BY <1>1, <1>2, <1>5, Zenon DEF Note
  <2> QED
    BY <1>1, <1>2, <1>3, <2>1, Zenon DEF H!Publish, NoRun
<1> QED
  BY <1>4, <1>5

\* Only a commit changes what readers see.
LEMMA OnlyCommitPublishes ==
    ASSUME NEW p \in Process, Start(p) \/ Main(p) \/ Walk(p) \/ Cancel(p) \/ Crash(p)
    PROVE  UNCHANGED history \/ (Commit(p) /\ opt[p].db)
  BY DEF Start, Main, Walk, Cancel, Crash, CheckTarget, CreateCsv, Begin, Consume, Drain, Commit, Finish,
         Rename, DropWriter, Report, ReportBreaksOff, Fail, Exit, WalkOn, Send, WalkReturns, mainVars

\* "The history is never silently partial": whatever number of scans run, fail, are
\* cancelled or killed in whatever order, to its readers the database is ScanHistory: a run
\* appears in one step, whole or marked as cut short, and never changes afterwards.
THEOREM HistoryIsNeverSilentlyPartial == Spec => PublishesWholeRuns
<1>1. Init => H!Init
  BY DEF Init, H!Init, NoRun
<1>2. TypeOK /\ PipelineInv /\ [Next]_vars => [H!Next]_<<tree, history>>
  <2> SUFFICES ASSUME TypeOK, PipelineInv, [Next]_vars PROVE [H!Next]_<<tree, history>>
    OBVIOUS
  <2>0. tree' = tree
    BY InputsFixed
  <2>1. ASSUME NEW p \in Process, Start(p) \/ Main(p) \/ Walk(p) \/ Cancel(p) \/ Crash(p)
        PROVE  [H!Next]_<<tree, history>>
    <3>1. CASE UNCHANGED history
      BY <2>0, <3>1
    <3>2. CASE Commit(p) /\ opt[p].db
      <4>1. H!Publish(p)
        BY <3>2, CommitPublishes DEF PipelineInv
      <4> QED
        BY <4>1 DEF H!Next
    <3> QED
      BY <2>1, <3>1, <3>2, OnlyCommitPublishes
  <2>2. CASE OtherProgram \/ UNCHANGED vars
    BY <2>0, <2>2 DEF OtherProgram, vars, mainVars
  <2> QED
    BY <2>1, <2>2 DEF Next
<1> QED
  BY <1>1, <1>2, PipelineInvariant, PTL DEF Spec, PublishesWholeRuns, H!Spec

----------------------------------------------------------------------------
\* What happens once to a scan: its run in the history, the end of its walk and of its
\* writer.
Settled(q) ==
    /\ history[q] # NoRun => history[q]' # NoRun
    /\ pc[q] \in {"drop", "done", "crashed"} => pc[q]' \in {"drop", "done", "crashed"}
    /\ pc[q] \in {"failed", "crashed"} => pc[q]' \in {"failed", "crashed"}
    /\ pc[q] \notin {"new", "check", "create"} => pc[q]' \notin {"new", "check", "create"}
    /\ WalkEnded(q) \/ pc[q] = "crashed" =>
         /\ WalkEnded(q)' \/ pc[q]' = "crashed"
         /\ walked[q]' = walked[q]

\* No step undoes it.
LEMMA StaysSettled ==
    ASSUME TypeOK, PipelineInv, [Next]_vars, NEW q \in Process
    PROVE  Settled(q)
<1>0. ItemsInv(q) /\ pc[q] \in Stages
  BY DEF PipelineInv, TypeOK
<1>1. ASSUME NEW p \in Process, Start(p) \/ Main(p) \/ Walk(p) \/ Cancel(p) \/ Crash(p), p # q
      PROVE  Settled(q)
  <2>1. UNCHANGED Items(q)
    BY <1>1, OnlyOwnItems
  <2> QED
    BY <2>1 DEF Items, Settled, WalkEnded
<1>2. CASE Start(q) \/ CheckTarget(q) \/ CreateCsv(q) \/ Finish(q) \/ Rename(q) \/ DropWriter(q) \/ Report(q)
  <2>1. /\ \/ pc[q] = "new" /\ pc[q]' = "check"
           \/ pc[q] = "check" /\ pc[q]' = "create"
           \/ pc[q] = "create" /\ pc[q]' = "begin"
           \/ pc[q] \in {"finish", "rename", "report", "drop"} /\ pc[q]' \in {"rename", "report", "drop", "done"}
        /\ pc[q] = "drop" => pc[q]' = "done"
        /\ UNCHANGED <<walkerVars, history>>
    BY <1>2 DEF Start, CheckTarget, CreateCsv, Finish, Rename, DropWriter, Report, Goto, TypeOK
  <2> QED
    BY <2>1 DEF Settled, WalkEnded, walkerVars
<1>3. CASE Begin(q)
  <2>1. pc[q] = "begin" /\ pc[q]' = "scan" /\ history' = history
    BY <1>3 DEF Begin, Goto, TypeOK
  <2>2. walker[q] = "off"
    BY <1>0, <2>1 DEF ItemsInv, BeforeScan
  <2> QED
    BY <2>1, <2>2 DEF Settled, WalkEnded
<1>4. CASE Walk(q)
  <2>1. walker[q] = "walking" /\ UNCHANGED mainVars
    BY <1>0, <1>4 DEF Walk, WalkOn, Send, WalkReturns, ItemsInv
  <2>2. pc[q] # "crashed"
    BY <1>0, <2>1 DEF ItemsInv
  <2> QED
    BY <2>1, <2>2 DEF Settled, WalkEnded, mainVars
<1>5. CASE Cancel(q) \/ Consume(q) \/ Exit(q)
  BY <1>5 DEF Cancel, Consume, Exit, Settled, WalkEnded, mainVars, walkerVars
<1>6. CASE Drain(q)
  BY <1>6 DEF Drain, Goto, TypeOK, Settled, WalkEnded, walkerVars
<1>7. CASE Commit(q)
  <2>1. pc[q] = "commit" /\ pc[q]' = "finish" /\ UNCHANGED walkerVars
    BY <1>7 DEF Commit, Goto, TypeOK
  <2>2. history[q] = NoRun
    BY <1>0, <2>1 DEF ItemsInv
  <2> QED
    BY <2>1, <2>2 DEF Settled, WalkEnded, walkerVars
<1>8. CASE ReportBreaksOff(q) \/ Fail(q)
  <2>1. pc[q] \notin {"new", "drop", "done", "failed", "crashed"} /\ pc[q]' = "failed" /\ UNCHANGED <<walkerVars, history>>
    BY <1>8 DEF ReportBreaksOff, Fail, Goto, TypeOK
  <2> QED
    BY <2>1 DEF Settled, WalkEnded, walkerVars
<1>9. CASE Crash(q)
  <2>1. pc[q]' = "crashed" /\ UNCHANGED <<walked, history>>
    BY <1>9 DEF Crash, TypeOK
  <2> QED
    BY <2>1 DEF Settled
<1>10. CASE OtherProgram \/ UNCHANGED vars
  BY <1>10 DEF OtherProgram, vars, mainVars, walkerVars, Settled, WalkEnded
<1> QED
  BY <1>1, <1>2, <1>3, <1>4, <1>5, <1>6, <1>7, <1>8, <1>9, <1>10 DEF Next, Main

\* Whoever takes a step is a scan that runs.
LEMMA ActingRuns ==
    ASSUME TypeOK, NEW p \in Process, ItemsInv(p), Main(p) \/ Cancel(p) \/ Crash(p)
    PROVE  Running(p)
<1>1. CASE Exit(p) \/ Cancel(p) \/ Crash(p)
  BY <1>1 DEF Exit, Cancel, Crash, Running
<1>2. CASE Main(p) /\ ~ Exit(p)
  <2>1. pc[p] \notin {"new", "crashed", "done", "failed"}
    BY <1>2 DEF Main, CheckTarget, CreateCsv, Begin, Consume, Drain, Commit, Finish, Rename, DropWriter,
                Report, ReportBreaksOff, Fail, Goto
  <2> QED
    BY <2>1 DEF Running, ItemsInv
<1> QED
  BY <1>1, <1>2

\* A scan that runs without others keeps running without others.
LEMMA OneScanStep ==
    ASSUME ~ Overlap, TypeOK, PipelineInv, OneScan, [Next]_vars
    PROVE  OneScan'
<1> SUFFICES ASSUME NEW a \in Process, NEW b \in Process, Running(a)', Running(b)', a # b PROVE FALSE
  BY DEF OneScan
<1>1. \A q \in Process : ItemsInv(q)
  BY DEF PipelineInv
<1>2. ASSUME NEW p \in Process, Start(p)
      PROVE  FALSE
  <2>1. \A q \in Process \ {p} : ~ Running(q)
    BY <1>2 DEF Start, Running
  <2>2. \A q \in Process \ {p} : ~ Running(q)'
    BY <1>2, <2>1 DEF Start, Goto, Running, TypeOK
  <2> QED
    BY <2>2
<1>3. ASSUME NEW p \in Process, Main(p) \/ Walk(p) \/ Cancel(p) \/ Crash(p),
             NEW q \in Process, Running(q)'
      PROVE  Running(q)
  <2>1. CASE q # p
    <3>1. UNCHANGED Items(q)
      BY <1>3, <2>1, OnlyOwnItems
    <3> QED
      BY <1>3, <3>1 DEF Items, Running
  <2>2. CASE q = p /\ Walk(p)
    BY <1>3, <2>2 DEF Walk, WalkOn, Send, WalkReturns, mainVars, Running
  <2>3. CASE q = p /\ ~ Walk(p)
    BY <1>1, <1>3, <2>3, ActingRuns
  <2> QED
    BY <2>1, <2>2, <2>3
<1>4. CASE OtherProgram \/ UNCHANGED vars
  BY <1>4 DEF OtherProgram, vars, mainVars, Running, OneScan
<1> QED
  BY <1>2, <1>3, <1>4 DEF Next, OneScan

----------------------------------------------------------------------------
\* A row written at the end of a file is appended to it.
LEMMA PutAtEnd ==
    ASSUME NEW rows \in Seq(Row), NEW row \in Row
    PROVE  Put(rows, Len(rows) + 1, row) = Append(rows, row)
<1> DEFINE n    == Len(rows)
           more == Append(rows, row)
<1>1. n \in Nat /\ more \in Seq(Row)
  OBVIOUS
<1>2. Len(more) = n + 1 /\ more[n + 1] = row /\ \A i \in 1 .. n : more[i] = rows[i]
  OBVIOUS
<1>3. more = [i \in 1 .. n + 1 |-> more[i]]
  <2> HIDE DEF more, n
  <2>1. more = [i \in 1 .. Len(more) |-> more[i]]
    BY <1>1
  <2> QED
    BY <1>2, <2>1
<1>4. Put(rows, n + 1, row) = [i \in 1 .. n + 1 |-> IF i = n + 1 THEN row ELSE IF i <= n THEN rows[i] ELSE Gap]
  BY <1>1 DEF Put
<1> HIDE DEF n, more
<1>5. \A i \in 1 .. n + 1 : more[i] = IF i = n + 1 THEN row ELSE IF i <= n THEN rows[i] ELSE Gap
  BY <1>1, <1>2
<1> QED
  BY <1>3, <1>4, <1>5 DEF n, more

\* No object has been delivered at the start of a walk.
LEMMA NoRowsYet ==
    ASSUME NEW p \in Process
    PROVE  ObjectRows(<<>>, p, 0)
  BY DEF ObjectRows

\* The next item is an object, and its row is added.
LEMMA RowAdded ==
    ASSUME NEW p \in Process, NEW rows \in Seq(Row), NEW n \in Nat, ObjectRows(rows, p, n),
           tree[p][n + 1] = "Object"
    PROVE  ObjectRows(Append(rows, [by |-> p, item |-> n + 1]), p, n + 1)
<1> DEFINE row  == [by |-> p, item |-> n + 1]
           more == Append(rows, row)
           m    == Len(rows)
<1>1. /\ \A i \in DOMAIN rows : rows[i].by = p
      /\ \A i, j \in DOMAIN rows : i < j => rows[i].item < rows[j].item
      /\ {rows[i].item : i \in DOMAIN rows} = {i \in 1 .. n : tree[p][i] = "Object"}
  BY DEF ObjectRows
<1>2. /\ m \in Nat /\ DOMAIN rows = 1 .. m /\ DOMAIN more = 1 .. m + 1
      /\ \A i \in 1 .. m : more[i] = rows[i]
      /\ more[m + 1] = row
  OBVIOUS
<1>3. row.by = p /\ row.item = n + 1
  OBVIOUS
<1>4. \A i \in 1 .. m : rows[i].item \in 1 .. n
  BY <1>1, <1>2
<1> HIDE DEF row, more, m
<1>5. \A i \in DOMAIN more : more[i].by = p
  BY <1>1, <1>2, <1>3
<1>6. \A i, j \in DOMAIN more : i < j => more[i].item < more[j].item
  BY <1>1, <1>2, <1>3, <1>4
<1>7. {more[i].item : i \in DOMAIN more} = {i \in 1 .. n + 1 : tree[p][i] = "Object"}
  <2>1. {more[i].item : i \in DOMAIN more} = {rows[i].item : i \in DOMAIN rows} \cup {n + 1}
    BY <1>2, <1>3
  <2>2. {i \in 1 .. n + 1 : tree[p][i] = "Object"} = {i \in 1 .. n : tree[p][i] = "Object"} \cup {n + 1}
    OBVIOUS
  <2> QED
    BY <1>1, <2>1, <2>2
<1> QED
  BY <1>5, <1>6, <1>7 DEF ObjectRows, more, row

\* The next item is not an object, and no row is added.
LEMMA RowSkipped ==
    ASSUME NEW p \in Process, NEW rows \in Seq(Row), NEW n \in Nat, ObjectRows(rows, p, n),
           tree[p][n + 1] # "Object"
    PROVE  ObjectRows(rows, p, n + 1)
<1>1. {i \in 1 .. n + 1 : tree[p][i] = "Object"} = {i \in 1 .. n : tree[p][i] = "Object"}
  OBVIOUS
<1> QED
  BY <1>1 DEF ObjectRows

\* The file at the export path stays what it was.
LEMMA TargetKept ==
    ASSUME TypeOK, PipelineInv, [Next]_vars, TargetInv, ExportIsWhole, names'.target = names.target,
           names.target # NoFile => content'[names.target] = content[names.target]
    PROVE  TargetInv' /\ ExportIsWhole'
<1>0. opt' = opt /\ tree' = tree
  BY InputsFixed
<1>1. \A q \in Process : Settled(q)
  BY StaysSettled
<1>2. TargetInv'
  <2> SUFFICES ASSUME names.target # NoFile, NEW q \in Process, HasRowsOf("target", q)'
               PROVE  /\ opt[q].db => history[q]' # NoRun
                      /\ opt[q].out = "Csv" => pc[q]' \in {"drop", "done", "crashed"}
    BY <1>0 DEF TargetInv
  <2>1. HasRowsOf("target", q)
    BY DEF HasRowsOf
  <2> QED
    BY <1>1, <2>1 DEF TargetInv, Settled
<1>3. ExportIsWhole'
  <2> SUFFICES ASSUME names.target \notin {NoFile, Foreign}, ~ ReportBroken'
               PROVE  \E p \in Process : /\ WalkEnded(p)' \/ pc[p]' = "crashed"
                                         /\ ObjectRows(content[names.target], p, walked[p]')
    BY <1>0 DEF ExportIsWhole, ObjectRows
  <2>1. ~ ReportBroken
    BY <1>0, <1>1 DEF ReportBroken, Settled
  <2>2. PICK p \in Process : /\ WalkEnded(p) \/ pc[p] = "crashed"
                             /\ ObjectRows(content[names.target], p, walked[p])
    BY <2>1 DEF ExportIsWhole
  <2> QED
    BY <1>1, <2>2 DEF Settled
<1> QED
  BY <1>2, <1>3

\* The file named <target>.partial stays what it was, or loses its name.
LEMMA PartialKept ==
    ASSUME TypeOK, PipelineInv, [Next]_vars, PartialInv, names'.partial \in {names.partial, NoFile},
           names'.partial # NoFile => /\ content'[names.partial] = content[names.partial]
                                      /\ \A q \in Process : handle[q] # NoHandle =>
                                           pc[q]' = "crashed" \/ handle[q]' # NoHandle
    PROVE  PartialInv'
<1>0. opt' = opt
  BY InputsFixed
<1>1. \A q \in Process : pc[q] = "crashed" => pc[q]' = "crashed"
  <2>1. \A q \in Process : pc[q] = "crashed" => pc[q]' \in {"failed", "crashed"} /\ pc[q]' \in {"drop", "done", "crashed"}
    BY StaysSettled DEF Settled
  <2> QED
    BY <2>1
<1> SUFFICES ASSUME names'.partial # NoFile, NEW q \in Process, HasRowsOf("partial", q)'
             PROVE  opt[q].out = "Csv" /\ (pc[q]' = "crashed" \/ handle[q]' # NoHandle)
  BY <1>0 DEF PartialInv
<1>2. HasRowsOf("partial", q)
  BY DEF HasRowsOf
<1> QED
  BY <1>1, <1>2 DEF PartialInv

----------------------------------------------------------------------------
\* The writer of a scan whose files stay as they are.
LEMMA WriterKept ==
    ASSUME NEW p \in Process, WriterInv(p), tree' = tree, opt' = opt, names'.partial = names.partial,
           content' = content, handle[p]' = handle[p], kept[p]' = kept[p],
           pc[p]' \in Writing \cup {"report"} => Consumed(p)' = Consumed(p),
           opt[p].out = "Csv" => (pc[p]' \in Writing <=> pc[p] \in Writing),
           opt[p].out = "Report" /\ pc[p]' \in Writing \cup {"report"} => pc[p] \in Writing \cup {"report"}
    PROVE  WriterInv(p)'
<1>2. CASE pc[p]' \in Writing /\ opt[p].out = "Csv"
  <2>1. Consumed(p)' = Consumed(p) /\ pc[p] \in Writing
    BY <1>2
  <2>2. /\ handle[p].file = names.partial /\ names.partial # NoFile
        /\ handle[p].at = Len(content[names.partial])
        /\ ObjectRows(content[names.partial], p, Consumed(p))
    BY <1>2, <2>1 DEF WriterInv
  <2> QED
    BY <1>2, <2>1, <2>2 DEF WriterInv, ObjectRows
<1>3. CASE ~ (pc[p]' \in Writing /\ opt[p].out = "Csv")
  <2>1. handle[p]' = NoHandle
    BY <1>3 DEF WriterInv
  <2>2. ASSUME pc[p]' \in Writing \cup {"report"}, opt[p].out = "Report"
        PROVE  ObjectRows(kept[p], p, Consumed(p)) /\ Consumed(p)' = Consumed(p)
    BY <2>2 DEF WriterInv
  <2> QED
    BY <1>3, <2>1, <2>2 DEF WriterInv, ObjectRows
<1> QED
  BY <1>2, <1>3

\* While one scan takes a step, no other one has a writer.
LEMMA OthersIdle ==
    ASSUME ~ Overlap, TypeOK, PipelineInv, OneScan, NEW p \in Process, NEW q \in Process \ {p},
           WriterInv(q), opt' = opt, Start(p) \/ Main(p) \/ Crash(p)
    PROVE  WriterInv(q)' /\ handle[q] = NoHandle /\ handle[q]' = NoHandle
<1>1. ItemsInv(q) /\ ItemsInv(p)
  BY DEF PipelineInv
<1>2. ~ Running(q)
  <2>1. CASE Start(p)
    BY <2>1 DEF Start, Running
  <2>2. CASE Main(p) \/ Crash(p)
    BY <1>1, <2>2, ActingRuns DEF OneScan
  <2> QED
    BY <2>1, <2>2
<1>3. pc[q] \notin Writing \cup {"report"}
  BY <1>1, <1>2 DEF Running, ItemsInv, Writing
<1>4. handle[q] = NoHandle
  BY <1>3 DEF WriterInv
<1>5. handle[q]' = handle[q]
  <2>1. handle \in [Process -> [file : Files \cup {NoFile}, at : Nat]]
    BY DEF TypeOK
  <2>2. \/ handle' = handle
        \/ \E h : handle' = [handle EXCEPT ![p] = h]
        \/ \E h : handle' = [handle EXCEPT ![p].at = h]
    BY DEF Start, Main, Crash, CheckTarget, CreateCsv, Begin, Consume, Drain, Commit, Finish, Rename,
           DropWriter, Report, ReportBreaksOff, Fail, Exit
  <2> QED
    BY <2>1, <2>2
<1>6. pc[q]' = pc[q]
  BY OnlyOwnItems DEF Items
<1> QED
  BY <1>3, <1>4, <1>5, <1>6 DEF WriterInv

\* The two names keep what they lead to.
LEMMA NamesKept ==
    ASSUME TypeOK, PipelineInv, [Next]_vars, NamesInv, names'.target = names.target,
           names'.partial \in {names.partial, NoFile}
    PROVE  NamesInv'
<1>0. opt' = opt
  BY InputsFixed
<1>1. \A q \in Process : pc[q] \notin {"new", "check", "create"} => pc[q]' \notin {"new", "check", "create"}
  BY StaysSettled DEF Settled
<1>2. NoFile \notin Process /\ NoFile # Foreign
  BY PipelineAssumption DEF NoFile, Foreign
<1>3. names.target = names.partial => names.target = NoFile
  BY DEF NamesInv
<1>4. /\ names.target \in Process => pc[names.target] \notin {"new", "check", "create"}
      /\ names.partial \in Process => pc[names.partial] \notin {"new", "check", "create"}
  BY DEF NamesInv
<1>5. names.partial # Foreign /\ (names.partial \in Process => opt[names.partial].out = "Csv")
  BY DEF NamesInv
<1>6. \A n \in {"target", "partial"} : names'[n] \in Process => pc'[names'[n]] \notin {"new", "check", "create"}
  BY <1>1, <1>2, <1>4
<1> QED
  BY <1>0, <1>2, <1>3, <1>5, <1>6 DEF NamesInv

----------------------------------------------------------------------------
\* What the consumer has of a walk that ended, and of one that has not begun.
LEMMA AllConsumed ==
    ASSUME TypeOK, NEW p \in Process, ItemsInv(p), pc[p] \in BeforeScan \cup AfterScan
    PROVE  Consumed(p) = walked[p]
<1>1. ~ unsent[p] /\ channel[p] = <<>>
  BY DEF ItemsInv, WalkEnded, BeforeScan, AfterScan
<1>2. Len(channel[p]) = 0 /\ walked[p] \in Nat
  BY <1>1 DEF TypeOK
<1> QED
  BY <1>1, <1>2 DEF Consumed

\* The next item the consumer receives is the one after those it has.
LEMMA ConsumesNext ==
    ASSUME TypeOK, NEW p \in Process, ItemsInv(p), ItemsInv(p)', Consume(p)
    PROVE  /\ Consumed(p) \in Nat /\ Head(channel[p]) = Consumed(p) + 1
           /\ Consumed(p)' = Consumed(p) + 1
<1> DEFINE n == Len(written[p])
<1>1. pc[p] = "scan" /\ pc[p]' = "scan" /\ channel[p] # <<>> /\ written[p]' = Append(written[p], Head(channel[p]))
  BY DEF Consume, TypeOK
<1>2. written[p] \in Seq(Nat) /\ channel[p] \in Seq(Nat)
  BY DEF TypeOK
<1>3. n \in Nat /\ Head(channel[p]) = channel[p][1] /\ 1 \in DOMAIN channel[p] /\ Len(written[p]') = n + 1
  BY <1>1, <1>2
<1>4. Consumed(p) = n /\ Consumed(p)' = Len(written[p]') /\ channel[p][1] = n + 1
  BY <1>1, <1>3 DEF ItemsInv
<1> QED
  BY <1>3, <1>4

\* A row goes to the end of the file named <target>.partial.
LEMMA CsvRow ==
    ASSUME TypeOK, NEW p \in Process, ItemsInv(p), ItemsInv(p)', tree' = tree, opt' = opt, WriterInv(p),
           Consume(p), opt[p].out = "Csv"
    PROVE  WriterInv(p)' /\ (\A f \in Files \ {names.partial} : content'[f] = content[f]) /\ handle[p]' # NoHandle
<1> DEFINE f == names.partial
           n == Consumed(p)
           row == [by |-> p, item |-> n + 1]
<1>1. /\ pc[p] = "scan" /\ pc[p]' = "scan" /\ names' = names /\ "scan" \in Writing
  BY DEF Consume, Writing
<1>2. /\ handle[p].file = f /\ f # NoFile /\ handle[p].at = Len(content[f]) /\ ObjectRows(content[f], p, n)
  BY <1>1 DEF WriterInv
<1>3. n \in Nat /\ Head(channel[p]) = n + 1 /\ Consumed(p)' = n + 1
  BY ConsumesNext
<1>4. content \in [Files -> Seq(Row)] /\ f \in Files /\ names \in [target : Files \cup {NoFile}, partial : Files \cup {NoFile}]
      /\ handle \in [Process -> [file : Files \cup {NoFile}, at : Nat]]
  BY <1>2 DEF TypeOK
<1>5. row \in Row
  BY <1>3 DEF Row
<1>6. content[f] \in Seq(Row) /\ Len(content[f]) \in Nat
  BY <1>4
<1> HIDE DEF n, f, row
<1>7. CASE tree[p][n + 1] = "Object"
  <2>1. /\ content' = [content EXCEPT ![f] = Put(content[f], Len(content[f]) + 1, row)]
        /\ handle' = [handle EXCEPT ![p].at = Len(content[f]) + 1]
    BY <1>2, <1>3, <1>7 DEF Consume, row
  <2>2. content'[f] = Append(content[f], row)
    BY <1>4, <1>5, <1>6, <2>1, PutAtEnd
  <2>3. Len(content'[f]) = Len(content[f]) + 1
    BY <1>5, <1>6, <2>2
  <2>4. ObjectRows(content'[f], p, n + 1)
    BY <1>2, <1>3, <1>6, <1>7, <2>2, RowAdded DEF row
  <2>5. handle[p]'.file = f /\ handle[p]'.at = Len(content[f]) + 1
    BY <1>2, <1>4, <2>1
  <2>6. handle[p]' # NoHandle
    BY <1>2, <2>5 DEF NoHandle
  <2>7. \A g \in Files \ {f} : content'[g] = content[g]
    BY <1>4, <2>1
  <2> QED
    BY <1>1, <1>2, <1>3, <2>3, <2>4, <2>5, <2>6, <2>7 DEF WriterInv, ObjectRows, f
<1>8. CASE tree[p][n + 1] # "Object"
  <2>1. UNCHANGED <<content, handle>>
    BY <1>3, <1>8 DEF Consume
  <2>2. ObjectRows(content[f], p, n + 1)
    BY <1>2, <1>3, <1>6, <1>8, RowSkipped
  <2>3. handle[p] # NoHandle
    BY <1>2 DEF NoHandle
  <2> QED
    BY <1>1, <1>2, <1>3, <2>1, <2>2, <2>3 DEF WriterInv, ObjectRows, f
<1> QED
  BY <1>7, <1>8

\* A scan with a report, or without an export, keeps its rows and leaves the files alone.
LEMMA OtherRow ==
    ASSUME TypeOK, NEW p \in Process, ItemsInv(p), ItemsInv(p)', tree' = tree, opt' = opt, WriterInv(p),
           Consume(p), opt[p].out # "Csv"
    PROVE  WriterInv(p)' /\ UNCHANGED <<content, handle>>
<1> DEFINE n == Consumed(p)
           row == [by |-> p, item |-> n + 1]
<1>1. pc[p] = "scan" /\ pc[p]' = "scan" /\ "scan" \in Writing /\ UNCHANGED <<content, handle>>
  BY DEF Consume, Writing
<1>2. n \in Nat /\ Head(channel[p]) = n + 1 /\ Consumed(p)' = n + 1
  BY ConsumesNext
<1>3. handle[p]' = NoHandle
  BY <1>1 DEF WriterInv
<1>4. CASE opt[p].out = "Report"
  <2>1. ObjectRows(kept[p], p, n) /\ kept[p] \in Seq(Row)
    BY <1>1, <1>4 DEF WriterInv, TypeOK
  <2>2. kept[p]' = IF tree[p][n + 1] = "Object" THEN Append(kept[p], row) ELSE kept[p]
    BY <1>2, <1>4 DEF Consume, TypeOK
  <2> HIDE DEF n
  <2>3. ObjectRows(kept[p]', p, n + 1)
    BY <1>2, <2>1, <2>2, RowAdded, RowSkipped
  <2> QED
    BY <1>1, <1>2, <1>3, <2>3 DEF WriterInv, ObjectRows
<1>5. CASE opt[p].out # "Report"
  BY <1>1, <1>3, <1>5 DEF WriterInv
<1> QED
  BY <1>1, <1>4, <1>5

----------------------------------------------------------------------------
\* One scan at a time: whatever a scan writes, only finished rows get the name of the target.
LEMMA ExportStep ==
    ASSUME ~ Overlap, TypeOK, PipelineInv, PipelineInv', ExportInv, [Next]_vars
    PROVE  ExportInv'
<1>0. opt' = opt /\ tree' = tree
  BY InputsFixed
<1>i. \A q \in Process : ItemsInv(q) /\ ItemsInv(q)'
  BY DEF PipelineInv
<1>x. OneScan /\ NamesInv /\ (\A q \in Process : WriterInv(q)) /\ PartialInv /\ TargetInv /\ ExportIsWhole
  BY DEF ExportInv
<1>o. OneScan'
  BY <1>x, OneScanStep
<1>n. names \in [target : Files \cup {NoFile}, partial : Files \cup {NoFile}] /\ content \in [Files -> Seq(Row)]
      /\ handle \in [Process -> [file : Files \cup {NoFile}, at : Nat]] /\ kept \in [Process -> Seq(Row)]
      /\ pc \in [Process -> Stages]
  BY DEF TypeOK
<1>a. NoFile \notin Process /\ Nobody \notin Process /\ Foreign \notin Process /\ NoFile # Foreign /\ NoFile \notin Files
  BY PipelineAssumption DEF NoFile, Foreign, Nobody, Files
<1>s. \A q \in Process : pc[q] \notin {"new", "check", "create"} => pc'[q] \notin {"new", "check", "create"}
  BY StaysSettled DEF Settled
<1>q. ASSUME NEW p \in Process, Start(p) \/ Main(p) \/ Crash(p), NEW q \in Process \ {p}
      PROVE  WriterInv(q)' /\ handle[q] = NoHandle /\ handle[q]' = NoHandle
  BY <1>0, <1>q, <1>x, OthersIdle
\* The files stay as they are and nobody's writer is affected.
<1>u. ASSUME UNCHANGED <<names, content>>, \A q \in Process : WriterInv(q)',
             \A q \in Process : handle[q] # NoHandle => pc[q]' = "crashed" \/ handle[q]' # NoHandle
      PROVE  ExportInv'
  <2>1. NamesInv'
    BY <1>x, <1>u, NamesKept
  <2>2. PartialInv'
    BY <1>x, <1>u, PartialKept
  <2>3. TargetInv' /\ ExportIsWhole'
    BY <1>x, <1>u, TargetKept
  <2> QED
    BY <1>o, <1>u, <2>1, <2>2, <2>3 DEF ExportInv
<1>1. ASSUME NEW p \in Process, Start(p) \/ CheckTarget(p) \/ Begin(p) \/ Drain(p) \/ Commit(p) \/ Finish(p) \/ Exit(p)
      PROVE  ExportInv'
  <2>1. UNCHANGED <<names, content, handle, kept>>
    BY <1>1 DEF Start, CheckTarget, Begin, Drain, Commit, Finish, Exit
  <2>2. \/ pc[p]' \in {"check", "create", "done", "failed"} /\ pc[p] \notin Writing
        \/ /\ pc[p] \in Writing /\ pc[p]' \in Writing \cup {"report"} /\ (opt[p].out = "Csv" => pc[p]' # "report")
           /\ pc[p]' \in {"scan", "commit", "finish", "rename", "report"} /\ pc[p] \in {"begin", "scan", "commit", "finish"}
    BY <1>1, <1>n DEF Start, CheckTarget, Begin, Drain, Commit, Finish, Exit, Goto, Writing
  <2>3. ASSUME pc[p]' \in Writing \cup {"report"} PROVE Consumed(p)' = Consumed(p)
    <3>1. UNCHANGED <<walked, unsent, channel>>
      BY <1>1 DEF Start, CheckTarget, Begin, Drain, Commit, Finish, Exit, walkerVars
    <3> QED
      BY <3>1 DEF Consumed
  <2>4. WriterInv(p)'
    <3>1. opt[p].out = "Csv" => (pc[p]' \in Writing <=> pc[p] \in Writing)
      BY <2>2 DEF Writing
    <3>2. opt[p].out = "Report" /\ pc[p]' \in Writing \cup {"report"} => pc[p] \in Writing \cup {"report"}
      BY <2>2 DEF Writing
    <3> QED
      BY <1>0, <1>x, <2>1, <2>3, <3>1, <3>2, WriterKept
  <2>5. \A q \in Process : WriterInv(q)'
    BY <1>1, <1>q, <2>4 DEF Main
  <2> QED
    BY <1>u, <2>1, <2>5
<1>2. ASSUME NEW p \in Process, Walk(p) \/ Cancel(p) PROVE ExportInv'
  <2>1. UNCHANGED <<names, content, handle, kept, pc>> /\ UNCHANGED <<written, exited>>
    BY <1>2 DEF Walk, WalkOn, Send, WalkReturns, Cancel, mainVars
  <2>2. ASSUME NEW q \in Process PROVE WriterInv(q)'
    <3>1. ASSUME pc[q]' \in Writing \cup {"report"} PROVE Consumed(q)' = Consumed(q)
      <4>1. CASE q # p \/ Cancel(p)
        <5>1. UNCHANGED <<walked[q], unsent[q], channel[q]>>
          BY <1>2, <4>1, OnlyOwnItems DEF Items, Cancel, walkerVars
        <5> QED
          BY <5>1 DEF Consumed
      <4>2. CASE q = p /\ Walk(p)
        <5>1. walker[p] = "walking"
          BY <1>i, <4>2 DEF Walk, WalkOn, Send, WalkReturns, ItemsInv
        <5>2. pc[p] = "scan" /\ pc[p]' = "scan"
          BY <1>i, <2>1, <3>1, <4>2, <5>1 DEF ItemsInv, BeforeScan, AfterScan, Writing, WalkEnded
        <5> QED
          BY <1>i, <2>1, <4>2, <5>2 DEF ItemsInv
      <4> QED
        BY <1>2, <4>1, <4>2
    <3> QED
      BY <1>0, <1>x, <2>1, <3>1, WriterKept
  <2> QED
    BY <1>u, <2>1, <2>2
<1>3. ASSUME NEW p \in Process, CreateCsv(p) PROVE ExportInv'
  <2>1. pc[p] = "create" /\ pc[p]' = "begin" /\ "begin" \in Writing /\ "create" \notin Writing \cup {"report"}
        /\ UNCHANGED <<walkerVars, channel, kept>>
    BY <1>3, <1>n DEF CreateCsv, Goto, Writing
  <2>2. handle[p] = NoHandle
    BY <1>x, <2>1 DEF WriterInv
  <2>3. kept[p]' = <<>> /\ Consumed(p)' = 0
    <3>1. walked[p] = 0 /\ ~ unsent[p] /\ channel[p] = <<>> /\ kept[p] = <<>>
      BY <1>i, <2>1 DEF ItemsInv, BeforeScan
    <3>2. walked[p]' = 0 /\ ~ unsent[p]' /\ Len(channel[p]') = 0
      BY <2>1, <3>1 DEF walkerVars
    <3>3. Consumed(p)' = 0
      BY <3>2 DEF Consumed
    <3> QED
      BY <2>1, <3>1, <3>3
  <2>4. ObjectRows(<<>>, p, 0)' /\ Len(<<>>) = 0
    BY NoRowsYet, <1>0 DEF ObjectRows
  <2>5. CASE opt[p].out # "Csv"
    <3>1. UNCHANGED <<names, content, handle>>
      BY <1>3, <2>5 DEF CreateCsv
    <3>2. WriterInv(p)'
      BY <1>0, <2>1, <2>2, <2>3, <2>4, <2>5, <3>1 DEF WriterInv
    <3> QED
      BY <1>3, <1>q, <1>u, <3>1, <3>2 DEF Main
  <2>6. CASE opt[p].out = "Csv"
    <3> DEFINE f == Opened(p, "partial")
    <3>1. /\ names' = [names EXCEPT !.partial = f] /\ content' = [content EXCEPT ![f] = <<>>]
          /\ handle' = [handle EXCEPT ![p] = [file |-> f, at |-> 0]]
      BY <1>3, <2>6 DEF CreateCsv
    <3>2. f \in Files /\ f # NoFile
      BY <1>a, OpenedTyped
    <3>3. f = p \/ (f = names.partial /\ names.partial # NoFile)
      BY DEF Opened
    <3>4. f # names.target /\ f # Foreign /\ (f \in Process => opt[f].out = "Csv")
      BY <1>a, <1>x, <2>1, <2>6, <3>3 DEF NamesInv
    <3>5. f \in Process => pc'[f] \notin {"new", "check", "create"}
      <4>1. CASE f = p
        BY <2>1, <4>1
      <4>2. CASE f # p
        BY <1>s, <1>x, <3>3, <4>2 DEF NamesInv
      <4> QED
        BY <4>1, <4>2
    <3>6. names.target \in Process => pc'[names.target] \notin {"new", "check", "create"}
      BY <1>s, <1>x DEF NamesInv
    <3> HIDE DEF f
    <3>7. names'.target = names.target /\ names'.partial = f
      BY <1>n, <3>1
    <3>8. content'[f] = <<>> /\ \A g \in Files \ {f} : content'[g] = content[g]
      BY <1>n, <3>1, <3>2
    <3>9. handle[p]' = [file |-> f, at |-> 0]
      BY <1>n, <3>1
    <3>10. NamesInv'
      BY <1>0, <3>4, <3>5, <3>6, <3>7 DEF NamesInv
    <3>11. WriterInv(p)'
      BY <1>0, <2>1, <2>3, <2>4, <2>6, <3>2, <3>7, <3>8, <3>9 DEF WriterInv
    <3>12. PartialInv'
      BY <3>7, <3>8 DEF PartialInv, HasRowsOf
    <3>13. TargetInv' /\ ExportIsWhole'
      BY <1>n, <1>x, <3>4, <3>7, <3>8, TargetKept
    <3> QED
      BY <1>3, <1>o, <1>q, <3>10, <3>11, <3>12, <3>13 DEF ExportInv, Main
  <2> QED
    BY <2>5, <2>6
<1>4. ASSUME NEW p \in Process, Consume(p) PROVE ExportInv'
  <2>1. names' = names
    BY <1>4 DEF Consume
  <2>2. CASE opt[p].out # "Csv"
    BY <1>0, <1>4, <1>i, <1>x, <1>q, <1>u, <2>1, <2>2, OtherRow DEF Main
  <2>3. CASE opt[p].out = "Csv"
    <3>1. WriterInv(p)' /\ (\A f \in Files \ {names.partial} : content'[f] = content[f]) /\ handle[p]' # NoHandle
      BY <1>0, <1>4, <1>i, <1>x, <2>3, CsvRow
    <3>2. names.target # NoFile => names.target \in Files \ {names.partial}
      BY <1>n, <1>x DEF NamesInv
    <3>3. TargetInv' /\ ExportIsWhole'
      BY <1>x, <2>1, <3>1, <3>2, TargetKept
    <3>4. NamesInv'
      BY <1>x, <2>1, NamesKept
    <3>5. PartialInv'
      <4>1. pc[p] = "scan" /\ pc[p]' = "scan" /\ "scan" \in Writing
        BY <1>4 DEF Consume, Writing
      <4>2. \A i \in DOMAIN content'[names.partial] : content'[names.partial][i].by = p
        BY <1>0, <2>1, <2>3, <3>1, <4>1 DEF WriterInv, ObjectRows
      <4> QED
        BY <1>0, <2>1, <2>3, <3>1, <4>2 DEF PartialInv, HasRowsOf
    <3> QED
      BY <1>4, <1>o, <1>q, <3>1, <3>3, <3>4, <3>5 DEF ExportInv, Main
  <2> QED
    BY <2>2, <2>3
<1>5. ASSUME NEW p \in Process, Rename(p) PROVE ExportInv'
  <2>1. /\ pc[p] = "rename" /\ pc[p]' = "drop" /\ "rename" \in Writing /\ "rename" \in AfterScan
        /\ "rename" \in Committed /\ "drop" \notin Writing \cup {"report"}
        /\ names.partial # NoFile /\ names'.target = names.partial /\ names'.partial = NoFile
        /\ content' = content /\ handle[p]' = NoHandle /\ UNCHANGED <<walkerVars, history>>
    BY <1>5, <1>n DEF Rename, Goto, Writing, AfterScan, Committed
  <2>2. NamesInv'
    BY <1>0, <1>a, <1>s, <1>x, <2>1 DEF NamesInv
  <2>3. WriterInv(p)'
    BY <2>1 DEF WriterInv
  <2>4. PartialInv'
    BY <2>1 DEF PartialInv
  <2>5. WalkEnded(p)' /\ walked[p]' = walked[p] /\ Consumed(p) = walked[p] /\ (opt[p].db => history[p]' # NoRun)
    <3>1. WalkEnded(p) /\ (opt[p].db => history[p] # NoRun)
      BY <1>i, <2>1 DEF ItemsInv
    <3>2. Consumed(p) = walked[p]
      BY <1>i, <2>1, AllConsumed
    <3> QED
      BY <2>1, <3>1, <3>2 DEF WalkEnded, walkerVars
  <2>6. CASE opt[p].out = "Csv"
    <3>1. ObjectRows(content[names.partial], p, walked[p])
      BY <1>x, <2>1, <2>5, <2>6 DEF WriterInv
    <3>2. ObjectRows(content[names.target], p, walked[p])'
      BY <1>0, <2>1, <2>5, <3>1 DEF ObjectRows
    <3>3. ExportIsWhole'
      BY <2>5, <3>2 DEF ExportIsWhole
    <3>4. \A i \in DOMAIN content'[names'.target] : content'[names'.target][i].by = p
      BY <3>2 DEF ObjectRows
    <3>5. TargetInv'
      BY <1>0, <2>1, <2>5, <3>4 DEF TargetInv, HasRowsOf
    <3> QED
      BY <1>5, <1>o, <1>q, <2>2, <2>3, <2>4, <3>3, <3>5 DEF ExportInv, Main
  <2>7. opt[p].out = "Csv"
    BY <1>i, <2>1 DEF ItemsInv
  <2> QED
    BY <2>6, <2>7
<1>6. ASSUME NEW p \in Process, DropWriter(p) \/ Fail(p) PROVE ExportInv'
  <2>1. /\ names'.target = names.target /\ names'.partial \in {names.partial, NoFile} /\ content' = content
        /\ pc[p] \notin {"done", "failed", "crashed", "new"} /\ pc[p]' \in {"done", "failed"}
        /\ (names'.partial = NoFile \/ handle[p] = NoHandle)
    BY <1>6, <1>n DEF DropWriter, Fail, Abandoned, Goto
  <2>2. NamesInv'
    BY <1>x, <2>1, NamesKept
  <2>3. WriterInv(p)'
    <3>1. handle[p]' = NoHandle
      <4>1. CASE DropWriter(p)
        BY <1>x, <4>1 DEF DropWriter, Goto, WriterInv, Writing
      <4>2. CASE Fail(p)
        BY <1>n, <4>2 DEF Fail
      <4> QED
        BY <1>6, <4>1, <4>2
    <3> QED
      BY <2>1, <3>1 DEF WriterInv, Writing
  <2>4. \A q \in Process \ {p} : WriterInv(q)' /\ handle[q] = NoHandle
    BY <1>6, <1>q DEF Main
  <2>5. PartialInv'
    BY <1>x, <2>1, <2>4, PartialKept
  <2>6. TargetInv' /\ ExportIsWhole'
    BY <1>x, <2>1, TargetKept
  <2> QED
    BY <1>o, <2>2, <2>3, <2>4, <2>5, <2>6 DEF ExportInv
<1>7. ASSUME NEW p \in Process, Report(p) \/ ReportBreaksOff(p) PROVE ExportInv'
  <2>1. /\ pc[p] = "report" /\ pc[p]' \in {"done", "failed"} /\ handle' = handle
        /\ pc[p]' \notin Writing \cup {"report"} /\ "report" \notin Writing
        /\ "report" \in AfterScan /\ "report" \in Committed /\ UNCHANGED <<walkerVars, history>>
    BY <1>7, <1>n DEF Report, ReportBreaksOff, Goto, Writing, AfterScan, Committed
  <2>2. WriterInv(p)'
    BY <1>x, <2>1 DEF WriterInv
  <2>3. \A q \in Process : WriterInv(q)'
    BY <1>7, <1>q, <2>2 DEF Main
  <2>4. CASE opt[p].out # "Report"
    <3>1. UNCHANGED <<names, content>>
      BY <1>7, <2>4 DEF Report, ReportBreaksOff
    <3> QED
      BY <1>u, <2>1, <2>3, <3>1
  <2>5. CASE opt[p].out = "Report"
    <3> DEFINE f == Opened(p, "target")
    <3>1. names' = [names EXCEPT !.target = f]
      BY <1>7, <2>5 DEF Report, ReportBreaksOff
    <3>2. f \in Files /\ f # NoFile
      BY <1>a, OpenedTyped
    <3>3. f = p \/ (f = names.target /\ names.target # NoFile)
      BY DEF Opened
    <3>4. f # names.partial
      BY <1>x, <2>5, <3>3 DEF NamesInv
    <3>5. f \in Process => pc'[f] \notin {"new", "check", "create"}
      BY <1>s, <1>x, <2>1, <3>3 DEF NamesInv
    <3>6. PICK rows \in Seq(Row) : /\ content' = [content EXCEPT ![f] = rows]
                                   /\ \A i \in DOMAIN rows : rows[i].by = p
                                   /\ (pc[p]' # "failed" => rows = kept[p])
      <4>1. kept[p] \in Seq(Row) /\ ObjectRows(kept[p], p, Consumed(p))
        BY <1>n, <1>x, <2>1, <2>5 DEF WriterInv
      <4>2. \A i \in DOMAIN kept[p] : kept[p][i].by = p
        BY <4>1 DEF ObjectRows
      <4>3. CASE Report(p)
        BY <2>5, <4>1, <4>2, <4>3 DEF Report
      <4>4. CASE ReportBreaksOff(p)
        <5>1. PICK k \in 0 .. Len(kept[p]) : content' = [content EXCEPT ![f] = SubSeq(kept[p], 1, k)]
          BY <4>4 DEF ReportBreaksOff
        <5>2. SubSeq(kept[p], 1, k) \in Seq(Row) /\ \A i \in DOMAIN SubSeq(kept[p], 1, k) : SubSeq(kept[p], 1, k)[i] = kept[p][i] /\ i \in DOMAIN kept[p]
          BY <4>1
        <5>3. pc[p]' = "failed"
          BY <1>n, <4>4 DEF ReportBreaksOff, Goto
        <5> QED
          BY <4>2, <5>1, <5>2, <5>3
      <4> QED
        BY <1>7, <4>3, <4>4
    <3> HIDE DEF f
    <3>7. names'.target = f /\ names'.partial = names.partial
      BY <1>n, <3>1
    <3>8. content'[f] = rows /\ \A g \in Files \ {f} : content'[g] = content[g]
      BY <1>n, <3>2, <3>6
    <3>9. NamesInv'
      BY <1>0, <1>s, <1>x, <3>2, <3>4, <3>5, <3>7 DEF NamesInv
    <3>10. PartialInv'
      <4>1. names.partial # NoFile => content'[names.partial] = content[names.partial]
        BY <1>n, <3>4, <3>8
      <4> QED
        BY <1>x, <2>1, <3>7, <4>1, PartialKept
    <3>11. WalkEnded(p)' /\ walked[p]' = walked[p] /\ Consumed(p) = walked[p] /\ (opt[p].db => history[p]' # NoRun)
      <4>1. WalkEnded(p) /\ (opt[p].db => history[p] # NoRun)
        BY <1>i, <2>1 DEF ItemsInv
      <4>2. Consumed(p) = walked[p]
        BY <1>i, <2>1, AllConsumed
      <4> QED
        BY <2>1, <4>1, <4>2 DEF WalkEnded, walkerVars
    <3>12. TargetInv'
      <4>1. \A i \in DOMAIN content'[names'.target] : content'[names'.target][i].by = p
        BY <3>6, <3>7, <3>8
      <4>2. \A q \in Process : HasRowsOf("target", q)' => q = p
        BY <4>1 DEF HasRowsOf
      <4> QED
        BY <1>0, <2>5, <3>11, <4>2 DEF TargetInv
    <3>13. ExportIsWhole'
      <4>1. CASE pc[p]' = "failed"
        BY <1>0, <2>5, <4>1 DEF ExportIsWhole, ReportBroken
      <4>2. CASE pc[p]' # "failed"
        <5>1. rows = kept[p] /\ ObjectRows(kept[p], p, walked[p])
          <6>1. ObjectRows(kept[p], p, Consumed(p))
            BY <1>x, <2>1, <2>5 DEF WriterInv
          <6>2. rows = kept[p]
            BY <3>6, <4>2, Zenon
          <6> QED
            BY <3>11, <6>1, <6>2, Zenon
        <5>2. ObjectRows(content[names.target], p, walked[p])'
          BY <1>0, <3>7, <3>8, <3>11, <5>1 DEF ObjectRows
        <5> QED
          BY <3>11, <5>2 DEF ExportIsWhole
      <4> QED
        BY <4>1, <4>2
    <3> QED
      BY <1>o, <2>3, <3>9, <3>10, <3>12, <3>13 DEF ExportInv
  <2> QED
    BY <2>4, <2>5
<1>8. ASSUME NEW p \in Process, Crash(p) PROVE ExportInv'
  <2>1. UNCHANGED <<names, content>> /\ pc[p]' = "crashed" /\ handle[p]' = NoHandle /\ "crashed" \notin Writing \cup {"report"}
    BY <1>8, <1>n DEF Crash, Writing
  <2>2. WriterInv(p)'
    BY <2>1 DEF WriterInv
  <2>3. \A q \in Process \ {p} : WriterInv(q)' /\ handle[q] = NoHandle
    BY <1>8, <1>q
  <2> QED
    BY <1>u, <2>1, <2>2, <2>3
<1>9. CASE OtherProgram
  <2>1. /\ names.target = NoFile /\ names'.target = Foreign /\ names'.partial = names.partial
        /\ content'[Foreign] = <<Gap>> /\ \A g \in Files \ {Foreign} : content'[g] = content[g]
    BY <1>9, <1>n DEF OtherProgram, Files
  <2>2. UNCHANGED <<pc, handle, kept, walkerVars, channel>>
    BY <1>9 DEF OtherProgram
  <2>3. names.partial # Foreign /\ (names.partial # NoFile => content'[names.partial] = content[names.partial])
    BY <1>n, <1>x, <2>1 DEF NamesInv
  <2>4. NamesInv'
    BY <1>0, <1>a, <1>x, <2>1, <2>2, <2>3 DEF NamesInv
  <2>5. PartialInv'
    BY <1>x, <2>1, <2>2, <2>3, PartialKept
  <2>6. TargetInv'
    <3>1. \A i \in DOMAIN content'[Foreign] : content'[Foreign][i].by \notin Process
      BY <1>a, <2>1 DEF Gap
    <3> QED
      BY <2>1, <3>1 DEF TargetInv, HasRowsOf
  <2>7. ExportIsWhole'
    BY <2>1 DEF ExportIsWhole
  <2>8. ASSUME NEW q \in Process PROVE WriterInv(q)'
    <3>1. Consumed(q)' = Consumed(q)
      BY <2>2 DEF Consumed, walkerVars
    <3>2. CASE pc[q] \in Writing /\ opt[q].out = "Csv"
      <4>1. /\ handle[q].file = names.partial /\ names.partial # NoFile
            /\ handle[q].at = Len(content[names.partial])
            /\ ObjectRows(content[names.partial], q, Consumed(q))
        BY <1>x, <3>2 DEF WriterInv
      <4> QED
        BY <1>0, <2>1, <2>2, <2>3, <3>1, <3>2, <4>1 DEF WriterInv, ObjectRows
    <3>3. CASE ~ (pc[q] \in Writing /\ opt[q].out = "Csv")
      BY <1>0, <1>x, <2>2, <3>1, <3>3 DEF WriterInv, ObjectRows
    <3> QED
      BY <3>2, <3>3
  <2> QED
    BY <1>o, <2>4, <2>5, <2>6, <2>7, <2>8 DEF ExportInv
<1>10. CASE UNCHANGED vars
  <2>1. UNCHANGED <<pc, handle, kept, names, content, walkerVars, channel>>
    BY <1>10 DEF vars, mainVars
  <2>2. ASSUME NEW q \in Process PROVE WriterInv(q)'
    <3>1. Consumed(q)' = Consumed(q)
      BY <2>1 DEF Consumed, walkerVars
    <3> QED
      BY <1>0, <1>x, <2>1, <3>1, WriterKept
  <2> QED
    BY <1>u, <2>1, <2>2
<1> QED
  BY <1>1, <1>2, <1>3, <1>4, <1>5, <1>6, <1>7, <1>8, <1>9, <1>10 DEF Next, Main

\* The strengthening the results about the exports rest on: scans do not overlap.
LEMMA ExportInvariant ==
    ASSUME ~ Overlap
    PROVE  Spec => [](TypeOK /\ PipelineInv /\ ExportInv)
<1>1. Init => ExportInv
  <2> SUFFICES ASSUME Init PROVE ExportInv
    OBVIOUS
  <2>1. /\ \A p \in Process : pc[p] = "new" /\ handle[p] = NoHandle
        /\ names.target = NoFile /\ names.partial = NoFile
    BY DEF Init
  <2>2. NoFile \notin Process /\ NoFile # Foreign
    BY PipelineAssumption DEF NoFile, Foreign
  <2>3. OneScan /\ NamesInv
    BY <2>1, <2>2 DEF OneScan, Running, NamesInv
  <2>4. \A p \in Process : WriterInv(p)
    BY <2>1 DEF WriterInv, Writing
  <2> QED
    BY <2>1, <2>3, <2>4 DEF ExportInv, PartialInv, TargetInv, ExportIsWhole
<1>2. TypeOK /\ PipelineInv /\ PipelineInv' /\ ExportInv /\ [Next]_vars => ExportInv'
  BY ExportStep
<1> QED
  BY <1>1, <1>2, PipelineInvariant, PTL DEF Spec

\* "A half-written export can never be taken for a complete one", for any number of scans
\* that run one after another, of any walks and with any options.
THEOREM ExportIsWholeAlways ==
    ASSUME ~ Overlap
    PROVE  Spec => []ExportIsWhole
<1>1. ExportInv => ExportIsWhole
  BY DEF ExportInv
<1>2. Spec => [](TypeOK /\ PipelineInv /\ ExportInv)
  BY ExportInvariant
<1> QED
  BY <1>1, <1>2, PTL

\* The run of a scan whose export is published is in the history: COMMIT comes first.
THEOREM ExportedRunIsInHistoryAlways ==
    ASSUME ~ Overlap
    PROVE  Spec => []ExportedRunIsInHistory
<1>1. ExportInv => ExportedRunIsInHistory
  BY DEF ExportInv, TargetInv, HasRowsOf, ExportedRunIsInHistory
<1>2. Spec => [](TypeOK /\ PipelineInv /\ ExportInv)
  BY ExportInvariant
<1> QED
  BY <1>1, <1>2, PTL

\* "If the scan fails, no partial export is left behind": an error return leaves no row of
\* the scan under either name.
THEOREM FailedScanLeavesNoExportAlways ==
    ASSUME ~ Overlap
    PROVE  Spec => []FailedScanLeavesNoExport
<1>1. ExportInv => FailedScanLeavesNoExport
  <2> SUFFICES ASSUME ExportInv, NEW p \in Process, opt[p].out = "Csv", pc[p] = "failed",
                      NEW n \in {"target", "partial"}, names[n] # NoFile, HasRowsOf(n, p)
               PROVE  FALSE
    BY DEF FailedScanLeavesNoExport, HasRowsOf
  <2>1. handle[p] = NoHandle
    BY DEF ExportInv, WriterInv, Writing
  <2>2. CASE n = "partial"
    BY <2>1, <2>2 DEF ExportInv, PartialInv
  <2>3. CASE n = "target"
    BY <2>3 DEF ExportInv, TargetInv
  <2> QED
    BY <2>2, <2>3
<1>2. Spec => [](TypeOK /\ PipelineInv /\ ExportInv)
  BY ExportInvariant
<1> QED
  BY <1>1, <1>2, PTL
============================================================================
