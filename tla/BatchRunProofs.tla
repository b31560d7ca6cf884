--------------------------- MODULE BatchRunProofs ---------------------------
(***************************************************************************)
(* Proofs about BatchRun: its type invariant, its safety invariants and    *)
(* that it implements BatchTask, for every number of keywords and every    *)
(* concurrency. They all rest on the inductive invariant IInv.             *)
(***************************************************************************)
EXTENDS BatchRun, FiniteSetTheorems, TLAPS

Answered(k) == work[k] \in {"load", "swap", "done"}

\* The local variables of the goroutine of a keyword.
WorkerInv ==
  \A k \in Keywords :
    /\ work[k] \in {"new", "acquire", "query"} => outcome[k] = "none"
    /\ work[k] = "append" => outcome[k] \in {"items", "empty"}
    /\ work[k] \in {"load", "swap"} => outcome[k] # "none"
    /\ work[k] = "done" /\ outcome[k] = "none" => cancelled
    /\ k \in results <=> Answered(k) /\ outcome[k] = "items"

\* The submission loop starts the goroutines in order, and g.Wait waits for
\* those it started.
LoopInv ==
  /\ \A k \in Keywords : work[k] = "new" <=> k >= next
  /\ main # "submit" => next = N + 1 \/ cancelled
  /\ main \notin {"submit", "wait"} => \A k \in Keywords : work[k] \in {"new", "done"}

\* "completed" is decided only when every keyword is counted.
VerdictInv ==
  /\ main \in {"submit", "wait", "decide"} <=> verdict = "none"
  /\ verdict = "completed" =>
       \A k \in Keywords : work[k] = "done" /\ outcome[k] # "none"
  /\ verdict = "cancelled" => cancelled

\* resultFile is set only after the file holds all the results.
FileInv ==
  /\ main \in {"submit", "wait", "decide", "save", "write"} => ~named
  /\ main = "write" => results # {}
  /\ named => file = [state |-> "written", holds |-> results] /\ results # {}

\* The row is either as Create inserted it or closed with the final counts.
RowInv ==
  /\ row.status = "running" =>
       row.completed = 0 /\ row.success = 0 /\ ~row.file
  /\ row.status # "running" =>
       /\ main \in {"finish", "unregister", "closed"}
       /\ row.status = verdict /\ row.file = named
       /\ row.completed = progress.completed /\ row.success = progress.success

ReportInv ==
  /\ registered <=> main # "closed"
  /\ cli # "poll" => ~registered
  /\ report.read => cli = "exit" /\ report.row = row

\* The semaphore counts the goroutines that hold a permit, and the progress
\* record counts those that have an answer.
CountInv ==
  /\ permits = Cardinality(InFlight)
  /\ ProgressExact

FlowInv == WorkerInv /\ LoopInv /\ VerdictInv /\ FileInv /\ RowInv /\ ReportInv

IInv == TypeOK /\ FlowInv /\ CountInv

----------------------------------------------------------------------------
\* Sets of keywords are finite, and one keyword more or less counts for one.

\* The cardinality of a set of keywords is a number between 0 and N.
LEMMA KeywordSets ==
  ASSUME NEW S \in SUBSET Keywords
  PROVE  IsFiniteSet(S) /\ Cardinality(S) \in 0..N
<1>1. N \in Nat \ {0}
  BY NAssumption
<1>2. IsFiniteSet(1..N) /\ Cardinality(1..N) = N
  BY <1>1, FS_Interval
<1>3. IsFiniteSet(S) /\ Cardinality(S) <= Cardinality(1..N)
  BY <1>2, FS_Subset DEF Keywords
<1>4. Cardinality(S) \in Nat
  BY <1>3, FS_CardinalityType
<1> QED
  BY <1>1, <1>2, <1>3, <1>4

\* A keyword that joins a set of keywords adds one to its cardinality.
LEMMA KeywordJoins ==
  ASSUME NEW S \in SUBSET Keywords, NEW k \in Keywords, k \notin S
  PROVE  Cardinality(S \cup {k}) = Cardinality(S) + 1
BY KeywordSets, FS_AddElement

\* A keyword that leaves a set of keywords takes one from its cardinality.
LEMMA KeywordLeaves ==
  ASSUME NEW S \in SUBSET Keywords, NEW k \in Keywords, k \in S
  PROVE  Cardinality(S \ {k}) = Cardinality(S) - 1
BY KeywordSets, FS_RemoveElement

----------------------------------------------------------------------------
\* The initial states

\* What Create leaves behind satisfies the inductive invariant.
LEMMA InitInvariant == Init => IInv
<1> SUFFICES ASSUME Init PROVE IInv
  OBVIOUS
<1> USE DEF Init
<1>1. TypeOK
  <2>1. 0 \in 0..N /\ 1 \in 1..(N + 1) /\ 0 \in 0..Concurrency
    BY NAssumption, ConcurrencyAssumption
  <2>2. NewRow \in Row /\ Zero \in Progress
    BY <2>1 DEF NewRow, Row, Zero, Progress
  <2>3. NoReport \in [read : BOOLEAN, row : Row]
    BY <2>2 DEF NoReport
  <2>4. NoFile \in [state : {"absent", "partial", "written"}, holds : SUBSET Keywords]
    BY DEF NoFile
  <2> QED
    BY <2>1, <2>2, <2>3, <2>4 DEF TypeOK
<1>2. FlowInv
  BY NAssumption
     DEF FlowInv, WorkerInv, LoopInv, VerdictInv, FileInv, RowInv, ReportInv,
         Answered, Keywords, Zero, NewRow, NoFile, NoReport
<1>3. CountInv
  <2>1. InFlight = {} /\ Counted = {} /\ Succeeded = {}
    BY DEF InFlight, Counted, Succeeded
  <2> QED
    BY <2>1, FS_EmptySet DEF CountInv, ProgressExact, Zero
<1> QED
  BY <1>1, <1>2, <1>3 DEF IInv

----------------------------------------------------------------------------
\* The counts

\* Every step keeps the semaphore's and the progress record's counts exact.
\* Only Acquire and SwapProgress move a keyword from one counted set to another.
LEMMA CountStep == IInv /\ [Next]_vars => CountInv'
<1> SUFFICES ASSUME IInv, [Next]_vars PROVE CountInv'
  OBVIOUS
<1> USE DEF IInv
<1>1. /\ InFlight \in SUBSET Keywords /\ Counted \in SUBSET Keywords
      /\ Succeeded \in SUBSET Keywords
  BY DEF InFlight, Counted, Succeeded
<1>2. ASSUME InFlight' = InFlight, Counted' = Counted, Succeeded' = Succeeded,
             permits' = permits, progress' = progress
      PROVE  CountInv'
  BY <1>2 DEF CountInv, ProgressExact
<1>3. CASE UNCHANGED <<work, outcome, permits, progress>>
  BY <1>2, <1>3 DEF InFlight, Counted, Succeeded
<1>4. CASE Submit
  <2>1. work[next] = "new" /\ next \in Keywords
    BY <1>4, NAssumption DEF Submit, FlowInv, LoopInv, TypeOK, Keywords
  <2> QED
    BY <1>2, <1>4, <2>1 DEF Submit, InFlight, Counted, Succeeded, TypeOK
<1>5. ASSUME NEW k \in Keywords, Acquire(k) PROVE CountInv'
  <2>1. InFlight' = InFlight \cup {k} /\ k \notin InFlight
    BY <1>5 DEF Acquire, InFlight, TypeOK
  <2>2. Counted' = Counted /\ Succeeded' = Succeeded
    BY <1>5 DEF Acquire, Counted, Succeeded, TypeOK
  <2> QED
    BY <1>1, <1>5, <2>1, <2>2, KeywordJoins DEF Acquire, CountInv, ProgressExact
<1>6. ASSUME NEW k \in Keywords, AcquireFails(k) PROVE CountInv'
  <2>1. outcome[k] = "none"
    BY <1>6 DEF AcquireFails, FlowInv, WorkerInv
  <2> QED
    BY <1>2, <1>6, <2>1 DEF AcquireFails, InFlight, Counted, Succeeded, TypeOK
<1>7. ASSUME NEW k \in Keywords, QueryReturns(k) PROVE CountInv'
  BY <1>2, <1>7 DEF QueryReturns, InFlight, Counted, Succeeded, TypeOK
<1>8. ASSUME NEW k \in Keywords, AppendResults(k) PROVE CountInv'
  BY <1>2, <1>8 DEF AppendResults, InFlight, Counted, Succeeded, TypeOK
<1>9. ASSUME NEW k \in Keywords, LoadProgress(k) PROVE CountInv'
  BY <1>2, <1>9 DEF LoadProgress, InFlight, Counted, Succeeded, TypeOK
<1>10. ASSUME NEW k \in Keywords, SwapFails(k) PROVE CountInv'
  BY <1>2, <1>10 DEF SwapFails, InFlight, Counted, Succeeded, TypeOK
<1>11. ASSUME NEW k \in Keywords, SwapProgress(k) PROVE CountInv'
  <2>1. InFlight' = InFlight \ {k} /\ k \in InFlight
    BY <1>11 DEF SwapProgress, InFlight, TypeOK
  <2>2. permits' = Cardinality(InFlight')
    BY <1>1, <1>11, <2>1, KeywordLeaves DEF SwapProgress, CountInv
  <2>3. outcome[k] # "none" /\ outcome' = outcome /\ work[k] = "swap"
    BY <1>11 DEF SwapProgress, FlowInv, WorkerInv
  <2>4. Counted' = Counted \cup {k} /\ k \notin Counted
    BY <1>11, <2>3 DEF SwapProgress, Counted, TypeOK
  <2>5. progress'.completed = Cardinality(Counted')
    BY <1>1, <1>11, <2>4, KeywordJoins DEF SwapProgress, Bumped, CountInv, ProgressExact
  <2>6. progress'.success = Cardinality(Succeeded')
    <3>1. CASE outcome[k] = "failed"
      <4>1. Succeeded' = Succeeded
        BY <2>3, <2>4, <3>1 DEF Succeeded
      <4> QED
        BY <1>1, <1>11, <3>1, <4>1, KeywordSets
           DEF SwapProgress, Bumped, CountInv, ProgressExact
    <3>2. CASE outcome[k] # "failed"
      <4>1. Succeeded' = Succeeded \cup {k} /\ k \notin Succeeded
        BY <2>3, <2>4, <3>2 DEF Succeeded
      <4> QED
        BY <1>1, <1>11, <3>2, <4>1, KeywordJoins
           DEF SwapProgress, Bumped, CountInv, ProgressExact
    <3> QED
      BY <3>1, <3>2
  <2> QED
    BY <2>2, <2>5, <2>6 DEF CountInv, ProgressExact
<1>12. CASE \E k \in Keywords : WorkerStep(k)
  BY <1>5, <1>6, <1>7, <1>8, <1>9, <1>10, <1>11, <1>12 DEF WorkerStep, OwnStep
<1> QED
  BY <1>3, <1>4, <1>12
     DEF Next, RunStep, LeaveLoop, Wait, Decide, SaveNothing, OpenFile, WriteFile,
         UpdateRow, FinishRow, Unregister, CliStep, PollGone, ReadRow, Cancel, Exited,
         vars, taskVars, endVars, cliVars

----------------------------------------------------------------------------
\* The types

\* Every step keeps the types. The counts need CountInv: a permit is given back
\* by a goroutine that holds one, and no more than N keywords are counted.
LEMMA TypeStep == IInv /\ [Next]_vars => TypeOK'
<1> SUFFICES ASSUME IInv, [Next]_vars PROVE TypeOK'
  OBVIOUS
<1> USE DEF IInv, TypeOK
<1>1. N \in Nat \ {0} /\ Concurrency \in 1..20
  BY NAssumption, ConcurrencyAssumption
<1>2. CASE Submit
  <2>1. next' \in 1..(N + 1) /\ next \in Keywords
    BY <1>1, <1>2 DEF Submit, Keywords
  <2>2. work' \in [Keywords -> {"new", "acquire", "query", "append", "load", "swap", "done"}]
    BY <1>2 DEF Submit
  <2> QED
    BY <1>2, <2>1, <2>2 DEF Submit, endVars, cliVars
<1>3. CASE LeaveLoop
  BY <1>3 DEF LeaveLoop, taskVars, endVars, cliVars
<1>4. CASE Wait
  BY <1>4 DEF Wait, taskVars, endVars, cliVars
<1>5. CASE Decide
  BY <1>5 DEF Decide, taskVars, cliVars
<1>6. CASE SaveNothing
  BY <1>6 DEF SaveNothing, taskVars, endVars, cliVars
<1>7. CASE OpenFile
  BY <1>7 DEF OpenFile, taskVars, cliVars
<1>8. CASE WriteFile
  <2>1. file' \in [state : {"absent", "partial", "written"}, holds : SUBSET Keywords]
    BY <1>8 DEF WriteFile
  <2>2. named' \in BOOLEAN /\ main' = "update"
    BY <1>8 DEF WriteFile
  <2>3. UNCHANGED <<taskVars, verdict, row, registered, cliVars>>
    BY <1>8 DEF WriteFile
  <2> QED
    BY <2>1, <2>2, <2>3 DEF taskVars, cliVars
<1>9. CASE UpdateRow
  <2>1. row' \in Row
    <3>1. main = "update"
      BY <1>9 DEF UpdateRow
    <3>2. verdict \in {"completed", "cancelled"}
      BY <3>1 DEF FlowInv, VerdictInv
    <3> QED
      BY <1>9, <3>2 DEF UpdateRow, Row, Progress
  <2>2. /\ main' = "finish"
        /\ UNCHANGED <<taskVars, verdict, file, named, registered, cliVars>>
    BY <1>9 DEF UpdateRow
  <2> QED
    BY <2>1, <2>2 DEF taskVars, cliVars
<1>10. CASE FinishRow
  <2>1. row' \in Row
    BY <1>10 DEF FinishRow, Row
  <2>2. /\ main' = "unregister"
        /\ UNCHANGED <<taskVars, verdict, file, named, registered, cliVars>>
    BY <1>10 DEF FinishRow
  <2> QED
    BY <2>1, <2>2 DEF taskVars, cliVars
<1>11. CASE Unregister
  BY <1>11 DEF Unregister, taskVars, cliVars
<1>12. ASSUME NEW k \in Keywords, Acquire(k) PROVE TypeOK'
  BY <1>1, <1>12 DEF Acquire, endVars, cliVars
<1>13. ASSUME NEW k \in Keywords, AcquireFails(k) PROVE TypeOK'
  BY <1>13 DEF AcquireFails, endVars, cliVars
<1>14. ASSUME NEW k \in Keywords, QueryReturns(k) PROVE TypeOK'
  BY <1>14 DEF QueryReturns, endVars, cliVars
<1>15. ASSUME NEW k \in Keywords, AppendResults(k) PROVE TypeOK'
  BY <1>15 DEF AppendResults, endVars, cliVars
<1>16. ASSUME NEW k \in Keywords, LoadProgress(k) PROVE TypeOK'
  BY <1>16 DEF LoadProgress, endVars, cliVars
<1>17. ASSUME NEW k \in Keywords, SwapFails(k) PROVE TypeOK'
  BY <1>1, <1>17 DEF SwapFails, Zero, Progress, endVars, cliVars
<1>18. ASSUME NEW k \in Keywords, SwapProgress(k) PROVE TypeOK'
  <2>1. CountInv'
    BY CountStep
  <2>2. progress' \in Progress
    <3>1. Counted' \in SUBSET Keywords /\ Succeeded' \in SUBSET Keywords
      BY DEF Counted, Succeeded
    <3>2. Cardinality(Counted') \in 0..N /\ Cardinality(Succeeded') \in 0..N
      BY <3>1, KeywordSets
    <3>3. progress'.completed \in 0..N /\ progress'.success \in 0..N
      BY <2>1, <3>2 DEF CountInv, ProgressExact
    <3> QED
      BY <1>18, <3>3 DEF SwapProgress, Bumped, Progress
  <2>3. permits' \in 0..Concurrency
    <3>1. InFlight' \in SUBSET Keywords
      BY DEF InFlight
    <3>2. permits' \in Nat
      BY <2>1, <3>1, KeywordSets DEF CountInv
    <3> QED
      BY <1>1, <1>18, <3>2 DEF SwapProgress
  <2>4. Zero \in Progress
    BY <1>1 DEF Zero, Progress
  <2>5. seen' \in [Keywords -> Progress]
    BY <1>18, <2>4 DEF SwapProgress
  <2>6. work' \in [Keywords -> {"new", "acquire", "query", "append", "load", "swap", "done"}]
    BY <1>18 DEF SwapProgress
  <2>7. UNCHANGED <<main, next, cancelled, outcome, results, endVars, cliVars>>
    BY <1>18 DEF SwapProgress
  <2> QED
    BY <2>2, <2>3, <2>5, <2>6, <2>7 DEF endVars, cliVars
<1>19. CASE PollGone
  BY <1>19 DEF PollGone, taskVars, endVars
<1>20. CASE ReadRow
  <2>1. NewRow \in Row
    BY <1>1 DEF NewRow, Row
  <2>2. report' \in [read : BOOLEAN, row : Row]
    <3>1. row \in Row
      OBVIOUS
    <3>2. CASE report' = NoReport
      BY <2>1, <3>2 DEF NoReport
    <3>3. CASE report' = [read |-> TRUE, row |-> row]
      BY <3>1, <3>3
    <3> QED
      BY <1>20, <3>2, <3>3 DEF ReadRow
  <2>3. cli' = "exit" /\ UNCHANGED <<main, taskVars, endVars>>
    BY <1>20 DEF ReadRow
  <2> QED
    BY <2>2, <2>3 DEF taskVars, endVars
<1>21. CASE Cancel
  BY <1>21 DEF Cancel, endVars, cliVars
<1>22. CASE UNCHANGED vars
  BY <1>22 DEF vars, taskVars, endVars, cliVars
<1> QED
  BY <1>2, <1>3, <1>4, <1>5, <1>6, <1>7, <1>8, <1>9, <1>10, <1>11, <1>12, <1>13,
     <1>14, <1>15, <1>16, <1>17, <1>18, <1>19, <1>20, <1>21, <1>22
     DEF Next, RunStep, WorkerStep, OwnStep, CliStep, Exited

----------------------------------------------------------------------------
\* The control flow

\* Every step keeps FlowInv, one conjunct at a time: the steps of runTask and of
\* the callers first, then those of the goroutines.
LEMMA MainFlowStep == IInv /\ (RunStep \/ CliStep \/ Cancel) => FlowInv'
<1> SUFFICES ASSUME IInv, RunStep \/ CliStep \/ Cancel PROVE FlowInv'
  OBVIOUS
<1> USE DEF IInv, FlowInv
<1>1. N \in Nat \ {0}
  BY NAssumption
<1>2. CASE Submit
  <2> USE <1>2 DEF Submit
  <2>1. next \in Keywords /\ work[next] = "new" /\ outcome[next] = "none"
    BY <1>1 DEF TypeOK, Keywords, LoopInv, WorkerInv
  <2>2. WorkerInv'
    BY <2>1 DEF TypeOK, WorkerInv, Answered
  <2>3. LoopInv'
    BY <1>1, <2>1 DEF TypeOK, LoopInv, Keywords
  <2>4. VerdictInv'
    BY DEF VerdictInv, endVars
  <2>5. FileInv' /\ RowInv' /\ ReportInv'
    BY DEF FileInv, RowInv, ReportInv, endVars, cliVars
  <2> QED
    BY <2>2, <2>3, <2>4, <2>5
<1>3. CASE LeaveLoop
  <2> USE <1>3 DEF LeaveLoop, taskVars, endVars, cliVars
  <2>1. WorkerInv' /\ VerdictInv' /\ FileInv' /\ RowInv' /\ ReportInv'
    BY DEF WorkerInv, Answered, VerdictInv, FileInv, RowInv, ReportInv
  <2>2. LoopInv'
    BY <1>1 DEF LoopInv, TypeOK
  <2> QED
    BY <2>1, <2>2
<1>4. CASE Wait
  BY <1>4 DEF Wait, taskVars, endVars, cliVars, WorkerInv, Answered, LoopInv,
              VerdictInv, FileInv, RowInv, ReportInv
<1>5. CASE Decide
  <2> USE <1>5 DEF Decide, taskVars, cliVars
  <2>1. WorkerInv' /\ LoopInv' /\ FileInv' /\ RowInv' /\ ReportInv'
    BY DEF WorkerInv, Answered, LoopInv, VerdictInv, FileInv, RowInv, ReportInv
  <2>2. VerdictInv'
    <3>1. CASE cancelled
      BY <3>1 DEF VerdictInv, TypeOK
    <3>2. CASE ~cancelled
      <4>1. next = N + 1 /\ \A k \in Keywords : work[k] \in {"new", "done"}
        BY <3>2 DEF LoopInv
      <4>2. \A k \in Keywords : work[k] = "done"
        BY <1>1, <4>1 DEF LoopInv, Keywords
      <4>3. \A k \in Keywords : outcome[k] # "none"
        BY <3>2, <4>2 DEF WorkerInv
      <4> QED
        BY <3>2, <4>2, <4>3 DEF VerdictInv
    <3> QED
      BY <3>1, <3>2
  <2> QED
    BY <2>1, <2>2
<1>6. CASE SaveNothing
  BY <1>6 DEF SaveNothing, taskVars, endVars, cliVars, WorkerInv, Answered, LoopInv,
              VerdictInv, FileInv, RowInv, ReportInv
<1>7. CASE OpenFile
  BY <1>7 DEF OpenFile, taskVars, cliVars, WorkerInv, Answered, LoopInv,
              VerdictInv, FileInv, RowInv, ReportInv
<1>8. CASE WriteFile
  <2> USE <1>8 DEF WriteFile, taskVars, cliVars
  <2>1. WorkerInv' /\ LoopInv' /\ VerdictInv' /\ ReportInv'
    BY DEF WorkerInv, Answered, LoopInv, VerdictInv, ReportInv
  <2>2. FileInv'
    BY DEF FileInv
  <2>3. row.status = "running"
    BY DEF RowInv
  <2>4. RowInv'
    BY <2>3 DEF RowInv
  <2> QED
    BY <2>1, <2>2, <2>4
<1>9. CASE UpdateRow
  <2> USE <1>9 DEF UpdateRow, taskVars, cliVars
  <2>1. WorkerInv' /\ LoopInv' /\ VerdictInv' /\ FileInv'
    BY DEF WorkerInv, Answered, LoopInv, VerdictInv, FileInv
  <2>2. ReportInv'
    BY DEF ReportInv
  <2>3. verdict # "none"
    BY DEF VerdictInv
  <2>4. verdict # "running"
    BY DEF TypeOK
  <2>5. row.status = "running"
    BY DEF RowInv
  <2>6. ASSUME row' = row PROVE RowInv'
    <3>1. row'.status = "running"
      BY <2>5, <2>6
    <3>2. row'.completed = 0 /\ row'.success = 0 /\ ~row'.file
      BY <2>5, <2>6 DEF RowInv
    <3> QED
      BY <3>1, <3>2 DEF RowInv
  <2>7. ASSUME row' = [row EXCEPT !.status = verdict, !.completed = progress.completed,
                             !.success = progress.success, !.file = named]
        PROVE  RowInv'
    <3>1. /\ row'.status = verdict /\ row'.completed = progress.completed
          /\ row'.success = progress.success /\ row'.file = named
      BY <2>7 DEF TypeOK, Row
    <3>2. main' = "finish" /\ verdict' = verdict /\ named' = named /\ progress' = progress
      OBVIOUS
    <3> QED
      BY <2>4, <3>1, <3>2 DEF RowInv
  <2> QED
    BY <2>1, <2>2, <2>6, <2>7
<1>10. CASE FinishRow
  <2> USE <1>10 DEF FinishRow, taskVars, cliVars
  <2>1. WorkerInv' /\ LoopInv' /\ VerdictInv' /\ FileInv'
    BY DEF WorkerInv, Answered, LoopInv, VerdictInv, FileInv
  <2>2. ReportInv'
    BY DEF ReportInv
  <2>3. UNCHANGED <<row.status, row.completed, row.success, row.file>>
    BY DEF TypeOK, Row
  <2>4. RowInv'
    BY <2>3 DEF RowInv
  <2> QED
    BY <2>1, <2>2, <2>4
<1>11. CASE Unregister
  <2> USE <1>11 DEF Unregister, taskVars, cliVars
  <2>1. WorkerInv' /\ LoopInv' /\ VerdictInv' /\ FileInv'
    BY DEF WorkerInv, Answered, LoopInv, VerdictInv, FileInv
  <2>2. RowInv' /\ ReportInv'
    BY DEF RowInv, ReportInv
  <2> QED
    BY <2>1, <2>2
<1>12. CASE PollGone
  BY <1>12 DEF PollGone, taskVars, endVars, WorkerInv, Answered, LoopInv,
               VerdictInv, FileInv, RowInv, ReportInv
<1>13. CASE ReadRow
  <2> USE <1>13 DEF ReadRow, NoReport, taskVars, endVars
  <2>1. WorkerInv' /\ LoopInv' /\ VerdictInv' /\ FileInv' /\ RowInv'
    BY DEF WorkerInv, Answered, LoopInv, VerdictInv, FileInv, RowInv
  <2>2. ReportInv'
    BY DEF ReportInv
  <2> QED
    BY <2>1, <2>2
<1>14. CASE Cancel
  BY <1>14 DEF Cancel, endVars, cliVars, WorkerInv, Answered, LoopInv,
               VerdictInv, FileInv, RowInv, ReportInv
<1> QED
  BY <1>2, <1>3, <1>4, <1>5, <1>6, <1>7, <1>8, <1>9, <1>10, <1>11, <1>12, <1>13,
     <1>14 DEF RunStep, CliStep


\* Every step of a goroutine keeps FlowInv: they only run before the verdict.
LEMMA WorkerFlowStep ==
  ASSUME IInv, NEW k \in Keywords, WorkerStep(k)
  PROVE  FlowInv'
<1> USE DEF IInv, FlowInv
<1>1. ReportInv'
  BY DEF ReportInv, WorkerStep, OwnStep, Acquire, AcquireFails, QueryReturns, AppendResults,
         LoadProgress, SwapProgress, SwapFails, endVars, cliVars
<1>2. main \in {"submit", "wait"}
  BY DEF LoopInv, WorkerStep, OwnStep, Acquire, AcquireFails, QueryReturns, AppendResults,
         LoadProgress, SwapProgress, SwapFails, TypeOK
<1>3. verdict = "none" /\ row.status = "running" /\ ~named
  BY <1>2 DEF VerdictInv, RowInv, FileInv
<1>4. VerdictInv' /\ FileInv' /\ RowInv'
  BY <1>2, <1>3 DEF VerdictInv, FileInv, RowInv, WorkerStep, OwnStep, Acquire, AcquireFails,
         QueryReturns, AppendResults, LoadProgress, SwapProgress, SwapFails, endVars
<1>5. ASSUME UNCHANGED <<main, next, cancelled>>,
             NEW s \in {"acquire", "query", "append", "load", "swap", "done"},
             work[k] # "new", work' = [work EXCEPT ![k] = s]
      PROVE  LoopInv'
  BY <1>2, <1>5 DEF LoopInv, TypeOK
<1>6. CASE Acquire(k)
  <2>1. LoopInv'
    BY <1>5, <1>6 DEF Acquire
  <2>2. WorkerInv'
    BY <1>6 DEF Acquire, WorkerInv, Answered, TypeOK
  <2> QED
    BY <1>1, <1>4, <2>1, <2>2
<1>7. CASE AcquireFails(k)
  <2>1. LoopInv'
    BY <1>5, <1>7 DEF AcquireFails
  <2>2. WorkerInv'
    BY <1>7 DEF AcquireFails, WorkerInv, Answered, TypeOK
  <2> QED
    BY <1>1, <1>4, <2>1, <2>2
<1>8. CASE QueryReturns(k)
  <2>1. PICK r \in {"items", "empty", "failed"} :
          /\ outcome' = [outcome EXCEPT ![k] = r]
          /\ work' = [work EXCEPT ![k] = IF r = "failed" THEN "load" ELSE "append"]
    BY <1>8 DEF QueryReturns
  <2>2. LoopInv'
    BY <1>5, <1>8, <2>1 DEF QueryReturns
  <2>3. WorkerInv'
    BY <1>8, <2>1 DEF QueryReturns, WorkerInv, Answered, TypeOK
  <2> QED
    BY <1>1, <1>4, <2>2, <2>3
<1>9. CASE AppendResults(k)
  <2>1. LoopInv'
    BY <1>5, <1>9 DEF AppendResults
  <2>2. WorkerInv'
    BY <1>9 DEF AppendResults, WorkerInv, Answered, TypeOK
  <2> QED
    BY <1>1, <1>4, <2>1, <2>2
<1>10. CASE LoadProgress(k)
  <2>1. LoopInv'
    BY <1>5, <1>10 DEF LoadProgress
  <2>2. WorkerInv'
    BY <1>10 DEF LoadProgress, WorkerInv, Answered, TypeOK
  <2> QED
    BY <1>1, <1>4, <2>1, <2>2
<1>11. CASE SwapProgress(k)
  <2>1. LoopInv'
    BY <1>5, <1>11 DEF SwapProgress
  <2>2. WorkerInv'
    BY <1>11 DEF SwapProgress, WorkerInv, Answered, TypeOK
  <2> QED
    BY <1>1, <1>4, <2>1, <2>2
<1>12. CASE SwapFails(k)
  <2>1. LoopInv'
    BY <1>5, <1>12 DEF SwapFails
  <2>2. WorkerInv'
    BY <1>12 DEF SwapFails, WorkerInv, Answered, TypeOK
  <2> QED
    BY <1>1, <1>4, <2>1, <2>2
<1> QED
  BY <1>6, <1>7, <1>8, <1>9, <1>10, <1>11, <1>12 DEF WorkerStep, OwnStep

----------------------------------------------------------------------------
\* The inductive invariant

\* IInv holds initially and every step keeps it.
THEOREM Invariance == Spec => []IInv
<1>1. IInv /\ [Next]_vars => IInv'
  <2> SUFFICES ASSUME IInv, [Next]_vars PROVE IInv'
    OBVIOUS
  <2>1. TypeOK' /\ CountInv'
    BY TypeStep, CountStep
  <2>2. FlowInv'
    <3>1. CASE UNCHANGED vars
      BY <3>1 DEF IInv, FlowInv, WorkerInv, Answered, LoopInv, VerdictInv, FileInv,
                  RowInv, ReportInv, vars, taskVars, endVars, cliVars
    <3>2. CASE Next
      BY <3>1, <3>2, MainFlowStep, WorkerFlowStep DEF Next, Exited
    <3> QED
      BY <3>1, <3>2
  <2> QED
    BY <2>1, <2>2 DEF IInv
<1> QED
  BY <1>1, InitInvariant, PTL DEF Spec

----------------------------------------------------------------------------
\* The properties

\* Every variable keeps its type.
THEOREM TypeCorrect == Spec => []TypeOK
<1>1. IInv => TypeOK
  BY DEF IInv
<1> QED
  BY <1>1, Invariance, PTL

\* No more than Concurrency keywords are ever queried at once.
THEOREM PermitsBound == Spec => []PermitBound
<1>1. IInv => PermitBound
  BY ConcurrencyAssumption DEF IInv, CountInv, TypeOK, PermitBound
<1> QED
  BY <1>1, Invariance, PTL

\* The progress record never loses or repeats an update.
THEOREM ProgressIsExact == Spec => []ProgressExact
<1>1. IInv => ProgressExact
  BY DEF IInv, CountInv
<1> QED
  BY <1>1, Invariance, PTL

\* A row that says "completed" accounts for every keyword.
THEOREM CompletedRowIsTotal == Spec => []CompletedIsTotal
<1>1. IInv => CompletedIsTotal
  <2> SUFFICES ASSUME IInv, row.status = "completed"
               PROVE  /\ row.completed = N
                      /\ row.success = Cardinality({k \in Keywords :
                                                     outcome[k] \in {"items", "empty"}})
    BY DEF CompletedIsTotal
  <2> USE DEF IInv
  <2>1. verdict = "completed" /\ row.completed = progress.completed
                             /\ row.success = progress.success
    BY DEF FlowInv, RowInv
  <2>2. \A k \in Keywords : work[k] = "done" /\ outcome[k] # "none"
    BY <2>1 DEF FlowInv, VerdictInv
  <2>3. Counted = Keywords
    BY <2>2 DEF Counted
  <2>4. Succeeded = {k \in Keywords : outcome[k] \in {"items", "empty"}}
    BY <2>2, <2>3 DEF Succeeded, TypeOK
  <2>5. Cardinality(Keywords) = N
    BY NAssumption, FS_Interval DEF Keywords
  <2> QED
    BY <2>1, <2>3, <2>4, <2>5 DEF CountInv, ProgressExact
<1> QED
  BY <1>1, Invariance, PTL

\* A row that names a result file names a whole one.
THEOREM NamedFilesAreWhole == Spec => []NamedFileIsWhole
<1>1. IInv => NamedFileIsWhole
  <2> SUFFICES ASSUME IInv, row.file
               PROVE  file = [state |-> "written", holds |-> WithItems] /\ WithItems # {}
    BY DEF NamedFileIsWhole
  <2> USE DEF IInv, FlowInv
  <2>1. main \in {"finish", "unregister", "closed"} /\ named
    BY DEF RowInv, TypeOK, Row
  <2>2. \A k \in Keywords : work[k] \in {"new", "done"}
    BY <2>1 DEF LoopInv
  <2>3. results = WithItems
    BY <2>2 DEF WorkerInv, Answered, WithItems, Counted, TypeOK
  <2> QED
    BY <2>1, <2>3 DEF FileInv
<1> QED
  BY <1>1, Invariance, PTL

\* What the batch command prints is final.
THEOREM ReportsAreFinal == Spec => []ReportIsFinal
<1>1. IInv => ReportIsFinal
  BY DEF IInv, FlowInv, ReportInv, ReportIsFinal, TypeOK
<1> QED
  BY <1>1, Invariance, PTL

----------------------------------------------------------------------------
\* The refinement of BatchTask

\* BatchTask counts with the same Cardinality.
LEMMA SameCardinality == \A S : Task!Cardinality(S) = Cardinality(S)
BY DEF Task!Cardinality, Cardinality

\* The sets BatchTask counts are the ones CountInv is about.
LEMMA ResolvedIsCounted ==
  TypeOK => Task!Resolved = Counted /\ Task!Successes = Succeeded
BY DEF TypeOK, Task!Resolved, Task!Successes, Resolution, Counted, Succeeded

\* The initial states of a run are initial states of BatchTask.
LEMMA RefinesInit == Init => Task!Init
BY DEF Init, Task!Init, Resolution, NewRow

\* A step that touches neither what BatchTask sees of the goroutines, nor the
\* context, nor the row is a stuttering step of BatchTask.
LEMMA Stutter ==
  ASSUME Resolution' = Resolution, cancelled' = cancelled, row'.status = row.status,
         row'.completed = row.completed, row'.success = row.success
  PROVE  UNCHANGED Task!taskVars
BY DEF Task!taskVars

\* Every step of a goroutine resolves its keyword or is invisible.
LEMMA WorkerRefines ==
  ASSUME IInv, NEW k \in Keywords, WorkerStep(k)
  PROVE  Task!Next \/ UNCHANGED Task!taskVars
<1> USE DEF IInv, FlowInv
<1>1. cancelled' = cancelled /\ row' = row
  BY DEF WorkerStep, OwnStep, Acquire, AcquireFails, QueryReturns, AppendResults, LoadProgress,
         SwapProgress, SwapFails, endVars
<1>2. CASE SwapProgress(k)
  <2>1. work[k] = "swap" /\ outcome[k] # "none" /\ outcome' = outcome
    BY <1>2 DEF SwapProgress, WorkerInv
  <2>2. main = "submit" \/ main = "wait"
    BY <2>1 DEF LoopInv, TypeOK
  <2>3. row.status = "running"
    BY <2>2 DEF RowInv
  <2>4. Resolution[k] = "pending"
    BY <2>1 DEF Resolution
  <2> DEFINE r == IF outcome[k] = "failed" THEN "failed" ELSE "ok"
  <2>5. Resolution' = [Resolution EXCEPT ![k] = r]
    BY <1>2, <2>1 DEF SwapProgress, Resolution, TypeOK
  <2>6. Task!Resolve(k)
    BY <1>1, <2>3, <2>4, <2>5 DEF Task!Resolve
  <2> QED
    BY <2>6 DEF Task!Next
<1>3. CASE AcquireFails(k)
  <2>1. outcome[k] = "none"
    BY <1>3 DEF AcquireFails, WorkerInv
  <2>2. Resolution' = Resolution
    BY <1>3, <2>1 DEF AcquireFails, Resolution, TypeOK
  <2> QED
    BY <1>1, <2>2, Stutter
<1>4. CASE ~SwapProgress(k) /\ ~AcquireFails(k)
  <2>1. \A j \in Keywords : /\ work'[j] # "done" <=> work[j] # "done"
                            /\ work[j] = "done" => outcome'[j] = outcome[j]
    BY <1>4 DEF WorkerStep, OwnStep, Acquire, QueryReturns, AppendResults, LoadProgress,
                SwapFails, TypeOK
  <2>2. Resolution' = Resolution
    BY <2>1 DEF Resolution
  <2> QED
    BY <1>1, <2>2, Stutter
<1> QED
  BY <1>2, <1>3, <1>4

\* The update of the row ends the task as BatchTask allows, or fails unseen.
LEMMA UpdateRefines ==
  ASSUME IInv, UpdateRow
  PROVE  Task!Next \/ UNCHANGED Task!taskVars
<1> USE DEF IInv, FlowInv
<1>1. Resolution' = Resolution /\ cancelled' = cancelled
  BY DEF UpdateRow, taskVars, Resolution
<1>2. CASE row' = row
  BY <1>1, <1>2, Stutter
<1>3. CASE row' = [row EXCEPT !.status = verdict, !.completed = progress.completed,
                              !.success = progress.success, !.file = named]
  <2>1. main = "update"
    BY DEF UpdateRow
  <2>2. row.status = "running" /\ verdict \in {"completed", "cancelled"}
    BY <2>1 DEF RowInv, VerdictInv, TypeOK
  <2>3. /\ row'.status = verdict
        /\ row'.completed = Cardinality(Counted) /\ row'.success = Cardinality(Succeeded)
    BY <1>3 DEF TypeOK, Row, CountInv, ProgressExact
  <2>4. Task!End(verdict)
    BY <1>1, <2>2, <2>3, ResolvedIsCounted, SameCardinality DEF Task!End
  <2>5. CASE verdict = "completed"
    <3>1. Counted = Keywords
      BY <2>5 DEF VerdictInv, Counted
    <3> QED
      BY <2>4, <2>5, <3>1, ResolvedIsCounted DEF Task!Next, Task!Complete
  <2>6. CASE verdict = "cancelled"
    BY <2>4, <2>6 DEF VerdictInv, Task!Next, Task!GiveUp
  <2> QED
    BY <2>2, <2>5, <2>6
<1> QED
  BY <1>2, <1>3 DEF UpdateRow

\* Every step of a run is a step of BatchTask or a stuttering step of it.
LEMMA RefinesStep == IInv /\ [Next]_vars => [Task!Next]_Task!taskVars
<1> SUFFICES ASSUME IInv, [Next]_vars PROVE Task!Next \/ UNCHANGED Task!taskVars
  OBVIOUS
<1>1. CASE Submit
  <2>1. work[next] = "new" /\ next \in Keywords
    BY <1>1, NAssumption DEF Submit, IInv, FlowInv, LoopInv, TypeOK, Keywords
  <2>2. Resolution' = Resolution
    BY <1>1, <2>1 DEF Submit, Resolution, IInv, TypeOK
  <2> QED
    BY <1>1, <2>2, Stutter DEF Submit, endVars
<1>2. CASE UpdateRow
  BY <1>2, UpdateRefines
<1>3. CASE FinishRow
  BY <1>3, Stutter DEF FinishRow, Resolution, taskVars, IInv, TypeOK, Row
<1>4. CASE \E k \in Keywords : WorkerStep(k)
  BY <1>4, WorkerRefines
<1>5. CASE Cancel
  <2>1. Task!RequestCancel
    BY <1>5 DEF Cancel, endVars, Resolution, Task!RequestCancel
  <2> QED
    BY <2>1 DEF Task!Next
<1>6. CASE UNCHANGED <<cancelled, work, outcome, row>>
  BY <1>6, Stutter DEF Resolution
<1> QED
  BY <1>1, <1>2, <1>3, <1>4, <1>5, <1>6
     DEF Next, RunStep, CliStep, LeaveLoop, Wait, Decide, SaveNothing, OpenFile,
         WriteFile, Unregister, PollGone, ReadRow, Exited, vars, taskVars, endVars

\* The goroutines of runTask implement what BatchTask promises.
THEOREM Refinement == Spec => ImplementsBatchTask
BY RefinesInit, RefinesStep, Invariance, PTL DEF Spec, ImplementsBatchTask, Task!Spec

============================================================================
