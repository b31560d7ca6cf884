------------------------- MODULE TaskManagerProofs -------------------------
(***************************************************************************)
(* Proofs about TaskManager: its type invariant and the invariants that    *)
(* relate the running maps, the runs and the rows of the table, for every  *)
(* number of processes, callers, names and runs.                           *)
(*                                                                         *)
(* MapInv and RowInv hold whatever is called. OwnInv, and the properties   *)
(* that rest on it, need that nobody calls DeleteBatchTask, which lets a   *)
(* name be used again while its first task still runs; that every live run *)
(* can be reached through the map also needs that nobody calls Remove.     *)
(***************************************************************************)
EXTENDS TaskManager, TLAPS

\* The stages of a run that has been started and whose process is alive.
Started == {"work", "save", "update", "finish", "unregister", "done"}

Registering(c, i) == caller[c].doing = "register" /\ caller[c].run = i

----------------------------------------------------------------------------
\* The inductive invariant, part by part

\* A caller inside Create or DeleteBatchTask works for a name. The run it is to
\* start is one it has inserted itself, and it has not been started.
CallerInv ==
  /\ \A c \in Callers : caller[c].doing # "nothing" => caller[c].name \in Names
  /\ \A c \in Callers : caller[c].doing = "register" =>
       caller[c].run \in 1..inserted /\ runs[caller[c].run].at = "none"
  /\ \A c, d \in Callers :
       caller[c].doing = "register" /\ caller[d].doing = "register"
         /\ caller[c].run = caller[d].run => c = d

\* Runs are numbered in the order of their rows, a live run belongs to a process
\* and has a name, and a run that closes its row has decided how.
RunInv ==
  \A i \in RunIds :
    /\ i > inserted => runs[i].at = "none"
    /\ Live(i) => runs[i].proc \in Procs /\ runs[i].name \in Names
    /\ runs[i].at \in {"save", "update"} => runs[i].verdict \in {"completed", "cancelled"}

MapInv == TypeOK /\ CallerInv /\ RunInv /\ EntriesAreLive

NobodyDeletes == \A c \in Callers : caller[c].doing \notin {"unlink", "delete"}

\* The row of a name is the one that the caller about to start a run of that
\* name, or the run it has started, inserted.
RunsHaveRows ==
  /\ \A c \in Callers : caller[c].doing = "register" =>
       rows[caller[c].name].run = caller[c].run
  /\ \A i \in RunIds : runs[i].at \in Started =>
       runs[i].name \in Names /\ rows[runs[i].name].run = i

\* The run that a row names is about to be started, was started under the name
\* of the row, or died with its process.
RowsHaveRuns ==
  \A n \in Names : rows[n] # NoRow =>
    LET i == rows[n].run IN
    /\ i \in 1..inserted /\ rows[n].status # "none"
    /\ \/ \E c \in Callers : Registering(c, i) /\ caller[c].name = n
       \/ runs[i].at \in Started /\ runs[i].name = n
       \/ runs[i].at = "dead"

\* Run i ran under the name of row n, is past the UPDATE that closes it, and
\* decided on the end state and the file name that the row shows.
DecidedBy(n, i) ==
  /\ runs[i].at \in {"finish", "unregister", "done", "dead"}
  /\ runs[i].name = n
  /\ rows[n].status = runs[i].verdict /\ rows[n].file = runs[i].named

\* What a closed row shows, the end state and the file name together, was
\* decided by one task of its name.
RowsAreDecided ==
  \A n \in Names : rows[n].status \in {"completed", "cancelled"} =>
    \E i \in RunIds : DecidedBy(n, i)

RowInv == RowsHaveRuns /\ RowsAreDecided /\ RowsEndWithTheirTask

\* A closed row shows what the run that inserted it decided.
ClosedRows ==
  \A n \in Names :
    rows[n].status \in {"completed", "cancelled"} => DecidedBy(n, rows[n].run)

OwnInv == NobodyDeletes /\ RunsHaveRows /\ ClosedRows

----------------------------------------------------------------------------
\* The initial states

\* With no row, no entry and no caller inside a call, the invariants hold.
LEMMA InitInvariant == Init => MapInv /\ RowInv /\ OwnInv
<1> SUFFICES ASSUME Init PROVE MapInv /\ RowInv /\ OwnInv
  OBVIOUS
<1>1. MaxRuns \in Nat \ {0} /\ 0 \in 0..MaxRuns
  BY MaxRunsAssumption
<1>2. TypeOK
  BY <1>1 DEF Init, TypeOK, Idle, NoRun, NoRow, None, Call, Run, Row
<1>3. CallerInv /\ RunInv /\ EntriesAreLive
  BY DEF Init, CallerInv, RunInv, EntriesAreLive, Live, Idle, NoRun
<1>4. RowInv
  BY DEF Init, RowInv, RowsHaveRuns, RowsAreDecided, RowsEndWithTheirTask, Idle, NoRun, NoRow
<1>5. OwnInv
  BY DEF Init, OwnInv, NobodyDeletes, RunsHaveRows, ClosedRows, Started, Idle, NoRun, NoRow
<1> QED
  BY <1>2, <1>3, <1>4, <1>5 DEF MapInv

----------------------------------------------------------------------------
\* What holds whatever is called

\* Every step keeps the types. UpdateRow needs RunInv: the status it writes is
\* the decision of a run that has made one.
LEMMA TypeStep == MapInv /\ [Next]_vars => TypeOK'
<1> SUFFICES ASSUME MapInv, [Next]_vars PROVE TypeOK'
  OBVIOUS
<1>1. MaxRuns \in Nat \ {0} /\ 0 \in 0..MaxRuns /\ RunIds = 1..MaxRuns
  BY MaxRunsAssumption DEF RunIds
<1>2. Idle \in Call /\ NoRow \in Row
  BY <1>1 DEF Idle, Call, NoRow, Row, None
<1> USE DEF MapInv, TypeOK
<1>3. ASSUME NEW c \in Callers, NEW n \in Names, CheckName(c, n) PROVE TypeOK'
  <2>1. [Idle EXCEPT !.doing = "insert", !.name = n] \in Call
    BY <1>2 DEF Call
  <2> QED
    BY <1>3, <2>1 DEF CheckName
<1>4. ASSUME NEW c \in Callers, NEW n \in Names, DeleteReads(c, n) PROVE TypeOK'
  <2>1. rows[n].file \in BOOLEAN
    BY DEF Row
  <2>2. [Idle EXCEPT !.doing = "unlink", !.name = n, !.unlink = rows[n].file] \in Call
    BY <1>2, <2>1 DEF Call
  <2> QED
    BY <1>4, <2>2 DEF DeleteReads
<1>5. ASSUME NEW c \in Callers, InsertRow(c) PROVE TypeOK'
  <2>1. inserted' \in 0..MaxRuns
    BY <1>1, <1>5 DEF InsertRow
  <2>2. [NoRow EXCEPT !.run = inserted', !.status = "running"] \in Row
    BY <1>2, <2>1 DEF Row
  <2>3. [caller[c] EXCEPT !.doing = "register", !.run = inserted'] \in Call
    BY <2>1 DEF Call
  <2>4. caller' = [caller EXCEPT ![c] = [caller[c] EXCEPT !.doing = "register",
                                                          !.run = inserted']]
    BY <1>5 DEF InsertRow
  <2> QED
    BY <1>5, <2>1, <2>2, <2>3, <2>4 DEF InsertRow
<1>6. ASSUME NEW c \in Callers, InsertFails(c) PROVE TypeOK'
  BY <1>2, <1>6 DEF InsertFails
<1>7. ASSUME NEW c \in Callers, Register(c) PROVE TypeOK'
  <2>1. Home[c] \in Procs /\ caller[c].run \in 0..MaxRuns /\ caller[c].name \in Names \cup {""}
    BY HomeAssumption DEF Call
  <2>2. [NoRun EXCEPT !.at = "work", !.proc = Home[c], !.name = caller[c].name] \in Run
    BY <2>1 DEF NoRun, Run
  <2>3. running' \in [Procs -> [Names -> 0..MaxRuns]]
    BY <1>7, <2>1 DEF Register
  <2> QED
    BY <1>2, <1>7, <2>2, <2>3 DEF Register
<1>8. ASSUME NEW c \in Callers, DeleteUnlinks(c) PROVE TypeOK'
  <2>1. [caller[c] EXCEPT !.doing = "delete"] \in Call
    BY DEF Call
  <2>2. caller' \in [Callers -> Call]
    BY <1>2, <1>8, <2>1 DEF DeleteUnlinks
  <2>3. files' \in [Names -> 0..MaxRuns]
    BY <1>1, <1>8 DEF DeleteUnlinks, None
  <2> QED
    BY <1>8, <2>2, <2>3 DEF DeleteUnlinks
<1>9. ASSUME NEW c \in Callers, DeleteRow(c) PROVE TypeOK'
  BY <1>2, <1>9 DEF DeleteRow
<1>10. ASSUME NEW i \in RunIds, Decide(i) PROVE TypeOK'
  <2>1. [runs[i] EXCEPT !.at = "save",
           !.verdict = IF runs[i].cancelled THEN "cancelled" ELSE "completed"] \in Run
    BY DEF Run
  <2> QED
    BY <1>10, <2>1 DEF Decide
<1>11. ASSUME NEW i \in RunIds, SaveFile(i) PROVE TypeOK'
  <2>1. \A whole \in BOOLEAN : [runs[i] EXCEPT !.at = "update", !.named = whole] \in Run
    BY DEF Run
  <2>2. runs' \in [RunIds -> Run]
    BY <1>11, <2>1 DEF SaveFile
  <2>3. files' \in [Names -> 0..MaxRuns]
    <3>1. files' = files \/ files' = [files EXCEPT ![runs[i].name] = i]
      BY <1>11 DEF SaveFile
    <3>2. i \in 0..MaxRuns
      BY <1>1
    <3> QED
      BY <3>1, <3>2
  <2> QED
    BY <1>11, <2>2, <2>3 DEF SaveFile
<1>12. ASSUME NEW i \in RunIds, UpdateRow(i) PROVE TypeOK'
  <2>1. runs[i].verdict \in {"completed", "cancelled"} /\ runs[i].named \in BOOLEAN
    BY <1>12 DEF UpdateRow, RunInv, Run
  <2>2. \A row \in Row :
          [row EXCEPT !.status = runs[i].verdict, !.file = runs[i].named] \in Row
    BY <2>1 DEF Row
  <2>3. rows' \in [Names -> Row]
    <3> DEFINE n == runs[i].name
               closed == IF rows[n] = NoRow THEN rows[n] ELSE
                           [rows[n] EXCEPT !.status = runs[i].verdict, !.file = runs[i].named]
    <3>1. rows' = rows \/ rows' = [rows EXCEPT ![n] = closed]
      BY <1>12 DEF UpdateRow
    <3>2. n \in Names => closed \in Row
      BY <2>2
    <3> HIDE DEF closed
    <3> QED
      BY <3>1, <3>2
  <2>4. /\ [runs[i] EXCEPT !.at = "finish"] \in Run
        /\ [runs[i] EXCEPT !.at = "finish", !.verdict = "lost"] \in Run
    BY DEF Run
  <2>5. runs' \in [RunIds -> Run]
    BY <1>12, <2>4 DEF UpdateRow
  <2> QED
    BY <1>12, <2>3, <2>5 DEF UpdateRow
<1>13. ASSUME NEW i \in RunIds, FinishRow(i) PROVE TypeOK'
  <2>1. \A row \in Row : [row EXCEPT !.finished = TRUE] \in Row
    BY DEF Row
  <2>2. rows' \in [Names -> Row]
    BY <1>13, <2>1 DEF FinishRow
  <2>3. [runs[i] EXCEPT !.at = "unregister"] \in Run
    BY DEF Run
  <2> QED
    BY <1>13, <2>2, <2>3 DEF FinishRow
<1>14. ASSUME NEW i \in RunIds, Unregister(i) PROVE TypeOK'
  <2>1. [runs[i] EXCEPT !.at = "done"] \in Run
    BY DEF Run
  <2>2. running' \in [Procs -> [Names -> 0..MaxRuns]]
    BY <1>1, <1>14 DEF Unregister, None
  <2> QED
    BY <1>14, <2>1, <2>2 DEF Unregister
<1>15. ASSUME NEW p \in Procs, NEW n \in Names, Cancel(p, n) PROVE TypeOK'
  <2>1. \A run \in Run : [run EXCEPT !.cancelled = TRUE] \in Run
    BY DEF Run
  <2> QED
    BY <1>15, <2>1 DEF Cancel
<1>16. ASSUME NEW p \in Procs, NEW n \in Names, Remove(p, n) PROVE TypeOK'
  BY <1>1, <1>16 DEF Remove, None
<1>17. ASSUME NEW p \in Procs, Crash(p) PROVE TypeOK'
  <2>1. \A run \in Run : [run EXCEPT !.at = "dead"] \in Run
    BY DEF Run
  <2>2. runs' \in [RunIds -> Run]
    BY <1>17, <2>1 DEF Crash
  <2>3. caller' \in [Callers -> Call]
    BY <1>2, <1>17 DEF Crash
  <2>4. running' \in [Procs -> [Names -> 0..MaxRuns]]
    BY <1>1, <1>17 DEF Crash, None
  <2> QED
    BY <1>17, <2>2, <2>3, <2>4 DEF Crash
<1>18. CASE UNCHANGED vars
  BY <1>18 DEF vars
<1> QED
  BY <1>3, <1>4, <1>5, <1>6, <1>7, <1>8, <1>9, <1>10, <1>11, <1>12, <1>13, <1>14,
     <1>15, <1>16, <1>17, <1>18 DEF Next, CallerStep, RunStep, CloseStep

\* A caller between calls does nothing, and a run that has not been inserted has
\* not been started.
LEMMA IdleFields ==
  Idle.doing = "nothing" /\ NoRun.at = "none" /\ NoRow.run = None /\ NoRow.status = "none"
BY DEF Idle, NoRun, NoRow

\* What Decide, SaveFile, UpdateRow, FinishRow, Unregister, Cancel and a crash
\* change of a run: not whose it is, and a run that has ended does not live again.
LEMMA RunFields ==
  ASSUME NEW r \in Run, NEW v \in {"none", "completed", "cancelled", "lost"},
         NEW whole \in BOOLEAN, NEW a
  PROVE  /\ LET d == [r EXCEPT !.at = a, !.verdict = v] IN
            d.at = a /\ d.verdict = v /\ d.name = r.name /\ d.proc = r.proc /\ d.named = r.named
         /\ LET d == [r EXCEPT !.at = a, !.named = whole] IN
            d.at = a /\ d.verdict = r.verdict /\ d.name = r.name /\ d.proc = r.proc
              /\ d.named = whole
         /\ LET d == [r EXCEPT !.at = a] IN
            d.at = a /\ d.verdict = r.verdict /\ d.name = r.name /\ d.proc = r.proc
              /\ d.named = r.named
         /\ LET d == [r EXCEPT !.cancelled = TRUE] IN
            d.at = r.at /\ d.verdict = r.verdict /\ d.name = r.name /\ d.proc = r.proc
              /\ d.named = r.named
BY DEF Run

\* A step of runTask moves its own run one stage on, and no other; only Decide
\* and a failed UPDATE touch the verdict, only SaveFile the file name.
LEMMA RunStepEffect ==
  ASSUME TypeOK, NEW i \in RunIds, RunStep(i)
  PROVE  /\ caller' = caller /\ inserted' = inserted
         /\ \A j \in RunIds \ {i} : runs'[j] = runs[j]
         /\ runs'[i].name = runs[i].name /\ runs'[i].proc = runs[i].proc
         /\ \/ /\ runs[i].at = "work" /\ runs'[i].at = "save"
               /\ runs'[i].verdict \in {"completed", "cancelled"}
               /\ rows' = rows /\ running' = running
            \/ /\ runs[i].at = "save" /\ runs'[i].at = "update"
               /\ runs'[i].verdict = runs[i].verdict
               /\ rows' = rows /\ running' = running
            \/ /\ UpdateRow(i) /\ runs[i].at = "update" /\ runs'[i].at = "finish"
               /\ runs'[i].verdict = runs[i].verdict /\ runs'[i].named = runs[i].named
            \/ /\ UpdateRow(i) /\ runs[i].at = "update" /\ runs'[i].at = "finish"
               /\ runs'[i].verdict = "lost" /\ rows' = rows
            \/ /\ FinishRow(i) /\ runs[i].at = "finish" /\ runs'[i].at = "unregister"
               /\ runs'[i].verdict = runs[i].verdict /\ runs'[i].named = runs[i].named
            \/ /\ Unregister(i) /\ runs[i].at = "unregister" /\ runs'[i].at = "done"
               /\ runs'[i].verdict = runs[i].verdict /\ runs'[i].named = runs[i].named
<1>1. runs \in [RunIds -> Run] /\ runs[i] \in Run
  BY DEF TypeOK
<1>2. CASE Decide(i)
  <2> DEFINE verdict == IF runs[i].cancelled THEN "cancelled" ELSE "completed"
             run == [runs[i] EXCEPT !.at = "save", !.verdict = verdict]
  <2>1. runs' = [runs EXCEPT ![i] = run]
    BY <1>2 DEF Decide
  <2>2. verdict \in {"completed", "cancelled"}
    OBVIOUS
  <2>3. /\ run.at = "save" /\ run.verdict = verdict
        /\ run.name = runs[i].name /\ run.proc = runs[i].proc
    BY <1>1, <2>2, RunFields
  <2> HIDE DEF run, verdict
  <2> QED
    BY <1>1, <1>2, <2>1, <2>2, <2>3 DEF Decide
<1>3. CASE SaveFile(i)
  <2>1. PICK whole \in BOOLEAN :
          runs' = [runs EXCEPT ![i] = [runs[i] EXCEPT !.at = "update", !.named = whole]]
    BY <1>3 DEF SaveFile
  <2> DEFINE run == [runs[i] EXCEPT !.at = "update", !.named = whole]
  <2>2. /\ run.at = "update" /\ run.verdict = runs[i].verdict
        /\ run.name = runs[i].name /\ run.proc = runs[i].proc
    BY <1>1, RunFields
  <2>3. runs' = [runs EXCEPT ![i] = run]
    BY <2>1
  <2> HIDE DEF run
  <2> QED
    BY <1>1, <1>3, <2>2, <2>3 DEF SaveFile
<1>4. CASE UpdateRow(i)
  <2> DEFINE run == [runs[i] EXCEPT !.at = "finish"]
             lost == [runs[i] EXCEPT !.at = "finish", !.verdict = "lost"]
  <2>1. \/ runs' = [runs EXCEPT ![i] = run]
        \/ runs' = [runs EXCEPT ![i] = lost] /\ rows' = rows
    BY <1>4 DEF UpdateRow
  <2>2. /\ run.at = "finish" /\ run.name = runs[i].name /\ run.proc = runs[i].proc
        /\ run.verdict = runs[i].verdict /\ run.named = runs[i].named
        /\ lost.at = "finish" /\ lost.name = runs[i].name /\ lost.proc = runs[i].proc
        /\ lost.verdict = "lost"
    BY <1>1, RunFields
  <2>3. caller' = caller /\ inserted' = inserted
    BY <1>4 DEF UpdateRow
  <2>4. runs[i].at = "update"
    BY <1>4 DEF UpdateRow
  <2> HIDE DEF run, lost
  <2> QED
    BY <1>1, <1>4, <2>1, <2>2, <2>3, <2>4
<1>5. CASE FinishRow(i)
  <2> DEFINE run == [runs[i] EXCEPT !.at = "unregister"]
  <2>1. runs' = [runs EXCEPT ![i] = run] /\ caller' = caller /\ inserted' = inserted
    BY <1>5 DEF FinishRow
  <2>3. runs[i].at = "finish"
    BY <1>5 DEF FinishRow
  <2>2. /\ run.at = "unregister" /\ run.name = runs[i].name /\ run.proc = runs[i].proc
        /\ run.verdict = runs[i].verdict /\ run.named = runs[i].named
    BY <1>1, RunFields
  <2> HIDE DEF run
  <2> QED
    BY <1>1, <1>5, <2>1, <2>2, <2>3
<1>6. CASE Unregister(i)
  <2> DEFINE run == [runs[i] EXCEPT !.at = "done"]
  <2>1. runs' = [runs EXCEPT ![i] = run] /\ caller' = caller /\ inserted' = inserted
    BY <1>6 DEF Unregister
  <2>3. runs[i].at = "unregister"
    BY <1>6 DEF Unregister
  <2>2. /\ run.at = "done" /\ run.name = runs[i].name /\ run.proc = runs[i].proc
        /\ run.verdict = runs[i].verdict /\ run.named = runs[i].named
    BY <1>1, RunFields
  <2> HIDE DEF run
  <2> QED
    BY <1>1, <1>6, <2>1, <2>2, <2>3
<1> QED
  BY <1>2, <1>3, <1>4, <1>5, <1>6 DEF RunStep, CloseStep

\* Register starts the run of its caller under the caller's name.
LEMMA RegisterEffect ==
  ASSUME TypeOK, NEW c \in Callers, Register(c), caller[c].run \in RunIds
  PROVE  LET i == caller[c].run IN
         /\ \A d \in Callers \ {c} : caller'[d] = caller[d]
         /\ caller'[c].doing = "nothing"
         /\ \A j \in RunIds \ {i} : runs'[j] = runs[j]
         /\ runs'[i].at = "work" /\ runs'[i].proc = Home[c]
         /\ runs'[i].name = caller[c].name /\ runs'[i].verdict = "none"
<1> DEFINE run == [NoRun EXCEPT !.at = "work", !.proc = Home[c], !.name = caller[c].name]
<1>1. caller \in [Callers -> Call] /\ runs \in [RunIds -> Run]
  BY DEF TypeOK
<1>2. runs' = [runs EXCEPT ![caller[c].run] = run] /\ caller' = [caller EXCEPT ![c] = Idle]
  BY DEF Register
<1>3. /\ run.at = "work" /\ run.proc = Home[c] /\ run.name = caller[c].name
      /\ run.verdict = "none"
  BY DEF NoRun
<1> HIDE DEF run
<1> QED
  BY <1>1, <1>2, <1>3, IdleFields

\* Cancel changes nothing of a run that the other steps look at.
LEMMA CancelEffect ==
  ASSUME TypeOK, NEW p \in Procs, NEW n \in Names, Cancel(p, n), NEW i \in RunIds
  PROVE  /\ runs'[i].at = runs[i].at /\ runs'[i].verdict = runs[i].verdict
         /\ runs'[i].name = runs[i].name /\ runs'[i].proc = runs[i].proc
         /\ runs'[i].named = runs[i].named
<1> DEFINE run == [runs[i] EXCEPT !.cancelled = TRUE]
<1>1. runs \in [RunIds -> Run] /\ runs[i] \in Run
  BY DEF TypeOK
<1>2. runs'[i] = runs[i] \/ runs'[i] = run
  BY <1>1 DEF Cancel
<1>3. /\ run.at = runs[i].at /\ run.verdict = runs[i].verdict
      /\ run.name = runs[i].name /\ run.proc = runs[i].proc
      /\ run.named = runs[i].named
  BY <1>1, RunFields
<1> HIDE DEF run
<1> QED
  BY <1>2, <1>3

\* A crash ends the calls of its process, and the runs it had live or was about
\* to start; all that is left of those is what they had decided.
LEMMA CrashEffect ==
  ASSUME TypeOK, NEW p \in Procs, Crash(p)
  PROVE  /\ \A c \in Callers : IF Home[c] = p THEN caller'[c].doing = "nothing"
                                             ELSE caller'[c] = caller[c]
         /\ \A i \in RunIds :
              /\ runs'[i].verdict = runs[i].verdict /\ runs'[i].named = runs[i].named
              /\ runs'[i].name = runs[i].name /\ runs'[i].proc = runs[i].proc
              /\ IF \/ Live(i) /\ runs[i].proc = p
                    \/ \E c \in Callers : Home[c] = p /\ Registering(c, i)
                 THEN runs'[i].at = "dead" ELSE runs'[i].at = runs[i].at
<1>1. runs \in [RunIds -> Run]
  BY DEF TypeOK
<1>2. \A c \in Callers : caller'[c] = IF Home[c] = p THEN Idle ELSE caller[c]
  BY DEF Crash
<1>3. ASSUME NEW i \in RunIds
      PROVE  /\ runs'[i].verdict = runs[i].verdict /\ runs'[i].named = runs[i].named
             /\ runs'[i].name = runs[i].name /\ runs'[i].proc = runs[i].proc
             /\ IF \/ Live(i) /\ runs[i].proc = p
                   \/ \E c \in Callers : Home[c] = p /\ Registering(c, i)
                THEN runs'[i].at = "dead" ELSE runs'[i].at = runs[i].at
  <2> DEFINE run == [runs[i] EXCEPT !.at = "dead"]
             dies == \/ Live(i) /\ runs[i].proc = p
                     \/ \E c \in Callers : Home[c] = p /\ Registering(c, i)
  <2>1. runs'[i] = IF dies THEN run ELSE runs[i]
    BY DEF Crash, Registering
  <2>2. /\ run.at = "dead" /\ run.verdict = runs[i].verdict
        /\ run.name = runs[i].name /\ run.proc = runs[i].proc
        /\ run.named = runs[i].named
    BY <1>1, RunFields
  <2> HIDE DEF run, dies
  <2>3. /\ runs'[i].verdict = runs[i].verdict /\ runs'[i].named = runs[i].named
        /\ runs'[i].name = runs[i].name /\ runs'[i].proc = runs[i].proc
        /\ IF dies THEN runs'[i].at = "dead" ELSE runs'[i].at = runs[i].at
    BY <2>1, <2>2
  <2> QED
    BY <2>3 DEF dies
<1> QED
  BY <1>2, <1>3, IdleFields

\* Every step keeps the callers and the runs in order: a new row gets a number
\* no run has, and only the caller that inserted it starts it.
LEMMA CallerAndRunStep == MapInv /\ [Next]_vars => CallerInv' /\ RunInv'
<1> SUFFICES ASSUME MapInv, [Next]_vars PROVE CallerInv' /\ RunInv'
  OBVIOUS
<1>1. MaxRuns \in Nat \ {0} /\ RunIds = 1..MaxRuns
  BY MaxRunsAssumption DEF RunIds
<1>2. /\ inserted \in 0..MaxRuns /\ caller \in [Callers -> Call] /\ TypeOK
      /\ CallerInv /\ RunInv
  BY DEF MapInv, TypeOK
<1>3. \A c \in Callers : Home[c] \in Procs
  BY HomeAssumption
<1> USE DEF CallerInv, RunInv, Live
<1>4. ASSUME NEW c \in Callers, \A d \in Callers \ {c} : caller'[d] = caller[d],
             caller'[c].doing \notin {"register"},
             caller'[c].doing # "nothing" => caller'[c].name \in Names,
             runs' = runs, inserted' = inserted
      PROVE  CallerInv' /\ RunInv'
  BY <1>1, <1>2, <1>4
<1>5. ASSUME NEW c \in Callers, NEW n \in Names, CheckName(c, n) \/ DeleteReads(c, n)
      PROVE  CallerInv' /\ RunInv'
  <2>1. /\ \A d \in Callers \ {c} : caller'[d] = caller[d]
        /\ caller'[c].doing \notin {"register"} /\ caller'[c].name \in Names
        /\ runs' = runs /\ inserted' = inserted
    BY <1>2, <1>5 DEF CheckName, DeleteReads, Idle
  <2> QED
    BY <1>4, <2>1
<1>6. ASSUME NEW c \in Callers, InsertRow(c) PROVE CallerInv' /\ RunInv'
  <2>1. inserted' = inserted + 1 /\ inserted' \in RunIds
    BY <1>1, <1>2, <1>6 DEF InsertRow
  <2>2. runs' = runs /\ runs[inserted'].at = "none"
    BY <1>1, <1>2, <1>6, <2>1 DEF InsertRow
  <2>3. /\ caller'[c].doing = "register" /\ caller'[c].run = inserted'
        /\ caller'[c].name = caller[c].name /\ caller[c].name \in Names
    BY <1>2, <1>6 DEF InsertRow, Call
  <2>4. \A d \in Callers \ {c} : caller'[d] = caller[d]
    BY <1>2, <1>6 DEF InsertRow
  <2>5. \A d \in Callers : caller[d].doing = "register" => caller[d].run # inserted'
    BY <1>1, <1>2, <2>1
  <2>6. CallerInv'
    BY <1>1, <1>2, <2>1, <2>2, <2>3, <2>4, <2>5
  <2> QED
    BY <1>1, <1>2, <2>1, <2>2, <2>6
<1>7. ASSUME NEW c \in Callers, InsertFails(c) \/ DeleteUnlinks(c) \/ DeleteRow(c)
      PROVE  CallerInv' /\ RunInv'
  <2>1. /\ \A d \in Callers \ {c} : caller'[d] = caller[d]
        /\ runs' = runs /\ inserted' = inserted
    BY <1>2, <1>7 DEF InsertFails, DeleteUnlinks, DeleteRow
  <2>2. \/ caller'[c] = Idle
        \/ caller'[c] = [caller[c] EXCEPT !.doing = "delete"] /\ caller[c].doing = "unlink"
    BY <1>2, <1>7 DEF InsertFails, DeleteUnlinks, DeleteRow
  <2>3. CASE caller'[c] = Idle
    BY <1>4, <2>1, <2>3, IdleFields
  <2>4. CASE caller'[c] = [caller[c] EXCEPT !.doing = "delete"] /\ caller[c].doing = "unlink"
    <3>1. caller'[c].doing = "delete" /\ caller'[c].name = caller[c].name
      BY <1>2, <2>4 DEF Call
    <3>2. caller[c].name \in Names
      BY <1>2, <2>4
    <3> QED
      BY <1>4, <2>1, <3>1, <3>2
  <2> QED
    BY <2>2, <2>3, <2>4
<1>8. ASSUME NEW c \in Callers, Register(c) PROVE CallerInv' /\ RunInv'
  <2>1. caller[c].run \in RunIds /\ caller[c].name \in Names /\ Home[c] \in Procs
    BY <1>1, <1>2, <1>3, <1>8 DEF Register
  <2>2. \A d \in Callers \ {c} : caller[d].doing = "register" => caller[d].run # caller[c].run
    BY <1>2, <1>8 DEF Register
  <2>3. inserted' = inserted /\ caller[c].doing = "register"
    BY <1>8 DEF Register
  <2> HIDE DEF Live
  <2>4. CallerInv'
    BY <1>1, <1>2, <1>8, <2>1, <2>2, <2>3, RegisterEffect
  <2> USE DEF Live
  <2>5. RunInv'
    BY <1>1, <1>2, <1>8, <2>1, <2>3, RegisterEffect
  <2> QED
    BY <2>4, <2>5
<1>9. ASSUME NEW i \in RunIds, RunStep(i) PROVE CallerInv' /\ RunInv'
  <2>1. runs[i].at # "none"
    BY <1>2, <1>9, RunStepEffect
  <2>2. \A d \in Callers : caller[d].doing = "register" => caller[d].run # i
    BY <1>2, <2>1
  <2>3. CallerInv'
    BY <1>1, <1>2, <1>9, <2>2, RunStepEffect
  <2>4. RunInv'
    BY <1>1, <1>2, <1>9, RunStepEffect
  <2> QED
    BY <2>3, <2>4
<1>10. ASSUME NEW p \in Procs, NEW n \in Names, Cancel(p, n) PROVE CallerInv' /\ RunInv'
  <2>1. caller' = caller /\ inserted' = inserted
    BY <1>10 DEF Cancel
  <2> QED
    BY <1>1, <1>2, <1>10, <2>1, CancelEffect
<1>11. ASSUME NEW p \in Procs, NEW n \in Names, Remove(p, n) PROVE CallerInv' /\ RunInv'
  BY <1>2, <1>11 DEF Remove
<1>12. ASSUME NEW p \in Procs, Crash(p) PROVE CallerInv' /\ RunInv'
  <2>1. inserted' = inserted
    BY <1>12 DEF Crash
  <2>2. \A c \in Callers : caller'[c].doing # "nothing" => caller'[c] = caller[c] /\ Home[c] # p
    BY <1>2, <1>12, CrashEffect
  <2>3. CallerInv'
    <3>1. ASSUME NEW c \in Callers, caller'[c].doing = "register"
          PROVE  runs'[caller'[c].run].at = "none"
      <4>1. caller'[c] = caller[c] /\ Home[c] # p
        BY <2>2, <3>1
      <4>2. caller[c].run \in RunIds /\ runs[caller[c].run].at = "none"
        BY <1>1, <1>2, <3>1, <4>1
      <4>3. \A d \in Callers : Home[d] = p => ~Registering(d, caller[c].run)
        BY <1>2, <3>1, <4>1 DEF Registering
      <4> QED
        BY <1>2, <1>12, <4>1, <4>2, <4>3, CrashEffect
    <3> QED
      BY <1>1, <1>2, <2>1, <2>2, <3>1
  <2>4. RunInv'
    <3>1. \A c \in Callers, i \in RunIds : Registering(c, i) => i <= inserted
      BY <1>1, <1>2 DEF Registering
    <3>2. \A i \in RunIds : Live(i) => i <= inserted
      BY <1>1, <1>2
    <3> QED
      BY <1>1, <1>2, <1>12, <2>1, <3>1, <3>2, CrashEffect
  <2> QED
    BY <2>3, <2>4
<1>13. CASE UNCHANGED vars
  BY <1>2, <1>13 DEF vars
<1> QED
  BY <1>5, <1>6, <1>7, <1>8, <1>9, <1>10, <1>11, <1>12, <1>13 DEF Next, CallerStep

\* Every step keeps the entries of the maps on live runs: the one step that ends
\* a run takes its entry, and a crash takes the map together with its runs.
LEMMA EntryStep == MapInv /\ [Next]_vars => EntriesAreLive'
<1> SUFFICES ASSUME MapInv, [Next]_vars PROVE EntriesAreLive'
  OBVIOUS
<1>1. MaxRuns \in Nat \ {0} /\ RunIds = 1..MaxRuns
  BY MaxRunsAssumption DEF RunIds
<1>2. /\ running \in [Procs -> [Names -> 0..MaxRuns]] /\ TypeOK
      /\ CallerInv /\ RunInv /\ EntriesAreLive
  BY DEF MapInv, TypeOK
<1>3. \A p \in Procs, n \in Names : running[p][n] # None => running[p][n] \in RunIds
  BY <1>1, <1>2 DEF None
<1> USE DEF EntriesAreLive, Live
<1>4. CASE runs' = runs /\ running' = running
  BY <1>2, <1>4
<1>5. ASSUME NEW c \in Callers, CallerStep(c) PROVE EntriesAreLive'
  <2>1. CASE Register(c)
    <3> DEFINE i == caller[c].run
    <3>1. /\ i \in RunIds /\ runs[i].at = "none" /\ caller[c].name \in Names
          /\ Home[c] \in Procs
      <4>1. Home[c] \in Procs
        BY HomeAssumption
      <4>2. i \in 1..inserted /\ runs[i].at = "none" /\ caller[c].name \in Names
        BY <1>2, <2>1 DEF Register, CallerInv
      <4> QED
        BY <1>1, <1>2, <4>1, <4>2 DEF TypeOK
    <3>2. running' = [running EXCEPT ![Home[c]] =
                        [running[Home[c]] EXCEPT ![caller[c].name] = i]]
      BY <2>1 DEF Register
    <3>3. \A p \in Procs, n \in Names :
            running'[p][n] = IF p = Home[c] /\ n = caller[c].name THEN i ELSE running[p][n]
      BY <1>2, <3>2
    <3>4. ASSUME NEW p \in Procs, NEW n \in Names, running[p][n] = i PROVE FALSE
      <4>1. running[p][n] # None
        BY <1>1, <3>1, <3>4 DEF None
      <4>2. runs[running[p][n]].at \in {"work", "save", "update", "finish", "unregister"}
        BY <1>2, <4>1
      <4> QED
        BY <3>1, <3>4, <4>2
    <3> HIDE DEF i
    <3>5. \A j \in RunIds \ {i} : runs'[j] = runs[j]
      BY <1>2, <2>1, <3>1, RegisterEffect DEF i
    <3>6. runs'[i].at = "work" /\ runs'[i].proc = Home[c] /\ runs'[i].name = caller[c].name
      BY <1>2, <2>1, <3>1, RegisterEffect DEF i
    <3> QED
      BY <1>2, <1>3, <3>3, <3>4, <3>5, <3>6
  <2>2. CASE InsertRow(c) \/ InsertFails(c) \/ DeleteUnlinks(c) \/ DeleteRow(c)
    BY <1>4, <2>2 DEF InsertRow, InsertFails, DeleteUnlinks, DeleteRow
  <2> QED
    BY <1>5, <2>1, <2>2 DEF CallerStep
<1>6. ASSUME NEW i \in RunIds, RunStep(i) PROVE EntriesAreLive'
  <2>1. CASE Unregister(i)
    <3>1. runs[i].proc \in Procs /\ runs[i].name \in Names
      BY <1>2, <2>1 DEF Unregister, RunInv
    <3>2. running' = [running EXCEPT ![runs[i].proc] =
                        [running[runs[i].proc] EXCEPT ![runs[i].name] = None]]
      BY <2>1 DEF Unregister
    <3>3. \A p \in Procs, n \in Names :
            running'[p][n] = IF p = runs[i].proc /\ n = runs[i].name THEN None
                             ELSE running[p][n]
      BY <1>2, <3>1, <3>2
    <3>4. \A p \in Procs, n \in Names : running'[p][n] # None =>
            running'[p][n] = running[p][n] /\ running[p][n] # i
      BY <1>2, <1>3, <3>3
    <3> QED
      BY <1>2, <1>3, <1>6, <3>4, RunStepEffect
  <2>2. CASE ~Unregister(i)
    <3>1. running' = running
      BY <1>2, <1>6, <2>2 DEF RunStep, CloseStep, Decide, SaveFile, UpdateRow, FinishRow
    <3> QED
      BY <1>2, <1>3, <1>6, <2>2, <3>1, RunStepEffect
  <2> QED
    BY <2>1, <2>2
<1>7. ASSUME NEW p \in Procs, NEW n \in Names, Cancel(p, n) PROVE EntriesAreLive'
  <2>1. running' = running
    BY <1>7 DEF Cancel
  <2> QED
    BY <1>2, <1>3, <1>7, <2>1, CancelEffect
<1>8. ASSUME NEW p \in Procs, NEW n \in Names, Remove(p, n) PROVE EntriesAreLive'
  <2>1. runs' = runs /\ \A q \in Procs, m \in Names : running'[q][m] \in {running[q][m], None}
    BY <1>2, <1>8 DEF Remove
  <2> QED
    BY <1>2, <2>1
<1>9. ASSUME NEW p \in Procs, Crash(p) PROVE EntriesAreLive'
  <2>1. \A q \in Procs, m \in Names : running'[q][m] # None =>
          q # p /\ running'[q][m] = running[q][m]
    BY <1>2, <1>9 DEF Crash
  <2>2. ASSUME NEW q \in Procs, NEW m \in Names, running'[q][m] # None
        PROVE  LET i == running'[q][m] IN
               /\ runs'[i].at \in {"work", "save", "update", "finish", "unregister"}
               /\ runs'[i].proc = q /\ runs'[i].name = m
    <3> DEFINE i == running[q][m]
    <3>1. /\ q # p /\ running'[q][m] = i /\ i \in RunIds
          /\ Live(i) /\ runs[i].proc = q /\ runs[i].name = m
      BY <1>2, <1>3, <2>1, <2>2
    <3>2. \A c \in Callers : ~Registering(c, i)
      BY <1>2, <3>1 DEF CallerInv, Registering
    <3> HIDE DEF i
    <3>3. runs'[i].at = runs[i].at /\ runs'[i].proc = runs[i].proc /\ runs'[i].name = runs[i].name
      BY <1>2, <1>9, <3>1, <3>2, CrashEffect
    <3> QED
      BY <3>1, <3>3
  <2> QED
    BY <2>2
<1>10. CASE \E c \in Callers, n \in Names : CheckName(c, n) \/ DeleteReads(c, n)
  BY <1>4, <1>10 DEF CheckName, DeleteReads
<1>11. CASE UNCHANGED vars
  BY <1>4, <1>11 DEF vars
<1> QED
  BY <1>5, <1>6, <1>7, <1>8, <1>9, <1>10, <1>11 DEF Next

\* Every step keeps what holds whatever is called.
LEMMA MapStep == MapInv /\ [Next]_vars => MapInv'
BY TypeStep, CallerAndRunStep, EntryStep DEF MapInv

----------------------------------------------------------------------------
\* The rows

\* A step of runTask writes no row but the one of its own name, never changes
\* whose row that is, and closes it with its own verdict unless the UPDATE fails.
LEMMA RowEffect ==
  ASSUME MapInv, NEW i \in RunIds, RunStep(i)
  PROVE  \/ rows' = rows /\ (runs[i].at = "update" => runs'[i].verdict = "lost")
         \/ /\ runs[i].at = "update" /\ runs'[i].at = "finish"
            /\ runs'[i].verdict = runs[i].verdict /\ runs'[i].named = runs[i].named
            /\ \A n \in Names :
                 IF n = runs[i].name /\ rows[n] # NoRow
                 THEN /\ rows'[n].run = rows[n].run
                      /\ rows'[n].status = runs[i].verdict /\ rows'[n].file = runs[i].named
                 ELSE rows'[n] = rows[n]
         \/ /\ runs[i].at = "finish"
            /\ \A n \in Names :
                 /\ rows'[n].run = rows[n].run /\ rows'[n].status = rows[n].status
                 /\ rows'[n].file = rows[n].file
                 /\ rows[n] = NoRow => rows'[n] = NoRow
<1>1. rows \in [Names -> Row] /\ runs \in [RunIds -> Run] /\ TypeOK /\ RunInv
  BY DEF MapInv, TypeOK
<1> DEFINE n == runs[i].name
<1>2. CASE UpdateRow(i)
  <2> DEFINE closed == [rows[n] EXCEPT !.status = runs[i].verdict, !.file = runs[i].named]
             next == IF rows[n] = NoRow THEN rows[n] ELSE closed
             run == [runs[i] EXCEPT !.at = "finish"]
             lost == [runs[i] EXCEPT !.at = "finish", !.verdict = "lost"]
  <2>1. n \in Names /\ runs[i].at = "update"
    BY <1>1, <1>2 DEF UpdateRow, RunInv, Live
  <2>2. \/ rows' = [rows EXCEPT ![n] = next] /\ runs' = [runs EXCEPT ![i] = run]
        \/ rows' = rows /\ runs' = [runs EXCEPT ![i] = lost]
    BY <1>2 DEF UpdateRow
  <2>3. /\ closed.run = rows[n].run /\ closed.status = runs[i].verdict
        /\ closed.file = runs[i].named
    BY <1>1, <2>1 DEF Row
  <2>4. /\ run.at = "finish" /\ run.verdict = runs[i].verdict /\ run.named = runs[i].named
        /\ lost.verdict = "lost"
    BY <1>1, RunFields
  <2> HIDE DEF n, closed, run, lost
  <2>5. CASE rows' = [rows EXCEPT ![n] = next] /\ runs' = [runs EXCEPT ![i] = run]
    <3>1. runs'[i] = run /\ \A m \in Names : rows'[m] = IF m = n THEN next ELSE rows[m]
      BY <1>1, <2>1, <2>5
    <3> QED
      BY <2>1, <2>3, <2>4, <3>1 DEF n
  <2>6. CASE rows' = rows /\ runs' = [runs EXCEPT ![i] = lost]
    BY <1>1, <2>4, <2>6
  <2> QED
    BY <2>2, <2>5, <2>6
<1>3. CASE FinishRow(i)
  <2> DEFINE finished == [rows[n] EXCEPT !.finished = TRUE]
             next == IF rows[n] = NoRow THEN rows[n] ELSE finished
  <2>1. n \in Names /\ runs[i].at = "finish"
    BY <1>1, <1>3 DEF FinishRow, RunInv, Live
  <2>2. rows' = [rows EXCEPT ![n] = next] \/ rows' = rows
    BY <1>3 DEF FinishRow
  <2>3. /\ finished.run = rows[n].run /\ finished.status = rows[n].status
        /\ finished.file = rows[n].file
    BY <1>1, <2>1 DEF Row
  <2> HIDE DEF n, finished
  <2>4. CASE rows' = [rows EXCEPT ![n] = next]
    <3>1. \A m \in Names : rows'[m] = IF m = n THEN next ELSE rows[m]
      BY <1>1, <2>1, <2>4
    <3> QED
      BY <2>1, <2>3, <3>1
  <2> QED
    BY <2>1, <2>2, <2>4
<1>4. CASE Decide(i) \/ SaveFile(i) \/ Unregister(i)
  BY <1>4 DEF Decide, SaveFile, Unregister
<1> QED
  BY <1>2, <1>3, <1>4 DEF RunStep, CloseStep

\* Every step keeps the rows and the runs together, deletions included: a row
\* is inserted with a run of its own, and only a run of its name closes it.
LEMMA RowStep == MapInv /\ RowInv /\ [Next]_vars => RowInv'
<1> SUFFICES ASSUME MapInv, RowInv, [Next]_vars PROVE RowInv'
  OBVIOUS
<1>1. MaxRuns \in Nat \ {0} /\ RunIds = 1..MaxRuns
  BY MaxRunsAssumption DEF RunIds
<1>2. /\ inserted \in 0..MaxRuns /\ rows \in [Names -> Row] /\ caller \in [Callers -> Call]
      /\ TypeOK /\ CallerInv /\ RunInv
  BY DEF MapInv, TypeOK
<1>3. RowsHaveRuns /\ RowsAreDecided /\ RowsEndWithTheirTask
  BY DEF RowInv
<1>4. \A n \in Names : rows[n].status # "none" => rows[n].run \in 1..inserted /\ rows[n].run \in RunIds
  BY <1>1, <1>2, <1>3, IdleFields DEF RowsHaveRuns
<1>5. ASSUME NEW c \in Callers, \A d \in Callers \ {c} : caller'[d] = caller[d],
             caller[c].doing # "register", caller'[c].doing # "register",
             runs' = runs, inserted' = inserted,
             \A n \in Names : rows'[n] \in {rows[n], NoRow}
      PROVE  RowInv'
  <2>1. \A d \in Callers, i \in Nat : Registering(d, i) => caller'[d] = caller[d]
    BY <1>5 DEF Registering
  <2>2. \A n \in Names : rows'[n].status # "none" => rows'[n] = rows[n]
    BY <1>5, IdleFields
  <2>3. RowsHaveRuns'
    BY <1>1, <1>2, <1>3, <1>5, <2>1 DEF RowsHaveRuns, Registering
  <2>4. RowsAreDecided'
    BY <1>3, <1>5, <2>2 DEF RowsAreDecided, DecidedBy
  <2>5. RowsEndWithTheirTask'
    BY <1>3, <1>5, <2>2 DEF RowsEndWithTheirTask
  <2> QED
    BY <2>3, <2>4, <2>5 DEF RowInv
<1>6. ASSUME NEW c \in Callers, NEW n \in Names, CheckName(c, n) PROVE RowInv'
  <2> DEFINE call == [Idle EXCEPT !.doing = "insert", !.name = n]
  <2>1. call.doing = "insert" /\ caller' = [caller EXCEPT ![c] = call] /\ caller[c] = Idle
    BY <1>6 DEF CheckName, Idle
  <2> HIDE DEF call
  <2>2. caller'[c].doing = "insert" /\ caller[c].doing = "nothing"
    BY <1>2, <2>1, IdleFields
  <2> QED
    BY <1>2, <1>5, <1>6, <2>2 DEF CheckName
<1>7. ASSUME NEW c \in Callers, NEW n \in Names, DeleteReads(c, n) PROVE RowInv'
  <2> DEFINE call == [Idle EXCEPT !.doing = "unlink", !.name = n, !.unlink = rows[n].file]
  <2>1. call.doing = "unlink" /\ caller' = [caller EXCEPT ![c] = call] /\ caller[c] = Idle
    BY <1>7 DEF DeleteReads, Idle
  <2> HIDE DEF call
  <2>2. caller'[c].doing = "unlink" /\ caller[c].doing = "nothing"
    BY <1>2, <2>1, IdleFields
  <2> QED
    BY <1>2, <1>5, <1>7, <2>2 DEF DeleteReads
<1>8. ASSUME NEW c \in Callers, InsertFails(c) PROVE RowInv'
  BY <1>2, <1>5, <1>8, IdleFields DEF InsertFails
<1>9. ASSUME NEW c \in Callers, DeleteUnlinks(c) PROVE RowInv'
  <2> DEFINE call == [caller[c] EXCEPT !.doing = "delete"]
  <2>1. call.doing = "delete" /\ caller[c].doing = "unlink"
    BY <1>2, <1>9 DEF DeleteUnlinks, Call
  <2>2. caller' = [caller EXCEPT ![c] = call] \/ caller' = [caller EXCEPT ![c] = Idle]
    BY <1>9 DEF DeleteUnlinks
  <2> HIDE DEF call
  <2>3. caller'[c].doing \in {"delete", "nothing"}
    BY <1>2, <2>1, <2>2, IdleFields
  <2>4. \A d \in Callers \ {c} : caller'[d] = caller[d]
    BY <1>2, <2>2
  <2> QED
    BY <1>5, <1>9, <2>1, <2>3, <2>4 DEF DeleteUnlinks
<1>10. ASSUME NEW c \in Callers, DeleteRow(c) PROVE RowInv'
  <2>1. \A n \in Names : rows'[n] \in {rows[n], NoRow}
    BY <1>2, <1>10 DEF DeleteRow
  <2> QED
    BY <1>2, <1>5, <1>10, <2>1, IdleFields DEF DeleteRow
<1>11. ASSUME NEW c \in Callers, InsertRow(c) PROVE RowInv'
  <2> DEFINE n == caller[c].name
             i == inserted + 1
             row == [NoRow EXCEPT !.run = i, !.status = "running"]
  <2>1. /\ caller[c].doing = "insert" /\ rows[n] = NoRow /\ inserted' = i
        /\ rows' = [rows EXCEPT ![n] = row] /\ runs' = runs
    BY <1>11 DEF InsertRow
  <2>2. row.run = i /\ row.status = "running" /\ n \in Names
    BY <1>2, <2>1 DEF NoRow, CallerInv
  <2>3. i \in 1..inserted' /\ i \in RunIds /\ inserted < i
    BY <1>1, <1>2, <1>11, <2>1 DEF InsertRow
  <2>4. /\ \A d \in Callers \ {c} : caller'[d] = caller[d]
        /\ caller'[c].doing = "register" /\ caller'[c].run = i /\ caller'[c].name = n
    BY <1>2, <1>11, <2>1 DEF InsertRow, Call
  <2> HIDE DEF row, i, n
  <2>5. \A m \in Names : rows'[m] = IF m = n THEN row ELSE rows[m]
    BY <1>2, <2>1, <2>2
  <2>6. RowsHaveRuns'
    <3>1. \A m \in Names \ {n} : rows'[m] = rows[m]
      BY <2>5
    <3>2. \A d \in Callers, j \in 1..inserted : Registering(d, j) =>
            Registering(d, j)' /\ caller'[d].name = caller[d].name
      BY <2>1, <2>4 DEF Registering
    <3>3. ASSUME NEW m \in Names, m # n, rows'[m] # NoRow
          PROVE  /\ rows'[m].run \in 1..inserted' /\ rows'[m].status # "none"
                 /\ \/ \E d \in Callers : /\ caller'[d].doing = "register"
                                            /\ caller'[d].run = rows'[m].run
                                            /\ caller'[d].name = m
                    \/ runs'[rows'[m].run].at \in Started /\ runs'[rows'[m].run].name = m
                    \/ runs'[rows'[m].run].at = "dead"
      BY <1>1, <1>2, <1>3, <2>1, <2>3, <3>1, <3>2, <3>3 DEF RowsHaveRuns, Registering
    <3> QED
      BY <2>2, <2>3, <2>4, <2>5, <3>3 DEF RowsHaveRuns, Registering
  <2>7. RowsAreDecided'
    BY <1>3, <2>1, <2>2, <2>5 DEF RowsAreDecided, DecidedBy
  <2>8. RowsEndWithTheirTask'
    BY <1>3, <2>1, <2>2, <2>4, <2>5 DEF RowsEndWithTheirTask
  <2> QED
    BY <2>6, <2>7, <2>8 DEF RowInv
<1>12. ASSUME NEW c \in Callers, Register(c) PROVE RowInv'
  <2> DEFINE n == caller[c].name
             i == caller[c].run
  <2>1. caller[c].doing = "register" /\ rows' = rows /\ inserted' = inserted
    BY <1>12 DEF Register
  <2>2. n \in Names /\ i \in RunIds /\ runs[i].at = "none"
    BY <1>1, <1>2, <2>1 DEF CallerInv
  <2>3. /\ \A d \in Callers \ {c} : caller'[d] = caller[d]
        /\ caller'[c].doing = "nothing"
        /\ \A j \in RunIds \ {i} : runs'[j] = runs[j]
        /\ runs'[i].at = "work" /\ runs'[i].name = n
    BY <1>2, <1>12, <2>2, RegisterEffect
  <2> HIDE DEF n, i
  <2>4. ASSUME NEW m \in Names, rows[m] # NoRow, rows[m].run = i PROVE m = n
    <3>1. PICK d \in Callers : Registering(d, i) /\ caller[d].name = m
      BY <1>3, <2>2, <2>4 DEF RowsHaveRuns, Started
    <3>2. d = c
      BY <1>2, <2>1, <3>1 DEF CallerInv, Registering, i
    <3> QED
      BY <3>1, <3>2 DEF n
  <2>5. RowsHaveRuns'
    <3>1. ASSUME NEW m \in Names, rows[m] # NoRow
          PROVE  /\ rows[m].run \in 1..inserted /\ rows[m].status # "none"
                 /\ \/ \E d \in Callers : /\ caller'[d].doing = "register"
                                          /\ caller'[d].run = rows[m].run
                                          /\ caller'[d].name = m
                    \/ runs'[rows[m].run].at \in Started /\ runs'[rows[m].run].name = m
                    \/ runs'[rows[m].run].at = "dead"
      <4> DEFINE j == rows[m].run
      <4>1. j \in 1..inserted /\ j \in RunIds /\ rows[m].status # "none"
        BY <1>1, <1>2, <1>3, <3>1 DEF RowsHaveRuns
      <4>2. CASE j = i
        BY <2>3, <2>4, <3>1, <4>1, <4>2 DEF Started
      <4>3. CASE j # i
        <5>1. runs'[j] = runs[j]
          BY <2>3, <4>1, <4>3
        <5>2. \A d \in Callers : Registering(d, j) => caller'[d] = caller[d]
          BY <2>3, <4>3 DEF Registering, i
        <5>3. \/ \E d \in Callers : Registering(d, j) /\ caller[d].name = m
              \/ runs[j].at \in Started /\ runs[j].name = m
              \/ runs[j].at = "dead"
          BY <1>3, <3>1 DEF RowsHaveRuns
        <5> HIDE DEF j
        <5>4. rows[m].run = j
          BY DEF j
        <5> QED
          BY <4>1, <5>1, <5>2, <5>3, <5>4 DEF Registering
      <4> QED
        BY <4>2, <4>3
    <3> QED
      BY <2>1, <3>1 DEF RowsHaveRuns, Registering
  <2>6. RowsAreDecided'
    <3>1. \A m \in Names, j \in RunIds : DecidedBy(m, j) => DecidedBy(m, j)'
      BY <2>1, <2>2, <2>3 DEF DecidedBy
    <3> QED
      BY <1>3, <2>1, <3>1 DEF RowsAreDecided
  <2>7. RowsEndWithTheirTask'
    <3>1. ASSUME NEW m \in Names, rows[m].status = "running"
          PROVE  \/ runs'[rows[m].run].at \in {"work", "save", "update", "dead"}
                 \/ runs'[rows[m].run].verdict = "lost"
                 \/ \E d \in Callers : caller'[d].doing = "register" /\ caller'[d].run = rows[m].run
      <4>1. CASE rows[m].run = i
        BY <2>3, <4>1
      <4>2. CASE rows[m].run # i
        <5>1. runs'[rows[m].run] = runs[rows[m].run]
          BY <1>4, <2>3, <3>1, <4>2
        <5>2. \A d \in Callers : caller[d].run = rows[m].run => caller'[d] = caller[d]
          BY <2>3, <4>2 DEF i
        <5> QED
          BY <1>3, <3>1, <5>1, <5>2 DEF RowsEndWithTheirTask
      <4> QED
        BY <4>1, <4>2
    <3> QED
      BY <2>1, <3>1 DEF RowsEndWithTheirTask
  <2> QED
    BY <2>5, <2>6, <2>7 DEF RowInv
<1>13. ASSUME NEW i \in RunIds, RunStep(i) PROVE RowInv'
  <2> DEFINE n == runs[i].name
  <2>1. /\ caller' = caller /\ inserted' = inserted
        /\ \A j \in RunIds \ {i} : runs'[j] = runs[j]
        /\ runs'[i].name = n
        /\ runs[i].at \in Started /\ runs'[i].at \in Started
        /\ runs'[i].at \in {"save", "update"} \/ runs[i].at \in {"update", "finish", "unregister"}
    BY <1>2, <1>13, RunStepEffect DEF Started
  <2>2. \A m \in Names : /\ rows'[m].run = rows[m].run
                         /\ rows'[m] # NoRow => rows[m] # NoRow
                         /\ rows'[m].status # "none" \/ rows'[m].status = rows[m].status
    BY <1>2, <1>13, RowEffect DEF RunInv
  <2>3. ASSUME NEW m \in Names, rows[m] # NoRow, rows[m].run = i PROVE m = n
    BY <1>2, <1>3, <2>1, <2>3 DEF RowsHaveRuns, CallerInv, Registering, Started
  <2> HIDE DEF n
  <2>4. RowsHaveRuns'
    <3>1. ASSUME NEW m \in Names, rows'[m] # NoRow
          PROVE  /\ rows[m].run \in 1..inserted /\ rows'[m].status # "none"
                 /\ \/ \E c \in Callers : Registering(c, rows[m].run) /\ caller[c].name = m
                    \/ runs'[rows[m].run].at \in Started /\ runs'[rows[m].run].name = m
                    \/ runs'[rows[m].run].at = "dead"
      <4>1. /\ rows[m].run \in 1..inserted /\ rows[m].status # "none"
            /\ \/ \E c \in Callers : Registering(c, rows[m].run) /\ caller[c].name = m
               \/ runs[rows[m].run].at \in Started /\ runs[rows[m].run].name = m
               \/ runs[rows[m].run].at = "dead"
        BY <1>3, <2>2, <3>1 DEF RowsHaveRuns
      <4>2. CASE rows[m].run = i
        BY <2>1, <2>2, <2>3, <3>1, <4>1, <4>2
      <4>3. CASE rows[m].run # i
        BY <1>1, <1>2, <2>1, <2>2, <3>1, <4>1, <4>3
      <4> QED
        BY <4>2, <4>3
    <3> QED
      BY <2>1, <2>2, <3>1 DEF RowsHaveRuns, Registering
  <2>5. RowsAreDecided'
    <3>1. ASSUME NEW m \in Names, NEW j \in RunIds, DecidedBy(m, j),
                 rows'[m].status = rows[m].status, rows'[m].file = rows[m].file
          PROVE  DecidedBy(m, j)'
      <4>1. CASE j = i
        BY <1>2, <1>13, <2>1, <3>1, <4>1, RunStepEffect DEF DecidedBy
      <4>2. CASE j # i
        BY <2>1, <3>1, <4>2 DEF DecidedBy
      <4> QED
        BY <4>1, <4>2
    <3>2. ASSUME NEW m \in Names, rows'[m].status \in {"completed", "cancelled"}
          PROVE  (\E j \in RunIds : DecidedBy(m, j)')
      <4>1. CASE rows'[m].status = rows[m].status /\ rows'[m].file = rows[m].file
        BY <1>3, <3>1, <3>2, <4>1 DEF RowsAreDecided
      <4>2. CASE ~(rows'[m].status = rows[m].status /\ rows'[m].file = rows[m].file)
        <5>1. /\ m = n /\ runs'[i].at = "finish"
              /\ rows'[m].status = runs'[i].verdict /\ rows'[m].file = runs'[i].named
          BY <1>13, <4>2, RowEffect DEF n
        <5> QED
          BY <2>1, <5>1 DEF DecidedBy
      <4> QED
        BY <4>1, <4>2
    <3> QED
      BY <3>2 DEF RowsAreDecided
  <2>6. RowsEndWithTheirTask'
    <3>1. ASSUME NEW m \in Names, rows'[m].status = "running"
          PROVE  \/ runs'[rows[m].run].at \in {"work", "save", "update", "dead"}
                 \/ runs'[rows[m].run].verdict = "lost"
                 \/ \E c \in Callers : caller[c].doing = "register" /\ caller[c].run = rows[m].run
      <4>1. rows[m].status = "running" /\ rows[m] # NoRow /\ rows[m].run \in RunIds
        BY <1>2, <1>3, <1>4, <1>13, <2>1, <3>1, RowEffect, IdleFields DEF RunInv
      <4>2. CASE rows[m].run = i
        <5>1. m = n
          BY <2>3, <4>1, <4>2
        <5>2. runs[i].at \in {"work", "save", "update"} \/ runs[i].verdict = "lost"
          BY <1>2, <1>3, <2>1, <4>1, <4>2
             DEF RowsEndWithTheirTask, Started, CallerInv
        <5>3. runs[i].at = "update" => runs'[i].verdict = "lost"
          BY <1>2, <1>13, <3>1, <4>1, <5>1, RowEffect DEF RunInv, n
        <5> QED
          BY <1>2, <1>13, <4>2, <5>2, <5>3, RunStepEffect
      <4>3. CASE rows[m].run # i
        BY <1>3, <2>1, <4>1, <4>3 DEF RowsEndWithTheirTask
      <4> QED
        BY <4>2, <4>3
    <3> QED
      BY <2>1, <2>2, <3>1 DEF RowsEndWithTheirTask
  <2> QED
    BY <2>4, <2>5, <2>6 DEF RowInv
<1>14. ASSUME NEW p \in Procs, NEW n \in Names, Cancel(p, n) PROVE RowInv'
  <2>1. caller' = caller /\ inserted' = inserted /\ rows' = rows
    BY <1>14 DEF Cancel
  <2>2. \A i \in RunIds : /\ runs'[i].at = runs[i].at /\ runs'[i].verdict = runs[i].verdict
                          /\ runs'[i].name = runs[i].name /\ runs'[i].named = runs[i].named
    BY <1>2, <1>14, CancelEffect
  <2>3. RowsHaveRuns'
    BY <1>3, <1>4, <2>1, <2>2 DEF RowsHaveRuns, Registering
  <2>4. RowsAreDecided'
    BY <1>3, <2>1, <2>2 DEF RowsAreDecided, DecidedBy
  <2>5. RowsEndWithTheirTask'
    BY <1>3, <1>4, <2>1, <2>2 DEF RowsEndWithTheirTask
  <2> QED
    BY <2>3, <2>4, <2>5 DEF RowInv
<1>15. ASSUME NEW p \in Procs, NEW n \in Names, Remove(p, n) PROVE RowInv'
  BY <1>3, <1>15 DEF Remove, RowInv, RowsHaveRuns, Registering, RowsAreDecided, DecidedBy,
                     RowsEndWithTheirTask
<1>16. ASSUME NEW p \in Procs, Crash(p) PROVE RowInv'
  <2>1. rows' = rows /\ inserted' = inserted
    BY <1>16 DEF Crash
  <2>2. \A i \in RunIds : /\ runs'[i].verdict = runs[i].verdict /\ runs'[i].name = runs[i].name
                          /\ runs'[i].named = runs[i].named
                          /\ runs'[i].at \in {runs[i].at, "dead"}
    BY <1>2, <1>16, CrashEffect
  <2>3. \A c \in Callers, i \in RunIds : Registering(c, i) =>
          caller'[c] = caller[c] \/ runs'[i].at = "dead"
    BY <1>2, <1>16, CrashEffect
  <2>4. RowsHaveRuns'
    <3>1. ASSUME NEW m \in Names, rows[m] # NoRow
          PROVE  /\ rows[m].run \in 1..inserted /\ rows[m].status # "none"
                 /\ \/ \E c \in Callers : /\ caller'[c].doing = "register"
                                          /\ caller'[c].run = rows[m].run
                                          /\ caller'[c].name = m
                    \/ runs'[rows[m].run].at \in Started /\ runs'[rows[m].run].name = m
                    \/ runs'[rows[m].run].at = "dead"
      BY <1>1, <1>2, <1>3, <2>2, <2>3, <3>1 DEF RowsHaveRuns, Registering
    <3> QED
      BY <2>1, <3>1 DEF RowsHaveRuns, Registering
  <2>5. RowsAreDecided'
    <3>1. \A m \in Names, j \in RunIds : DecidedBy(m, j) => DecidedBy(m, j)'
      BY <2>1, <2>2 DEF DecidedBy
    <3> QED
      BY <1>3, <2>1, <3>1 DEF RowsAreDecided
  <2>6. RowsEndWithTheirTask'
    <3>1. ASSUME NEW m \in Names, rows[m].status = "running"
          PROVE  \/ runs'[rows[m].run].at \in {"work", "save", "update", "dead"}
                 \/ runs'[rows[m].run].verdict = "lost"
                 \/ \E c \in Callers : caller'[c].doing = "register" /\ caller'[c].run = rows[m].run
      BY <1>3, <1>4, <2>2, <2>3, <3>1 DEF RowsEndWithTheirTask, Registering
    <3> QED
      BY <2>1, <3>1 DEF RowsEndWithTheirTask
  <2> QED
    BY <2>4, <2>5, <2>6 DEF RowInv
<1>17. CASE UNCHANGED vars
  BY <1>3, <1>17 DEF vars, RowInv, RowsHaveRuns, Registering, RowsAreDecided, DecidedBy,
                     RowsEndWithTheirTask
<1> QED
  BY <1>6, <1>7, <1>8, <1>9, <1>10, <1>11, <1>12, <1>13, <1>14, <1>15, <1>16, <1>17
     DEF Next, CallerStep

\* While nobody deletes, every step keeps a row with the run that inserted it: a
\* name is inserted once, so no other run ever finds that row.
LEMMA OwnStep ==
  ASSUME Deletions = FALSE
  PROVE  MapInv /\ RowInv /\ OwnInv /\ [Next]_vars => OwnInv'
<1> SUFFICES ASSUME MapInv, RowInv, OwnInv, [Next]_vars PROVE OwnInv'
  OBVIOUS
<1>1. MaxRuns \in Nat \ {0} /\ RunIds = 1..MaxRuns
  BY MaxRunsAssumption DEF RunIds
<1>2. /\ inserted \in 0..MaxRuns /\ rows \in [Names -> Row] /\ caller \in [Callers -> Call]
      /\ TypeOK /\ CallerInv /\ RunInv
  BY DEF MapInv, TypeOK
<1>3. NobodyDeletes /\ RunsHaveRows /\ ClosedRows /\ RowsHaveRuns
  BY DEF OwnInv, RowInv
<1>4. \A n \in Names : rows[n].status # "none" => rows[n].run \in 1..inserted /\ rows[n].run \in RunIds
  BY <1>1, <1>2, <1>3, IdleFields DEF RowsHaveRuns
<1>5. ASSUME NEW c \in Callers, \A d \in Callers \ {c} : caller'[d] = caller[d],
             caller'[c].doing \notin {"register", "unlink", "delete"},
             runs' = runs, rows' = rows
      PROVE  OwnInv'
  BY <1>3, <1>5 DEF OwnInv, NobodyDeletes, RunsHaveRows, ClosedRows, DecidedBy
<1>6. ASSUME NEW c \in Callers, NEW n \in Names, CheckName(c, n) PROVE OwnInv'
  <2> DEFINE call == [Idle EXCEPT !.doing = "insert", !.name = n]
  <2>1. call.doing = "insert" /\ caller' = [caller EXCEPT ![c] = call]
    BY <1>6 DEF CheckName, Idle
  <2> HIDE DEF call
  <2>2. caller'[c].doing = "insert"
    BY <1>2, <2>1
  <2> QED
    BY <1>2, <1>5, <1>6, <2>2 DEF CheckName
<1>7. ASSUME NEW c \in Callers, NEW n \in Names, DeleteReads(c, n) PROVE OwnInv'
  BY <1>7 DEF DeleteReads
<1>8. ASSUME NEW c \in Callers, InsertFails(c) PROVE OwnInv'
  BY <1>2, <1>5, <1>8, IdleFields DEF InsertFails
<1>9. ASSUME NEW c \in Callers, DeleteUnlinks(c) \/ DeleteRow(c) PROVE OwnInv'
  BY <1>3, <1>9 DEF DeleteUnlinks, DeleteRow, NobodyDeletes
<1>10. ASSUME NEW c \in Callers, InsertRow(c) PROVE OwnInv'
  <2> DEFINE n == caller[c].name
             i == inserted + 1
             row == [NoRow EXCEPT !.run = i, !.status = "running"]
  <2>1. /\ caller[c].doing = "insert" /\ rows[n] = NoRow
        /\ rows' = [rows EXCEPT ![n] = row] /\ runs' = runs
    BY <1>10 DEF InsertRow
  <2>2. row.run = i /\ row.status = "running" /\ n \in Names
    BY <1>2, <2>1 DEF NoRow, CallerInv
  <2>3. /\ \A d \in Callers \ {c} : caller'[d] = caller[d]
        /\ caller'[c].doing = "register" /\ caller'[c].run = i /\ caller'[c].name = n
    BY <1>2, <1>10, <2>1 DEF InsertRow, Call
  <2> HIDE DEF row, i, n
  <2>4. \A m \in Names : rows'[m] = IF m = n THEN row ELSE rows[m]
    BY <1>2, <2>1, <2>2
  <2>5. NobodyDeletes'
    BY <1>3, <2>3 DEF NobodyDeletes
  <2>6. RunsHaveRows'
    <3>1. rows[n].run = None
      BY <2>1, IdleFields
    <3>2. \A j \in RunIds : runs[j].at \in Started => runs[j].name # n
      BY <1>1, <1>3, <3>1 DEF RunsHaveRows, None
    <3>3. \A d \in Callers : caller[d].doing = "register" =>
            caller[d].name # n /\ caller[d].name \in Names
      BY <1>1, <1>2, <1>3, <3>1 DEF RunsHaveRows, CallerInv, None
    <3>4. ASSUME NEW d \in Callers, caller'[d].doing = "register"
          PROVE  rows'[caller'[d].name].run = caller'[d].run
      <4>1. CASE d = c
        BY <2>2, <2>3, <2>4, <4>1
      <4>2. CASE d # c
        BY <1>3, <2>3, <2>4, <3>3, <3>4, <4>2 DEF RunsHaveRows
      <4> QED
        BY <4>1, <4>2
    <3>5. ASSUME NEW j \in RunIds, runs'[j].at \in Started
          PROVE  runs'[j].name \in Names /\ rows'[runs'[j].name].run = j
      BY <1>3, <2>1, <2>4, <3>2, <3>5 DEF RunsHaveRows
    <3> QED
      BY <3>4, <3>5 DEF RunsHaveRows
  <2>7. ClosedRows'
    BY <1>3, <2>1, <2>2, <2>4 DEF ClosedRows, DecidedBy
  <2> QED
    BY <2>5, <2>6, <2>7 DEF OwnInv
<1>11. ASSUME NEW c \in Callers, Register(c) PROVE OwnInv'
  <2> DEFINE n == caller[c].name
             i == caller[c].run
  <2>1. caller[c].doing = "register" /\ rows' = rows
    BY <1>11 DEF Register
  <2>2. n \in Names /\ i \in RunIds /\ runs[i].at = "none"
    BY <1>1, <1>2, <2>1 DEF CallerInv
  <2>3. rows[n].run = i
    BY <1>3, <2>1 DEF RunsHaveRows
  <2>4. /\ \A d \in Callers \ {c} : caller'[d] = caller[d]
        /\ caller'[c].doing = "nothing"
        /\ \A j \in RunIds \ {i} : runs'[j] = runs[j]
        /\ runs'[i].at = "work" /\ runs'[i].name = n
    BY <1>2, <1>11, <2>2, RegisterEffect
  <2> HIDE DEF n, i
  <2>5. NobodyDeletes'
    BY <1>3, <2>4 DEF NobodyDeletes
  <2>6. RunsHaveRows'
    BY <1>3, <2>1, <2>2, <2>3, <2>4 DEF RunsHaveRows
  <2>7. ClosedRows'
    <3>1. ASSUME NEW m \in Names, rows[m].status \in {"completed", "cancelled"}
          PROVE  rows[m].run # i /\ rows[m].run \in RunIds
      BY <1>3, <1>4, <2>2, <3>1 DEF ClosedRows, DecidedBy
    <3> QED
      BY <1>3, <2>1, <2>4, <3>1 DEF ClosedRows, DecidedBy
  <2> QED
    BY <2>5, <2>6, <2>7 DEF OwnInv
<1>12. ASSUME NEW i \in RunIds, RunStep(i) PROVE OwnInv'
  <2> DEFINE n == runs[i].name
  <2>1. /\ caller' = caller
        /\ \A j \in RunIds \ {i} : runs'[j] = runs[j]
        /\ runs'[i].name = n /\ runs[i].at \in Started
    BY <1>2, <1>12, RunStepEffect DEF Started
  <2>2. n \in Names /\ rows[n].run = i
    BY <1>3, <2>1 DEF RunsHaveRows
  <2>3. \A m \in Names : rows'[m].run = rows[m].run
    BY <1>2, <1>12, RowEffect
  <2>4. ASSUME NEW m \in Names, m # n PROVE rows'[m].status = rows[m].status
                                            /\ rows'[m].file = rows[m].file
    BY <1>12, <2>4, RowEffect
  <2> HIDE DEF n
  <2>5. NobodyDeletes' /\ RunsHaveRows'
    BY <1>2, <1>3, <2>1, <2>2, <2>3 DEF NobodyDeletes, RunsHaveRows, CallerInv
  <2>6. ClosedRows'
    <3>1. ASSUME NEW m \in Names, rows'[m].status \in {"completed", "cancelled"}
          PROVE  DecidedBy(m, rows[m].run)'
      <4>1. CASE rows'[m].status = rows[m].status /\ rows'[m].file = rows[m].file
        <5>1. DecidedBy(m, rows[m].run) /\ rows[m].run \in RunIds
          BY <1>3, <1>4, <3>1, <4>1 DEF ClosedRows
        <5>2. CASE rows[m].run = i
          BY <1>2, <1>12, <2>1, <2>3, <4>1, <5>1, <5>2, RunStepEffect DEF DecidedBy
        <5>3. CASE rows[m].run # i
          BY <2>1, <2>3, <4>1, <5>1, <5>3 DEF DecidedBy
        <5> QED
          BY <5>2, <5>3
      <4>2. CASE ~(rows'[m].status = rows[m].status /\ rows'[m].file = rows[m].file)
        <5>1. /\ m = n /\ runs'[i].at = "finish"
              /\ rows'[m].status = runs'[i].verdict /\ rows'[m].file = runs'[i].named
          BY <1>12, <4>2, RowEffect DEF n
        <5> QED
          BY <2>1, <2>2, <2>3, <5>1 DEF DecidedBy
      <4> QED
        BY <4>1, <4>2
    <3> QED
      BY <2>3, <3>1 DEF ClosedRows, DecidedBy
  <2> QED
    BY <2>5, <2>6 DEF OwnInv
<1>13. ASSUME NEW p \in Procs, NEW n \in Names, Cancel(p, n) PROVE OwnInv'
  <2>1. caller' = caller /\ rows' = rows
    BY <1>13 DEF Cancel
  <2>2. \A i \in RunIds : /\ runs'[i].at = runs[i].at /\ runs'[i].verdict = runs[i].verdict
                          /\ runs'[i].name = runs[i].name /\ runs'[i].named = runs[i].named
    BY <1>2, <1>13, CancelEffect
  <2>3. NobodyDeletes' /\ RunsHaveRows'
    BY <1>3, <2>1, <2>2 DEF NobodyDeletes, RunsHaveRows
  <2>4. ClosedRows'
    BY <1>3, <1>4, <2>1, <2>2 DEF ClosedRows, DecidedBy
  <2> QED
    BY <2>3, <2>4 DEF OwnInv
<1>14. ASSUME NEW p \in Procs, NEW n \in Names, Remove(p, n) PROVE OwnInv'
  BY <1>3, <1>14 DEF Remove, OwnInv, NobodyDeletes, RunsHaveRows, ClosedRows, DecidedBy
<1>15. ASSUME NEW p \in Procs, Crash(p) PROVE OwnInv'
  <2>1. rows' = rows
    BY <1>15 DEF Crash
  <2>2. \A c \in Callers : /\ Home[c] = p => caller'[c].doing = "nothing"
                           /\ Home[c] # p => caller'[c] = caller[c]
    BY <1>2, <1>15, CrashEffect
  <2>3. \A i \in RunIds : /\ runs'[i].verdict = runs[i].verdict /\ runs'[i].name = runs[i].name
                          /\ runs'[i].named = runs[i].named
                          /\ runs'[i].at \in {runs[i].at, "dead"}
    BY <1>2, <1>15, CrashEffect
  <2>4. NobodyDeletes' /\ RunsHaveRows'
    BY <1>2, <1>3, <2>1, <2>2, <2>3 DEF NobodyDeletes, RunsHaveRows, Started
  <2>5. ClosedRows'
    BY <1>3, <1>4, <2>1, <2>3 DEF ClosedRows, DecidedBy
  <2> QED
    BY <2>4, <2>5 DEF OwnInv
<1>16. CASE UNCHANGED vars
  BY <1>3, <1>16 DEF vars, OwnInv, NobodyDeletes, RunsHaveRows, ClosedRows, DecidedBy
<1> QED
  BY <1>6, <1>7, <1>8, <1>9, <1>10, <1>11, <1>12, <1>13, <1>14, <1>15, <1>16
     DEF Next, CallerStep

\* A task that is running is in the map of its process, if nobody deletes its row
\* or removes its entry: no other run registers or unregisters under its name.
LEMMA ReachStep ==
  ASSUME Deletions = FALSE, Removals = FALSE
  PROVE  MapInv /\ OwnInv /\ LiveRunsAreReachable /\ [Next]_vars => LiveRunsAreReachable'
<1> SUFFICES ASSUME MapInv, OwnInv, LiveRunsAreReachable, [Next]_vars
             PROVE  LiveRunsAreReachable'
  OBVIOUS
<1>1. RunIds = 1..MaxRuns /\ MaxRuns \in Nat
  BY MaxRunsAssumption DEF RunIds
<1>2. /\ running \in [Procs -> [Names -> 0..MaxRuns]] /\ TypeOK
      /\ CallerInv /\ RunInv /\ RunsHaveRows /\ inserted \in 0..MaxRuns
  BY DEF MapInv, OwnInv, TypeOK
<1>3. \A i, j \in RunIds : Live(i) /\ Live(j) /\ runs[i].name = runs[j].name => i = j
  BY <1>2 DEF RunsHaveRows, Live, Started
<1> USE DEF LiveRunsAreReachable, Live
<1>4. CASE runs' = runs /\ running' = running
  BY <1>4
<1>5. ASSUME NEW c \in Callers, Register(c) PROVE LiveRunsAreReachable'
  <2> DEFINE i == caller[c].run
             n == caller[c].name
  <2>1. i \in RunIds /\ runs[i].at = "none" /\ n \in Names /\ rows[n].run = i
    BY <1>1, <1>2, <1>5 DEF Register, CallerInv, RunsHaveRows
  <2>2. Home[c] \in Procs
    BY HomeAssumption
  <2>3. running' = [running EXCEPT ![Home[c]] = [running[Home[c]] EXCEPT ![n] = i]]
    BY <1>5 DEF Register
  <2>4. \A p \in Procs, m \in Names :
          running'[p][m] = IF p = Home[c] /\ m = n THEN i ELSE running[p][m]
    BY <1>2, <2>1, <2>2, <2>3
  <2>5. /\ \A j \in RunIds \ {i} : runs'[j] = runs[j]
        /\ runs'[i].proc = Home[c] /\ runs'[i].name = n
    BY <1>2, <1>5, <2>1, RegisterEffect
  <2>6. \A j \in RunIds : Live(j) => runs[j].name # n
    BY <1>2, <2>1 DEF RunsHaveRows, Started
  <2> HIDE DEF i, n
  <2> QED
    BY <1>2, <2>1, <2>2, <2>4, <2>5, <2>6 DEF RunInv
<1>6. ASSUME NEW i \in RunIds, RunStep(i) PROVE LiveRunsAreReachable'
  <2>1. CASE Unregister(i)
    <3>1. runs[i].proc \in Procs /\ runs[i].name \in Names /\ Live(i)
      BY <1>2, <2>1 DEF Unregister, RunInv
    <3>2. running' = [running EXCEPT ![runs[i].proc] =
                        [running[runs[i].proc] EXCEPT ![runs[i].name] = None]]
      BY <2>1 DEF Unregister
    <3>3. \A p \in Procs, n \in Names :
            running'[p][n] = IF p = runs[i].proc /\ n = runs[i].name THEN None
                             ELSE running[p][n]
      BY <1>2, <3>1, <3>2
    <3>4. runs'[i].at = "done" /\ \A j \in RunIds \ {i} : runs'[j] = runs[j]
      BY <1>2, <1>6, <2>1, RunStepEffect DEF Unregister
    <3> QED
      BY <1>2, <1>3, <3>1, <3>3, <3>4 DEF RunInv
  <2>2. CASE ~Unregister(i)
    <3>1. running' = running
      BY <1>2, <1>6, <2>2 DEF RunStep, CloseStep, Decide, SaveFile, UpdateRow, FinishRow
    <3> QED
      BY <1>2, <1>6, <2>2, <3>1, RunStepEffect
  <2> QED
    BY <2>1, <2>2
<1>7. ASSUME NEW p \in Procs, NEW n \in Names, Cancel(p, n) PROVE LiveRunsAreReachable'
  <2>1. running' = running
    BY <1>7 DEF Cancel
  <2> QED
    BY <1>2, <1>7, <2>1, CancelEffect
<1>8. ASSUME NEW p \in Procs, Crash(p) PROVE LiveRunsAreReachable'
  <2>1. \A q \in Procs : q # p => running'[q] = running[q]
    BY <1>2, <1>8 DEF Crash
  <2>2. ASSUME NEW i \in RunIds, Live(i)'
        PROVE  /\ Live(i) /\ runs[i].proc # p
               /\ runs'[i].proc = runs[i].proc /\ runs'[i].name = runs[i].name
    BY <1>2, <1>8, <2>2, CrashEffect
  <2> QED
    BY <1>2, <2>1, <2>2 DEF RunInv
<1>9. CASE (\E c \in Callers, n \in Names : CheckName(c, n) \/ DeleteReads(c, n)) \/ UNCHANGED vars
  BY <1>4, <1>9 DEF CheckName, DeleteReads, vars
<1>10. ASSUME NEW c \in Callers, CallerStep(c) PROVE LiveRunsAreReachable'
  BY <1>4, <1>5, <1>10
     DEF CallerStep, InsertRow, InsertFails, DeleteUnlinks, DeleteRow
<1> QED
  BY <1>6, <1>7, <1>8, <1>9, <1>10 DEF Next, Remove

----------------------------------------------------------------------------
\* The theorems

\* What holds of every behaviour, whatever is called.
THEOREM Invariance == Spec => [](MapInv /\ RowInv)
<1>1. Init => MapInv /\ RowInv
  BY InitInvariant
<1>2. MapInv /\ RowInv /\ [Next]_vars => (MapInv /\ RowInv)'
  BY MapStep, RowStep
<1> QED
  BY <1>1, <1>2, PTL DEF Spec

\* What holds of the rows when nobody calls DeleteBatchTask.
THEOREM OwnInvariance == ASSUME Deletions = FALSE PROVE Spec => []OwnInv
<1>1. Init => OwnInv
  BY InitInvariant
<1>2. MapInv /\ RowInv /\ OwnInv /\ [Next]_vars => OwnInv'
  BY OwnStep
<1> QED
  BY <1>1, <1>2, Invariance, PTL DEF Spec

\* Calls, maps, runs, rows and files keep their types.
THEOREM TypeCorrectness == Spec => []TypeOK
<1>1. MapInv => TypeOK
  BY DEF MapInv
<1> QED
  BY <1>1, Invariance, PTL

\* Every entry of a running map stands for a live goroutine of that process,
\* whatever is removed, deleted or created: nobody polls an entry for ever because
\* of an entry that was left behind.
THEOREM NoEntryIsLeftBehind == Spec => []EntriesAreLive
<1>1. MapInv => EntriesAreLive
  BY DEF MapInv
<1> QED
  BY <1>1, Invariance, PTL

\* While nobody deletes, two tasks of one name never run at the same time, in any
\* number of processes, although Create's look at the map and its store into it
\* are apart: the UNIQUE row decides, and it stays.
THEOREM NamesRunOnce == ASSUME Deletions = FALSE PROVE Spec => []OneRunPerName
<1>1. OwnInv => OneRunPerName
  BY DEF OwnInv, RunsHaveRows, OneRunPerName, Live, Started
<1> QED
  BY <1>1, OwnInvariance, PTL

\* While nobody deletes, the end state and the file name in a row are those its
\* own run decided on.
THEOREM RowsStayOwn == ASSUME Deletions = FALSE PROVE Spec => []RowsAreOwn
<1>1. OwnInv => RowsAreOwn
  BY DEF OwnInv, ClosedRows, DecidedBy, RowsAreOwn
<1> QED
  BY <1>1, OwnInvariance, PTL

\* Whatever is called, a closed row never mixes two tasks: one task of its name
\* decided on both the end state and the file name it shows, although UPDATE
\* finds the row by name and may close the row of another task.
THEOREM ClosedRowsAreDecided == Spec => []RowsAreDecided
<1>1. RowInv => RowsAreDecided
  BY DEF RowInv
<1> QED
  BY <1>1, Invariance, PTL

\* Whatever is called, a row that goes on saying "running" has lost its process
\* or its UPDATE.
THEOREM RowsEnd == Spec => []RowsEndWithTheirTask
<1>1. RowInv => RowsEndWithTheirTask
  BY DEF RowInv
<1> QED
  BY <1>1, Invariance, PTL

\* While nobody deletes or removes, GetProgress and Cancel reach every task that
\* runs in their process.
THEOREM RunsStayReachable ==
  ASSUME Deletions = FALSE, Removals = FALSE
  PROVE  Spec => []LiveRunsAreReachable
<1>1. Init => LiveRunsAreReachable
  BY IdleFields DEF Init, LiveRunsAreReachable, Live
<1>2. MapInv /\ OwnInv /\ LiveRunsAreReachable /\ [Next]_vars => LiveRunsAreReachable'
  BY ReachStep
<1> QED
  BY <1>1, <1>2, Invariance, OwnInvariance, PTL DEF Spec

============================================================================
