---------------------------- MODULE TaskManager ----------------------------
(***************************************************************************)
(* The Manager of internal/task/manager.go and the batch_task_history      *)
(* table of internal/store/sqlite.go, seen from the callers of Create,     *)
(* Cancel, Remove and DeleteBatchTask. Several processes share the         *)
(* database file (every `icpcli batch` opens ./icp_history.db); each keeps *)
(* its own running map, loses it when it dies, and starts again with an    *)
(* empty one. What runTask does in between is BatchRun.tla; here a run is  *)
(* reduced to the steps that touch the map, the row and the result file.   *)
(*                                                                         *)
(* Rows and map entries are keyed by task name alone; the model gives each *)
(* inserted row the identity of its run (the id column) so that a property *)
(* can say whose row or entry a step has touched.                          *)
(***************************************************************************)
EXTENDS Naturals, FiniteSets

CONSTANTS Procs,      \* processes that share the database
          Callers,    \* goroutines that call the Manager or the Store
          Home,       \* the process of each caller
          Names,      \* task names
          MaxRuns,    \* bound: rows ever inserted
          Removals,   \* callers use Manager.Remove
          Deletions   \* callers use Store.DeleteBatchTask

ASSUME HomeAssumption == Home \in [Callers -> Procs]
ASSUME MaxRunsAssumption == MaxRuns \in Nat \ {0}
ASSUME UseAssumption == Removals \in BOOLEAN /\ Deletions \in BOOLEAN

RunIds == 1..MaxRuns
None == 0

VARIABLES
  caller,   \* what each caller is doing
  running,  \* the running map of each process: name -> run, or None
  inserted, \* rows inserted so far
  runs,     \* the goroutines of runTask
  rows,     \* the table: name -> row
  files     \* result files on disk: name -> the run that wrote it, or None

vars == <<caller, running, inserted, runs, rows, files>>

Idle == [doing |-> "nothing", name |-> "", run |-> None, unlink |-> FALSE]
NoRun == [at |-> "none", proc |-> "", name |-> "", cancelled |-> FALSE,
          verdict |-> "none", named |-> FALSE]
NoRow == [run |-> None, status |-> "none", file |-> FALSE, finished |-> FALSE]

Live(i) == runs[i].at \in {"work", "save", "update", "finish", "unregister"}

Init ==
  /\ caller = [c \in Callers |-> Idle]
  /\ running = [p \in Procs |-> [n \in Names |-> None]]
  /\ inserted = 0
  /\ runs = [i \in RunIds |-> NoRun]
  /\ rows = [n \in Names |-> NoRow]
  /\ files = [n \in Names |-> None]

----------------------------------------------------------------------------
\* Create, in the three steps between which other callers run. A Create that
\* is refused by the map changes nothing and is not a step.

CheckName(c, n) ==
  /\ caller[c] = Idle
  /\ running[Home[c]][n] = None
  /\ caller' = [caller EXCEPT ![c] = [Idle EXCEPT !.doing = "insert", !.name = n]]
  /\ UNCHANGED <<running, inserted, runs, rows, files>>

\* Faulty variant: the table has no UNIQUE constraint on task_name.
InsertAnyway(c) ==
  LET n == caller[c].name IN
  /\ caller[c].doing = "insert" /\ inserted < MaxRuns
  /\ inserted' = inserted + 1
  /\ rows' = [rows EXCEPT ![n] = [NoRow EXCEPT !.run = inserted', !.status = "running"]]
  /\ caller' = [caller EXCEPT ![c].doing = "register", ![c].run = inserted']
  /\ UNCHANGED <<running, runs, files>>

InsertRow(c) ==
  LET n == caller[c].name IN
  /\ caller[c].doing = "insert" /\ inserted < MaxRuns
  /\ rows[n] = NoRow
  /\ inserted' = inserted + 1
  /\ rows' = [rows EXCEPT ![n] = [NoRow EXCEPT !.run = inserted', !.status = "running"]]
  /\ caller' = [caller EXCEPT ![c].doing = "register", ![c].run = inserted']
  /\ UNCHANGED <<running, runs, files>>

\* The UNIQUE constraint on task_name, or any other error: Create gives up.
InsertFails(c) ==
  /\ caller[c].doing = "insert"
  /\ caller' = [caller EXCEPT ![c] = Idle]
  /\ UNCHANGED <<running, inserted, runs, rows, files>>

\* running.Store and the go statement.
Register(c) ==
  LET n == caller[c].name
      i == caller[c].run IN
  /\ caller[c].doing = "register"
  /\ running' = [running EXCEPT ![Home[c]][n] = i]
  /\ runs' = [runs EXCEPT ![i] = [NoRun EXCEPT !.at = "work", !.proc = Home[c], !.name = n]]
  /\ caller' = [caller EXCEPT ![c] = Idle]
  /\ UNCHANGED <<inserted, rows, files>>

----------------------------------------------------------------------------
\* The steps of run i that others can see

\* Faulty variant: a status the rest of the code does not know.
DecideMisspelt(i) ==
  /\ runs[i].at = "work"
  /\ runs' = [runs EXCEPT ![i].at = "save",
                ![i].verdict = IF runs[i].cancelled THEN "canceled" ELSE "completed"]
  /\ UNCHANGED <<caller, running, inserted, rows, files>>

\* Faulty variant: the entry is dropped while the row is still to be closed.
DecideUnregistered(i) ==
  /\ runs[i].at = "work"
  /\ runs' = [runs EXCEPT ![i].at = "save",
                ![i].verdict = IF runs[i].cancelled THEN "cancelled" ELSE "completed"]
  /\ running' = [running EXCEPT ![runs[i].proc][runs[i].name] = None]
  /\ UNCHANGED <<caller, inserted, rows, files>>

\* g.Wait has returned and the context has been looked at.
Decide(i) ==
  /\ runs[i].at = "work"
  /\ runs' = [runs EXCEPT ![i].at = "save",
                ![i].verdict = IF runs[i].cancelled THEN "cancelled" ELSE "completed"]
  /\ UNCHANGED <<caller, running, inserted, rows, files>>

\* Nothing is written, or OutputDir/Name.json is and may be cut short: only a
\* whole file is named. The file of an older run of that name is overwritten.
SaveFile(i) ==
  /\ runs[i].at = "save"
  /\ \E outcome \in {"nothing", "partial", "whole"} :
       /\ runs' = [runs EXCEPT ![i].at = "update", ![i].named = (outcome = "whole")]
       /\ files' = IF outcome = "nothing" THEN files
                   ELSE [files EXCEPT ![runs[i].name] = i]
  /\ UNCHANGED <<caller, running, inserted, rows>>

\* Faulty variant: the statement gets the context of the task.
UpdateRowOnTaskContext(i) ==
  LET n == runs[i].name IN
  /\ runs[i].at = "update"
  /\ rows' = [rows EXCEPT ![n] = IF @ = NoRow \/ runs[i].cancelled THEN @ ELSE
                [@ EXCEPT !.status = runs[i].verdict, !.file = runs[i].named]]
  /\ runs' = [runs EXCEPT ![i].at = "finish"]
  /\ UNCHANGED <<caller, running, inserted, files>>

\* UPDATE ... WHERE task_name = ?: the row of that name, whoever inserted it,
\* and no row at all when it has been deleted. The statement may fail, but not
\* because the task is cancelled: its context is finalizeCtx.
UpdateRow(i) ==
  LET n == runs[i].name IN
  /\ runs[i].at = "update"
  /\ \/ /\ rows' = [rows EXCEPT ![n] = IF @ = NoRow THEN @ ELSE
                      [@ EXCEPT !.status = runs[i].verdict, !.file = runs[i].named]]
        /\ runs' = [runs EXCEPT ![i].at = "finish"]
     \/ /\ rows' = rows
        /\ runs' = [runs EXCEPT ![i].at = "finish", ![i].verdict = "lost"]
  /\ UNCHANGED <<caller, running, inserted, files>>

FinishRow(i) ==
  LET n == runs[i].name IN
  /\ runs[i].at = "finish"
  /\ \/ rows' = [rows EXCEPT ![n] = IF @ = NoRow THEN @ ELSE [@ EXCEPT !.finished = TRUE]]
     \/ rows' = rows
  /\ runs' = [runs EXCEPT ![i].at = "unregister"]
  /\ UNCHANGED <<caller, running, inserted, files>>

\* Faulty variant: the deferred running.Delete is missing.
UnregisterNothing(i) ==
  /\ runs[i].at = "unregister"
  /\ runs' = [runs EXCEPT ![i].at = "done"]
  /\ UNCHANGED <<caller, running, inserted, rows, files>>

\* The deferred running.Delete: by name, like everything else.
Unregister(i) ==
  /\ runs[i].at = "unregister"
  /\ runs' = [runs EXCEPT ![i].at = "done"]
  /\ running' = [running EXCEPT ![runs[i].proc][runs[i].name] = None]
  /\ UNCHANGED <<caller, inserted, rows, files>>

----------------------------------------------------------------------------
\* The other calls

Cancel(p, n) ==
  /\ running[p][n] # None
  /\ ~runs[running[p][n]].cancelled
  /\ runs' = [runs EXCEPT ![running[p][n]].cancelled = TRUE]
  /\ UNCHANGED <<caller, running, inserted, rows, files>>

\* Remove does not look at whether the task has completed.
Remove(p, n) ==
  /\ Removals
  /\ running[p][n] # None
  /\ running' = [running EXCEPT ![p][n] = None]
  /\ UNCHANGED <<caller, inserted, runs, rows, files>>

\* DeleteBatchTask reads the row, removes the file that the row it has read
\* names, then deletes the row, whatever it has become. A failure to read or
\* to remove the file ends it.
DeleteReads(c, n) ==
  /\ Deletions
  /\ caller[c] = Idle
  /\ caller' = [caller EXCEPT ![c] = [Idle EXCEPT !.doing = "unlink", !.name = n,
                                                  !.unlink = rows[n].file]]
  /\ UNCHANGED <<running, inserted, runs, rows, files>>

DeleteUnlinks(c) ==
  /\ caller[c].doing = "unlink"
  /\ \/ /\ files' = IF caller[c].unlink THEN [files EXCEPT ![caller[c].name] = None] ELSE files
        /\ caller' = [caller EXCEPT ![c].doing = "delete"]
     \/ /\ caller[c].unlink
        /\ caller' = [caller EXCEPT ![c] = Idle]
        /\ UNCHANGED files
  /\ UNCHANGED <<running, inserted, runs, rows>>

DeleteRow(c) ==
  /\ caller[c].doing = "delete"
  /\ \/ rows' = [rows EXCEPT ![caller[c].name] = NoRow]
     \/ rows' = rows
  /\ caller' = [caller EXCEPT ![c] = Idle]
  /\ UNCHANGED <<running, inserted, runs, files>>

\* The process dies and is started again: its goroutines and its map are gone,
\* the table and the files stay. Nothing in the code looks for what it left.
Crash(p) ==
  /\ caller' = [c \in Callers |-> IF Home[c] = p THEN Idle ELSE caller[c]]
  /\ running' = [running EXCEPT ![p] = [n \in Names |-> None]]
  /\ runs' = [i \in RunIds |->
                IF \/ Live(i) /\ runs[i].proc = p
                   \/ \E c \in Callers : Home[c] = p /\ caller[c].doing = "register" /\ caller[c].run = i
                THEN [runs[i] EXCEPT !.at = "dead"] ELSE runs[i]]
  /\ UNCHANGED <<inserted, rows, files>>

----------------------------------------------------------------------------
CloseStep(i) == SaveFile(i) \/ UpdateRow(i) \/ FinishRow(i) \/ Unregister(i)

RunStep(i) == Decide(i) \/ CloseStep(i)

CallerStep(c) ==
  \/ InsertRow(c) \/ InsertFails(c) \/ Register(c) \/ DeleteUnlinks(c) \/ DeleteRow(c)

Next ==
  \/ \E c \in Callers, n \in Names : CheckName(c, n) \/ DeleteReads(c, n)
  \/ \E c \in Callers : CallerStep(c)
  \/ \E i \in RunIds : RunStep(i)
  \/ \E p \in Procs, n \in Names : Cancel(p, n) \/ Remove(p, n)
  \/ \E p \in Procs : Crash(p)

Spec == Init /\ [][Next]_vars

\* A goroutine that is closing its task goes on, for its statements have a
\* timeout, and nobody is obliged to call anything. Decide waits for queries that
\* may page for ever: it has to come only once the context is done.
FairSpec ==
  Spec /\ \A i \in RunIds : WF_vars(CloseStep(i)) /\ WF_vars(runs[i].cancelled /\ Decide(i))

----------------------------------------------------------------------------
\* Correctness

Call == [doing : {"nothing", "insert", "register", "unlink", "delete"},
         name : Names \cup {""}, run : 0..MaxRuns, unlink : BOOLEAN]
Run == [at : {"none", "work", "save", "update", "finish", "unregister", "done", "dead"},
        proc : Procs \cup {""}, name : Names \cup {""}, cancelled : BOOLEAN,
        verdict : {"none", "completed", "cancelled", "lost"}, named : BOOLEAN]
Row == [run : 0..MaxRuns, status : {"none", "running", "completed", "cancelled"},
        file : BOOLEAN, finished : BOOLEAN]

\* The type invariant.
TypeOK ==
  /\ caller \in [Callers -> Call]
  /\ running \in [Procs -> [Names -> 0..MaxRuns]]
  /\ inserted \in 0..MaxRuns
  /\ runs \in [RunIds -> Run]
  /\ rows \in [Names -> Row]
  /\ files \in [Names -> 0..MaxRuns]

\* Two tasks of one name never run at the same time, in one process or in two,
\* although Create looks at the map before it stores into it and no process
\* sees the map of another.
OneRunPerName ==
  \A i, j \in RunIds : Live(i) /\ Live(j) /\ runs[i].name = runs[j].name => i = j

\* A row is closed by the run that inserted it: the end state and the file name
\* it shows are that run's, not those of another task of its name.
RowsAreOwn ==
  \A n \in Names : rows[n].status \in {"completed", "cancelled"} =>
    LET i == rows[n].run IN
    /\ runs[i].name = n
    /\ rows[n].status = runs[i].verdict /\ rows[n].file = runs[i].named

\* GetProgress and Cancel reach every task that is running in their process, up
\* to the moment its row is closed.
LiveRunsAreReachable ==
  \A i \in RunIds : Live(i) => running[runs[i].proc][runs[i].name] = i

\* An entry of the running map stands for a goroutine of this process that is
\* still to run its deferred Delete: whatever is removed, deleted or created
\* under its name, no entry is left behind to be polled for ever.
EntriesAreLive ==
  \A p \in Procs, n \in Names : running[p][n] # None =>
    LET i == running[p][n] IN Live(i) /\ runs[i].proc = p /\ runs[i].name = n

\* A task that is polled disappears from the map in the end, from the moment it
\* is cancelled or all its queries have returned, whatever is removed, deleted or
\* created under its name meanwhile.
PollingEnds ==
  \A p \in Procs, n \in Names, i \in RunIds :
    running[p][n] = i /\ (runs[i].cancelled \/ runs[i].at # "work") ~> running[p][n] # i

\* A row that goes on saying "running" has a cause: its process died, in Create
\* or later, or the statement that closes it failed. A cancelled task closes its
\* row like any other, and a row with a finish time only says so if that one
\* statement was lost.
RowsEndWithTheirTask ==
  \A n \in Names : rows[n].status = "running" =>
    LET i == rows[n].run IN
    \/ runs[i].at \in {"work", "save", "update", "dead"}
    \/ runs[i].verdict = "lost"
    \/ \E c \in Callers : caller[c].doing = "register" /\ caller[c].run = i

============================================================================
