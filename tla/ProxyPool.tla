----------------------------- MODULE ProxyPool -----------------------------
(***************************************************************************)
(* The proxy pool of internal/proxy/pool.go on its cache with a time to    *)
(* live, ttlcache.go: the refresh loop that fetches addresses and has      *)
(* goroutines check them, the cleanup goroutine, and Stop.                 *)
(*                                                                         *)
(* A tick is poolRefreshInterval, the period of both tickers; poolTTL is a *)
(* number of ticks. An entry of the cache is the ticks it has left, so an  *)
(* entry at 0 is one looked at in the very instant it expires: Before is   *)
(* false of it and so is After.                                            *)
(***************************************************************************)
EXTENDS Integers, FiniteSets, Sequences

CONSTANTS Addrs,     \* addresses the provider can return
          Size,      \* cfg.Size
          TTL,       \* poolTTL
          Checkers,  \* poolCheckConcurrency
          MaxLines   \* bound: lines of one answer of the provider

ASSUME SizeAssumption == Size \in Nat \ {0}  \* Config.Validate
ASSUME BoundsAssumption ==
  TTL \in Nat \ {0} /\ Checkers \in Nat \ {0} /\ MaxLines \in Nat \ {0}

Absent == -2
Expired == -1

VARIABLES
  cache,    \* TTLCache.items: ticks left
  loop,     \* where refreshLoop is
  lines,    \* the addresses refresh has fetched
  next,     \* the line validateAndAdd looks at
  check,    \* the goroutine of each line
  due,      \* a tick waits in the loop's ticker
  sweepDue, \* a tick waits in the cleanup goroutine's ticker
  sweeper,  \* the cleanup goroutine runs
  stopped   \* Stop has been called

vars == <<cache, loop, lines, next, check, due, sweepDue, sweeper, stopped>>

Index == 1..MaxLines
NoChecks == [i \in Index |-> "none"]

\* Start has been called.
Init ==
  /\ cache = [a \in Addrs |-> Absent]
  /\ loop = "refresh"
  /\ lines = <<>> /\ next = 1 /\ check = NoChecks
  /\ due = FALSE /\ sweepDue = FALSE /\ sweeper = TRUE /\ stopped = FALSE

----------------------------------------------------------------------------
\* TTLCache

Keys == {a \in Addrs : cache[a] > 0}
CacheLen == Cardinality(Keys)
Gettable == {a \in Addrs : cache[a] >= 0}

\* Faulty variant: the time to live is counted from one refresh later.
SetEntryLong(a) == cache' = [cache EXCEPT ![a] = TTL + 1]

SetEntry(a) == cache' = [cache EXCEPT ![a] = TTL]

\* Faulty variant: Clean asks whether now is Before the expiry, as Len does.
CleanEarly == cache' = [a \in Addrs |-> IF cache[a] > 0 THEN cache[a] ELSE Absent]

Clean == cache' = [a \in Addrs |-> IF cache[a] = Expired THEN Absent ELSE cache[a]]

Sweep ==
  /\ sweeper /\ sweepDue
  /\ sweepDue' = FALSE
  /\ Clean
  /\ UNCHANGED <<loop, lines, next, check, due, sweeper, stopped>>

SweeperStops ==
  /\ sweeper /\ stopped
  /\ sweeper' = FALSE
  /\ UNCHANGED <<cache, loop, lines, next, check, due, sweepDue, stopped>>

----------------------------------------------------------------------------
\* refreshLoop and refresh

TakeTick ==
  /\ loop = "select" /\ due
  /\ due' = FALSE
  /\ loop' = "refresh"
  /\ UNCHANGED <<cache, lines, next, check, sweepDue, sweeper, stopped>>

\* Faulty variant: the loop does not select on stopCh.
LoopGoesOn ==
  /\ loop = "select" /\ stopped
  /\ loop' = "refresh"
  /\ UNCHANGED <<cache, lines, next, check, due, sweepDue, sweeper, stopped>>

LoopStops ==
  /\ loop = "select" /\ stopped
  /\ loop' = "stopped"
  /\ UNCHANGED <<cache, lines, next, check, due, sweepDue, sweeper, stopped>>

\* The pool is full: nothing is fetched.
SkipRefresh ==
  /\ loop = "refresh" /\ CacheLen >= Size
  /\ loop' = "select"
  /\ UNCHANGED <<cache, lines, next, check, due, sweepDue, sweeper, stopped>>

BeginFetch ==
  /\ loop = "refresh" /\ CacheLen < Size
  /\ loop' = "fetch"
  /\ UNCHANGED <<cache, lines, next, check, due, sweepDue, sweeper, stopped>>

\* Faulty variant: an error leaves refresh with its mutex locked.
FetchFailsLocked ==
  /\ loop = "fetch"
  /\ loop' = "locked"
  /\ UNCHANGED <<cache, lines, next, check, due, sweepDue, sweeper, stopped>>

\* The request fails, its body cannot be read or has no address.
FetchFails ==
  /\ loop = "fetch"
  /\ loop' = "select"
  /\ UNCHANGED <<cache, lines, next, check, due, sweepDue, sweeper, stopped>>

Fetched(answer) ==
  /\ loop = "fetch"
  /\ lines' = answer /\ next' = 1 /\ check' = NoChecks
  /\ loop' = "spawn"
  /\ UNCHANGED <<cache, due, sweepDue, sweeper, stopped>>

----------------------------------------------------------------------------
\* validateAndAdd

\* The length is looked at before each goroutine is started, while those
\* started before it have not added anything yet.
SpawnCheck ==
  /\ loop = "spawn" /\ next <= Len(lines) /\ CacheLen < Size
  /\ check' = [check EXCEPT ![next] = "queued"]
  /\ next' = next + 1
  /\ UNCHANGED <<cache, loop, lines, due, sweepDue, sweeper, stopped>>

SpawnEnds ==
  /\ loop = "spawn"
  /\ next > Len(lines) \/ CacheLen >= Size
  /\ loop' = "wait"
  /\ UNCHANGED <<cache, lines, next, check, due, sweepDue, sweeper, stopped>>

Checking == {i \in Index : check[i] = "checking"}

\* Faulty variant: the goroutine checks first and takes its slot afterwards.
BeginCheckUnbounded(i) ==
  /\ check[i] = "queued"
  /\ check' = [check EXCEPT ![i] = "checking"]
  /\ UNCHANGED <<cache, loop, lines, next, due, sweepDue, sweeper, stopped>>

BeginCheck(i) ==
  /\ check[i] = "queued" /\ Cardinality(Checking) < Checkers
  /\ check' = [check EXCEPT ![i] = "checking"]
  /\ UNCHANGED <<cache, loop, lines, next, due, sweepDue, sweeper, stopped>>

CheckPasses(i) ==
  /\ check[i] = "checking"
  /\ SetEntry(lines[i])
  /\ check' = [check EXCEPT ![i] = "done"]
  /\ UNCHANGED <<loop, lines, next, due, sweepDue, sweeper, stopped>>

CheckFails(i) ==
  /\ check[i] = "checking"
  /\ check' = [check EXCEPT ![i] = "done"]
  /\ UNCHANGED <<cache, loop, lines, next, due, sweepDue, sweeper, stopped>>

\* wg.Wait returns; refresh unlocks its mutex and returns.
ChecksDone ==
  /\ loop = "wait"
  /\ \A i \in Index : check[i] \in {"none", "done"}
  /\ loop' = "select"
  /\ lines' = <<>> /\ next' = 1 /\ check' = NoChecks
  /\ UNCHANGED <<cache, due, sweepDue, sweeper, stopped>>

----------------------------------------------------------------------------
Stop ==
  /\ ~stopped
  /\ stopped' = TRUE
  /\ UNCHANGED <<cache, loop, lines, next, check, due, sweepDue, sweeper>>

\* A ticker's channel holds one tick; more are dropped.
Tick ==
  /\ cache' = [a \in Addrs |-> IF cache[a] >= 0 THEN cache[a] - 1 ELSE cache[a]]
  /\ due' = TRUE /\ sweepDue' = TRUE
  /\ UNCHANGED <<loop, lines, next, check, sweeper, stopped>>

Answers == UNION {[1..n -> Addrs] : n \in Index}

LoopStep ==
  \/ TakeTick \/ SkipRefresh \/ BeginFetch \/ FetchFails \/ SpawnCheck \/ SpawnEnds
  \/ ChecksDone
  \/ \E answer \in Answers : Fetched(answer)

CheckStep(i) == BeginCheck(i) \/ CheckPasses(i) \/ CheckFails(i)

Next ==
  \/ LoopStep \/ LoopStops
  \/ \E i \in Index : CheckStep(i)
  \/ Sweep \/ SweeperStops
  \/ Stop \/ Tick

Spec == Init /\ [][Next]_vars

\* Goroutines run, time passes, and requests end because both HTTP clients have
\* a timeout. A select with two ready cases takes either at random, so a stop
\* case that is ready again and again is taken once, in the loop and in the
\* cleanup goroutine.
FairSpec ==
  /\ Spec
  /\ WF_vars(LoopStep) /\ SF_vars(LoopStops)
  /\ WF_vars(Sweep) /\ SF_vars(SweeperStops)
  /\ \A i \in Index : WF_vars(CheckStep(i))
  /\ WF_vars(Tick)

----------------------------------------------------------------------------
\* Correctness

\* The type invariant. It includes the semaphore: no more than
\* poolCheckConcurrency addresses are checked at once.
TypeOK ==
  /\ Cardinality(Checking) <= Checkers
  /\ cache \in [Addrs -> Absent..TTL]
  /\ loop \in {"refresh", "select", "fetch", "spawn", "wait", "stopped"}
  /\ lines \in Answers \cup {<<>>}
  /\ next \in 1..(MaxLines + 1)
  /\ check \in [Index -> {"none", "queued", "checking", "done"}]
  /\ due \in BOOLEAN /\ sweepDue \in BOOLEAN /\ sweeper \in BOOLEAN /\ stopped \in BOOLEAN

\* The cleanup goroutine takes nothing away that a reader of the cache could
\* still see: neither an address GetProxy may hand out nor one that Get still
\* returns in the instant it expires.
SweepingIsHarmless ==
  [][sweepDue /\ ~sweepDue' => Keys' = Keys /\ Gettable' = Gettable]_vars

\* A pool below its size asks the provider again and again until it is stopped,
\* whatever the answers and the checks were.
RefreshesGoOn == []<>(loop = "fetch" \/ CacheLen >= Size \/ stopped)

\* After Stop both goroutines end, also when Stop came in the middle of a refresh
\* and while ticks keep coming.
StopEnds == stopped ~> (loop = "stopped" /\ ~sweeper)

\* What the README says of proxy.pool.size and config.go of Size:
\* the pool has no more addresses than that.
PoolSizeKept == CacheLen <= Size

============================================================================
