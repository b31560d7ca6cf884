# TLA+ models of icp-query-go

TLA+ specifications of `icp-query-go`, a command line tool and MCP server that queries the ICP
register of the Chinese MIIT: what the program's concurrent parts do, what makes them correct, the
TLC runs that check it on small instances, and TLAPS proofs of its safety for instances of any size.

Line references are to the repository's own files. `PROJECT.json` maps every definition that models
code to the lines it stands for.

## The system

| component | source | state | operations | interacts with |
| --- | --- | --- | --- | --- |
| batch task | `internal/task/manager.go` | context, errgroup, semaphore, `atomic.Pointer[Progress]`, `allResults`, result file | submission loop, one goroutine per keyword, wait, save, close row, unregister | calls `Beian.Query`; writes the store; is cancelled and polled through the manager |
| task manager | same | `running` map: name to task | `Create`, `GetProgress`, `Cancel`, `Remove` | store, batch command |
| store | `internal/store/sqlite.go` | tables `batch_task_history`, `search_history`; result files | insert, update, finish, read, delete | shared by processes: every `icpcli batch` opens the same file |
| batch command | `cmd/batch.go` | - | create, poll the map, read the row, print | manager, store |
| query | `internal/beian/{token,captcha,beian}.go` | cached token and its expiry behind a lock | token, captcha image, offset, query, details | MIIT server; slider matching |
| detail fetching | `internal/beian/beian.go` | slots of a new list, semaphore | `fetchDetails` | MIIT server |
| egress | `internal/beian/client.go`, `beian.go` | `ipv6Index`, shared transport | `resolveProxy`, `makeHTTPClient`, `getNextIPv6` | proxy pool, configuration |
| proxy pool | `internal/proxy/{pool,ttlcache}.go` | cache with a time to live, refresh mutex | refresh loop, checks, cleanup goroutine, `Stop`, `GetProxy` | provider's API |
| rate limiter | `mcpserver/ratelimit.go` | gate (weighted semaphore), two token buckets | middleware around every tool call | MCP clients, query |
| configuration | `internal/config/config.go`, `cmd/root.go` | settings | `loadConfig`, `Validate` | everything takes its limits from it |
| paging | `internal/task/manager.go` | `queryOne`'s page and `allItems` | ask for a page, judge the answer, collect, go on or stop | query |
| answers | `internal/beian/response.go` | none | read code, list and total; normalise | everything that reads an answer |
| MCP tools, query command | `mcpserver/server.go`, `cmd/query.go`, `cmd/errors.go` | none | one query each, a reply or an exit code | query |
| slider matching | `internal/captcha/slider.go` | none | search for the gap in a decoded picture | query |
| search history, log collector | `internal/store/sqlite.go`, `internal/logutil` | unused | a table; a ring buffer | - |

Calls go down this list of layers: command or MCP tool, (rate limiter or task manager), query,
egress, network. State is shared between goroutines in six places: `Progress`, `allResults`, the
running map, the cached token, `ipv6Index` and the proxy cache; between processes in two: the
database and the result files.

### What is hard, and what makes each part correct

* **Batch task.** Goroutines race on the progress counter, cancellation can come at any point, each
  of five closing steps can fail or be the last one before a crash. Correct means: the counts are
  exact, "completed" means complete, a file that is named is whole, what the command prints is
  final, the task ends unless a query goes on for ever.
* **Task manager.** `Create` looks into the map, inserts a row and stores into the map in three
  steps; everything is keyed by name. Correct means: one run per name, a row is closed by the run
  that inserted it, map entries belong to live tasks.
* **Rate limiter.** Calls are cancelled while they queue, wait and sleep. Correct means: gate and
  quota hold, no permit is lost, every call returns.
* **Proxy pool.** Time, ticks, checks and `Stop` interleave. Correct means: bounded checks, a
  cleanup that nobody can notice, refreshing that goes on until it is stopped and then ends.
* **Query.** The token is checked and stored in separate critical sections with a request in
  between. Correct means: the credentials of a request belong together, a cached token is not used
  past its life.
* **Detail fetching and paging.** Any fetch can fail, any page too, the register changes in between
  and the total counts what is not collected. Correct means: the list of an answer is final, a
  keyword's results are whole or not there, the loop stops, and batch task, command and tools agree
  on what an answer means (they do not quite, see below).
* **Slider.** Only every second pixel is looked at, colours come in any order, regions touch the
  picture's edges. Correct means: the result is the largest region there is (but for one kind at the
  top, see below), and it is the gap.
* **Egress and configuration.** Correct means: limits other parts rely on are positive, local
  addresses take turns, the proxy that was picked is used, the environment overrides (the last two
  fail, see below).

`PROJECT.json` lists every hazard at the line where it bites, with the properties that cover it or
the reason why none does.

## The modules

| module | models | composes |
| --- | --- | --- |
| `BatchTask` | the promise of a batch task, without goroutines | |
| `BatchRun` | `runTask`, its goroutines, and the loop of `cmd/batch.go` | `BatchTask` through a refinement mapping |
| `TaskManager` | the manager's map, the table and the files, in several processes | |
| `RateLimiter` | the MCP middleware | |
| `ProxyPool` | pool, cache, both background goroutines | |
| `QuerySession` | token cache and the requests of concurrent queries | |
| `DetailFetch` | `fetchDetails` | |
| `Response` | the accessors of answers and `normalizeResponse`, as operators | |
| `KeywordQuery` | `queryOne`, the query command and two MCP tools, from the register to the result | `Response`, `DetailFetch` (instantiated) |
| `Slider` | `MatchSliderOffset` | |
| `Settings` | the configuration's layers, as operators | |
| `Egress` | start-up, `resolveProxy`, clients and IPv6 rotation | `Settings` |
| `MC...` | instances for TLC | one module each |
| `BatchRunProofs`, `TaskManagerProofs`, `RateLimiterProofs`, `ProxyPoolProofs`, `QuerySessionProofs`, `EgressProofs`, `SliderProofs` | the theorems about the module in their name | that module |
| `KeywordQueryProofs` | what the steps of `DetailFetch` keep true, as `KeywordQuery` takes them, and the theorems about `KeywordQuery` | `KeywordQuery` |

Each action stands for the code between two points where another goroutine, process or failure can
intervene: a lock's critical section, one SQL statement, one request, one atomic operation. A
variable has the name of the Go variable where there is one.

**BatchRun.** `main` is the program counter of the goroutine of `runTask`, `work[k]` that of the
goroutine of keyword `k`; `cli` that of the polling command. `Submit` and `LeaveLoop` are the loop of
lines 167-199, `Wait`, `Decide`, `SaveNothing`/`OpenFile`/`WriteFile`, `UpdateRow`, `FinishRow`,
`Unregister` the rest of the function in its order. A goroutine passes `Acquire` or `AcquireFails`,
`QueryReturns`, `AppendResults`, `LoadProgress`, and `SwapProgress` or `SwapFails`. The progress
pointer is modelled by the record it points to; records grow with every swap, so equal records are
the same pointer, as the comment at `SwapProgress` explains. `os.WriteFile` is two steps, because it
truncates before it writes and a crash can come between. There is no crash action: a crash changes
neither `row` nor `file`, so an invariant on these two is what a later process finds.

**TaskManager.** A run is reduced to the steps that others can see. `caller[c]` is what a goroutine
that called `Create` or `DeleteBatchTask` is doing: check of the map, insert, registration are three
actions, and so are the three steps of the deletion. Every inserted row carries the identity of its
run, which the code does not have: it lets a property say whose row a step has touched.

**RateLimiter.** The gate is a FIFO queue and a count, as in `semaphore.Weighted`; a limiter is the
time its next token is there, as in `rate.Limiter` with burst 1, including what `Wait` gives back
when it is cancelled. All times are relative to the present, so the clock is unbounded and the state
finite.

**ProxyPool.** A tick is `poolRefreshInterval`. A cache entry is the number of ticks it has left; 0
is the instant of its expiry, where `Before` and `After` are both false and `Len`, `Keys`, `Get` and
`Clean` have to be told apart.

**QuerySession.** `token`, `image`, `sign` and `sent` of a query are the token it holds, the token
its captcha was asked for with, the token the captcha was solved under and the token in the headers
of its query. The server is external: it issues, honours and drops tokens. A context that is done, a
failing request and an unusable answer have the same effect, and are one action, `Fail`. The detail
requests that follow a query's answer reuse the same credentials and are in `DetailFetch`.

**DetailFetch.** `slot` is `detailedList`; a slot knows which item it holds, so that a lost, doubled
or swapped item shows. `Begin` and `Release` are the call and the caller's last look at the list.

**KeywordQuery** instantiates `DetailFetch` and gives it a caller: `Answered` is the answer of the
service and, for everything but web addresses, `Begin` of the details; the four ways on for `queryOne`
(`PageFails`, `NoMoreItems`, `LastPage`, `NextPage`) and the ends of the other callers are its
`Release`. What the requests of one `Query` do to each other is `QuerySession`; here a query is a
step that succeeds or fails. The register of the service is external. An honest service answers a page
with that part of the register and with its length as the total, or refuses; any other may answer
whatever it likes for ever, a code given as a string of digits and a missing total included.
`initially` remembers the register as it was at the start, for the properties. `results` is what
`runTask` appends for the keyword: in `BatchRun` it is one step, `AppendResults`. `Objects` is the loop
of `queryOne` over the items of a page, as a function of the number of items it has seen.
`KeywordIsWhole` says without that loop what is to come out: a list is `InOrder` for a set of indices
if there is an increasing function from its own indices onto that set, and each of its slots is of the
item the function leads to.

**Slider** goes through the colours and rows as the code does, a row in a step; the loops inside a
row are recursive functions of the pixel or segment they have reached: `ColRun`, `RunsSeen` for
`findTrueRuns`, `BestOf` for the choice among a row's segments. `Regions` states without loops what
the scan is to find, in every row of the picture, the ones the code does not scan included.
`GapIsFound` speaks of a gap in a `Textured` picture, one in which no two neighbouring cells outside
the gap have the same colour, and states its other conditions itself; one is that the gap does not
lie at the very top. A picture has one channel, since the code only compares colours for equality
after quantising each channel the same way.

**Egress.** The settings in effect are those `Settings!LoadConfig` makes of a file that may be
unreadable and an environment. A query resolves its proxy once and then sends any number of
requests. What viper does with files and variables is external and modelled as `loadConfig` uses it.
The environment is a function on the names of the variables that are set: `DocumentedName` is the name
the README of the repository gives the variable of a key, `BoundName` the one viper looks for. They
differ for keys with several levels, since no `EnvKeyReplacer` is set: `ICP_PROXY_TUNNEL` against
`ICP_PROXY.TUNNEL`. A variable that is set to the empty string is as good as not set, because
`AllowEmptyEnv` is not called. `blockedIPs` is
only ever loaded and deleted from, never stored into, and is left out.

Each module has one or more operators marked as a faulty variant: a plausible mistake in the code,
stated next to the action it would change, which the module's `Next` does not use. They document
what each property guards against, and are listed with it in `PROJECT.json`.

## The runs

| run | properties | instance and bounds |
| --- | --- | --- |
| `batch_run` | `TypeOK`, `PermitBound`, `ProgressExact`, `CompletedIsTotal`, `NamedFileIsWhole`, `ReportIsFinal`, `TaskEnds`, `CommandEnds`, `ImplementsBatchTask` | four keywords, two permits |
| `manager` | `TypeOK`, `OneRunPerName`, `RowsAreOwn`, `LiveRunsAreReachable` | two processes, three callers, one name, two rows |
| `manager_api` | `EntriesAreLive`, `RowsEndWithTheirTask`, `PollingEnds` | one process, two callers, `Remove` and `DeleteBatchTask` allowed |
| `limiter` | `TypeOK`, `ConcurrencyKept`, `QuotaKept`, `NobodyWaitsForNothing`, `CallsEnd` | five calls of three tools, gate 2, quotas 1 and 2 |
| `pool` | `TypeOK`, `RefreshesGoOn`, `StopEnds`, `SweepingIsHarmless` | two addresses, size 2, three lines, two checkers, TTL 2 |
| `session` | `TypeOK`, `CredentialsMatch`, `CachedTokenIsYoung`, `DroppedTokenGoes` | two queries, lifetime 2, delay 1 |
| `details` | `TypeOK`, `KeywordIsWhole`, `GrowthLosesNothing`, `CallersDifferOnlyInCodes`, `AnswersAreFinal`, `CallEnds` | registers of up to three items that grow to five, pages of two, one permit |
| `slider` | `ResultIsLargestBelowTop`, `GapIsFound` | pictures of 14 by 10 with a gap at every place, of 16 sizes on two textures; all of 4 by 3 cells |
| `egress` | `TypeOK`, `RotationEven`, `BoundWithoutProxy` | two queries, three local addresses, five files, four environments |
| `pool_size`, `egress_proxy`, `egress_environment` | `PoolSizeKept`, `ProxyIsUsed`, `EnvironmentWins` | violated: see below |

Why the bounds are enough. In `batch_run` two goroutines race on the counter while a third waits for
a permit and a fourth has not been submitted, which is every role a keyword can have; the proofs
remove the bound. In `manager` two callers race inside `Create` while a third does so in another
process; `MaxRuns` allows a name's second row, which only a deletion makes possible. `limiter` has
three calls for a quota of one in a minute, so two reservations of one limiter and one of the other
stand behind each other, one of them with a cancelled call below it; `MaxBacklog` stops reservations
more than two minutes ahead, and the state repeats after that. `pool` has more lines than the pool
has room for, more than may be checked at once, and repeated addresses. In `session` one query
suffices for each role: one holds a token while the other replaces it. `Tokens` are reused once
nobody holds them, so queries go on for ever. `egress` has more addresses than queries, so that the
index wraps while another query is between two requests; `MaxSpread` caps the difference in uses one
above what is allowed. In `details` a page has a goroutine that holds the only permit and one that
waits for it; registers of one page and of two, with an item that is no object at the start, and two
entries on the way, each at any place, let items move over a page's edge twice. `MaxPage` is one
more than the longest register needs, so only a service that is not honest gets there; its later
pages are one page. The register grows only for `auto_page`, since nobody else asks twice. `slider`
has a piece of 8 by 8, so that a quarter of it is two downsampled pixels and the ratio 0.7 to 1.4
lets more than squares pass; its gaps start at odd and even pixels, touch every edge and fall on
both sides of each condition of `GapIsFound`; those three or four pixels high in the first row are
the regions at the top that are missed. `egress` has variables under both names, empty ones and
files that set the same keys. The run `slider` has no type invariant: its two properties read every variable,
and the types are a part of the invariant that `SliderProofs` proves. Symmetry is not used: the
instances are small without it, and most check liveness, where it is not sound.

### What the violated runs show

* `pool_size`. `validateAndAdd` compares the length with `Size` before each goroutine is started;
  those already started have added nothing yet. `Size` is documented as the maximum.
* `egress_proxy`. `makeHTTPClient` returns the shared client for a query that has a proxy, and that
  client's transport has none. The option `--proxy`, `proxy.tunnel` and the pool have no effect other
  than to suppress IPv6 binding.
* `egress_environment`. Environment variables are looked at by `Unmarshal`, which is only called
  when a config file was read. All fields are documented as optional and the environment as a layer
  of its own. `EnvironmentWins` is about the keys of one level, `timeout` and `concurrency`, whose
  variables have the name that is documented.

Three more disagreements have no run of their own. They are in the modules as the code has them, and the
properties that hold name them as exceptions:

* The variables of nested keys do not count at all under the names the README of the repository gives
  them (lines 189-194), `ICP_PROXY_TUNNEL` among them: viper looks for names with dots
  (`root.go:63`). `EnvironmentWinsIfRead` is about the names that are looked for.
* An answer without a valid code is a failed query for a batch task (`manager.go:269`), while the
  command prints it and exits with 0, which its help says is success (`query.go:25`, `query.go:81`).
  `CallersDifferOnlyInCodes` says that the callers take only one other kind of answer differently: a
  code that says failure is handed on by the tools as a result and not marked as an error.
* The rows of a picture are scanned from `minSide` on, though a region of that height can end in the
  row before (`slider.go:111`): one that begins in the first row and is no higher is missed, and a
  smaller one or none returned, where the comments at lines 17 and 25 promise the largest.
  `ResultIsLargestBelowTop` says that nothing else is ever missed.

States worth knowing that no document forbids: a task whose process dies stays "running" in the
table for ever, and its name cannot be used again; a task deleted while live can have its row
inserted again by another task of its name and then close that one; `UpdateBatchTask` can fail and
`FinishBatchTask` succeed, which leaves a row that says running and has a finish time
(`RowsEndWithTheirTask` says that this and a crash are the only ways to a row that says so for
good). `DeleteBatchTask` (`sqlite.go:371`: "and its result file") removes the file that the row it
has read names, so a file written and not yet named stays; nothing calls it. Nor does the program
call `Manager.Remove` or `ProxyPool.Stop`: what is checked of the three is what they promise as the
packages' API. A register from which an item is removed while it is paged through makes `queryOne`
skip another one. A service that goes on sending items below its own total keeps `queryOne` asking
until its task is cancelled. The slider's result is the largest nearly square region of one colour,
and its height is that of its first column: on a picture with a plain part larger than the gap, that
part is the result.

## Fairness

Weak fairness of each goroutine's step: Go's scheduler runs what can run, mutexes and the FIFO
semaphore are not starved, and a single request or statement ends by itself: requests have the HTTP
client's timeout (`beian.go:140`, `pool.go:47`), closing SQL statements that of `finalizeCtx`. The
query of a keyword is not a single request: with `auto_page` the loop of `queryOne`
(`manager.go:256`) has no bound of its own. So `QueryReturns` of `BatchRun` is fair only while the
task is cancelled, and `TaskEnds` and `CommandEnds` have a premise, `CanEnd`: each keyword's query
returns, or somebody cancels. `Decide` of `TaskManager`, which stands for everything up to the end
of `g.Wait`, is fair only for a cancelled run, and `PollingEnds` is about runs that are cancelled or
past it. When a query does return is `CallEnds` of `KeywordQuery`: for an honest service, or once it
is cancelled. Nothing obliges anybody to call `Create`, `Cancel`, `Remove`, `Stop` or to cancel a
context, and no failure is ever assumed to happen or not to. Two assumptions go further: `Tick` is
fair, for time passes; and the stop case of the pool's `select` is strongly fair, because `select`
picks at random among ready cases and the stop channel stays closed; the same holds for the cleanup
goroutine. In `details` the caller, the loop of `fetchDetails` and each of its goroutines are fair;
`Cancel`, `Grow` and failures are not, and a service that is not honest owes `CallEnds` nothing
before a cancellation. In `limiter` a call's `Reserve` is fair but `Refuse` and `CancelWait` are
not: a call ends without anyone's cancelling it.

## The proofs

Every invariant and every action property the passing runs check is a theorem. In each proof module the
theorem `Invariance` (and `OwnInvariance` in `TaskManagerProofs`) is an inductive invariant, written as
a conjunction of named parts; the properties follow from it. Hardly any property is inductive by
itself; what each needs is the point of what follows. `PROJECT.json` lists the theorems with the
properties they state.

Assumptions are those on the constants in the modules, which TLC evaluates for the instances. They
say what the code guarantees of its limits (`Validate`'s positive settings, `Create`'s clamps); that a
minute is a whole number of the periods of each quota, which a short enough tick always achieves
(`PeriodAssumption`); that the named bounds are large enough not to stop the program; and that the
queries of `QuerySession` and the calls of `RateLimiter` are finite in number (`QueriesAssumption`,
`CallsAssumption`), as goroutines are; and that pictures are rectangles of numbers
(`PicturesAssumption`).

**BatchRun**, for every `N \in Nat \ {0}` and `Concurrency \in 1..20`, the range to which `Create`
clamps it: `TypeCorrect`, `PermitsBound`, `ProgressIsExact`, `CompletedRowIsTotal`,
`NamedFilesAreWhole`, `ReportsAreFinal`, and `Refinement`: `Spec => ImplementsBatchTask`. `IInv` says
that the semaphore's count is the number of goroutines past `Acquire` and not yet done; that what each
goroutine has left behind (`outcome`, `results`) fits its program counter; that past `Wait` every
goroutine that was started is done, and unless the task is cancelled all were started; and what
`verdict`, `file`, `named`, `row`, `registered` and `report` can be for each value of `main`.
`CompletedIsTotal`, for example, speaks of the row, and needs that the verdict was reached with every
keyword counted, which needs `ProgressExact`, which needs that a swap happens only on the value that
was loaded. The argument has three parts: lemmas on cardinalities of the sets of keywords, since a
worker's step adds or removes one keyword (`KeywordJoins`, `KeywordLeaves`); one lemma for each group
of conjuncts (`TypeStep`, `CountStep`, `MainFlowStep`, `WorkerFlowStep`), with a case per action; and
the refinement, where a worker's successful swap is `Resolve`, the row's update is `Complete` or
`GiveUp` and everything else but `Cancel` is a stutter.

**TaskManager**, for any processes, callers, names and number of runs. What needs no hypothesis, and
so holds with `Remove` and `DeleteBatchTask` at any moment, is `TypeCorrectness`,
`NoEntryIsLeftBehind` (`EntriesAreLive`), `RowsEnd` (`RowsEndWithTheirTask`) and
`ClosedRowsAreDecided`. `MapInv` adds to the types that two callers never start the same run, and
that a run about to be registered has not been started: this is what makes the store into the map
safe although the look into it was three steps before. `RowInv` relates rows and runs: a row was
inserted by a caller that is about to start its run, by that run, or by one that died. A task whose
row was deleted may find the row of a later task of its name and close it, so it is not the case
then that a row shows what its own run did (`RowsAreOwn` fails), nor that a name runs once. What is
left of `RowsAreOwn` is `ClosedRowsAreDecided`: the end state and the file name in a closed row are
the decision of one task of that name, never of two. That a name runs once (`NamesRunOnce`) and that
a row is closed by the run that inserted it (`RowsStayOwn`) is proved for `Deletions = FALSE`: a
deletion takes away the row whose UNIQUE name is what both rest on, and the code lets it do so while
the task runs. Nothing in the program calls `DeleteBatchTask`, or `Manager.Remove`; that live runs
can be reached through the map (`RunsStayReachable`) is proved without either. The strengthening
`OwnInv` says that the row of a name is that of the one caller about to start a run of it, or of the
run that it started.

**RateLimiter**, for any finite number of calls, any gate and quotas. `GateIsNeverOverrun` and
`PermitsAreHandedOn` rest on `GateInv`: permits in use are the calls that hold one, and while calls
wait none is free; a cancelled call in the queue, and one that is handed a permit in that moment, are
the cases that could break it. `QuotaIsNeverExceeded` rests on `SpacingInv`: reservations of a limiter
that still matter are a period apart and the next token lies a period after each of them, so that a
reservation can be given back when none was made on top of it. From the spacing follows the quota:
each call of the last minute falls into a slot of the length of a period, no two into the same, and
there are as many slots as the quota (`SlotsDiffer`, `SpacedCallsFitTheQuota`).

**ProxyPool**, for any addresses, size, time to live and number of checkers. `TypeCorrectness` includes
the bound on concurrent checks. `NothingSeenIsSwept` is the action property `SweepingIsHarmless`.
`PoolIsBounded` says what holds in the place of the violated `PoolSizeKept`: fewer addresses than
`Size` and the lines of one answer together. Its invariant counts what may still come: the addresses
in the cache and the lines that are not done stay below that sum (`RoomInv`).

**QuerySession**, for any finite number of queries and all lifetimes and delays.
`CredentialsStayTogether` needs what the token, image and sign of a query are at each stage
(`StageInv`); `CacheStaysYoung` needs how old a token can be that was received and is not stored yet
(`AgeInv`). That the server can always issue a token, which `TypeOK` needs, is a counting argument:
there are more identities than queries and caches to hold them (`FreshTokenIsFree`).

**KeywordQuery with DetailFetch**, for any items, registers, page size and permits, and for a
service that is honest or not. The first part of `KeywordQueryProofs` shows what `fetchDetails`
keeps true: each permit is held by a goroutine, the slot of an index the loop has passed is written
as soon as its goroutine is done, and once the list is returned none is left. From this follow
`AnswersStayFinal` and the first part of `KeywordsAreWhole`. The rest is about pages. `PagesInv`:
what was collected before page `p` of a register that stands still are the objects at the indices up
to `(p - 1) * PageSize`, each once and in order; and what was in the register at the start was
collected or is still ahead of `p`, wherever others were entered. An insertion moves items back by
one place at most and never ahead of the page, which is why the second part survives `Grow`
(`InsertEffect`) and the first is claimed only while nothing was entered. When the loop stops at a
count, `LastPageStep` has to show that nothing can be ahead: as many items were collected as the
register has, so the pages reached its end. `PagingEnds` is the safety part of `CallEnds`: items
that are no objects never count towards the total, so the count alone would not stop the loop; but a
page is followed by another only if it had items, so an honest service is asked for at most one page
past the end of its register. `CallersDifferOnlyThere` needs that the reply is what the caller's
rule makes of an answer that is still there, in both directions: also that a failure is never an
answer with a good code.

`Objects` is a recursive function, and `ObjectsTyping` and `InOrderPage` go by induction over its
argument. An induction is done by least element: a set of counterexamples in `Nat` that is not empty
has a least one (`LeastElement`, from the well-foundedness of `<` in the library).

**Slider**, for any pictures and piece sizes. A recursive function over an interval is first shown
to have a solution (`RecursionSolved`: the partial solutions agree, and their union is one), then
what it computes follows by induction over the pixels (`StepByStep`). `RunsFound`: `findTrueRuns`
returns exactly the maximal stretches of pixels that are high enough, the one that touches the right
edge included. `RunIsSolid`: `colRun` is at least a number exactly if that many pixels upwards have
the colour. `BestOfIsBest`: the choice among the segments of a row ends with the largest that fits.
Together they give `RowScanned`: a step of the program takes the best of what it had and of
`RegionsAt` this row, which is stated without loops. `IInv` says of which rows and colours the best
has been taken so far (`BestInv`), and that no colour waits that is more frequent than one that was
tried (`ColorInv`); `LargestIsReturned` follows when the last colour is done: a region that the scan
has passed by ends in a row below `MinSide`, and then it begins in the first row and has the least
height (`TopOrLow`). `GapIsReturned` is geometry on top of that: in a textured picture a region of
at least two rows and two columns lies inside the gap (`RegionInBlock`), the gap itself is one
(`BlockIsRegion`), its colour is tried if it is among the five most frequent, ties included
(`FrequentIsTried`), and the largest region has the gap's area only if it starts at its left edge.

**Egress**, for any number of queries and local addresses and whatever file and environment say.
`AddressesTakeTurns` needs that the index tells which addresses have had their turn in this round
(`TurnInv`). `TypeCorrectness` includes that every number of the settings is positive, which limiters,
semaphores and the pool rely on. `EnvironmentWinsIfRead` says what holds in the place of the violated
`EnvironmentWins`: with a file that was read, the variable under the name
that viper looks for, if it is not empty, overrides file and default, for every key.

Only model-checked, and so only for the instances above, is liveness (`TaskEnds`, `CommandEnds`,
`CallsEnd`, `PollingEnds`, `RefreshesGoOn`, `StopEnds`, `DroppedTokenGoes`, `CallEnds`): TLAPS does not
prove properties under fairness.

## Not modelled

Parsing, formatting, logging and wording; image decoding; the MIIT server beyond tokens and pages;
the list and count queries of the store; `config_show` and the version; flags, the keyword file and
the decoding of a tool's arguments; the reuse of HTTP connections. `search_history` and the log
collector are not modelled because nothing in the program calls them: there is no behaviour to state
a property of.

## The plan

Done, in this order: `BatchTask`, `BatchRun` and its proofs, `TaskManager`, `RateLimiter`,
`ProxyPool`, `QuerySession`, `DetailFetch`, `Settings` and `Egress`; then `Response`, `KeywordQuery`
and `Slider`; then the proofs about `TaskManager`, `QuerySession`, `RateLimiter`, `ProxyPool`,
`Egress`, `KeywordQuery` with `DetailFetch`, and `Slider`; last, what is left of the properties of
rows in `TaskManager` when rows are deleted. What could follow is an abstract specification of one
keyword, which is whole or not there, that `KeywordQuery` implements, so that `BatchRun`'s step
`QueryReturns` rests on it.

If the program comes to call them: the log collector against a bounded sequence, and the
`search_history` table.

## Running

    tlc -config MCBatchRun.cfg MCBatchRun
    tlapm BatchRunProofs.tla

and likewise for the other configurations. Every run takes less than four minutes, the proofs from
seconds to three minutes for a module.
