---------------------------- MODULE KeywordQuery ----------------------------
(***************************************************************************)
(* One keyword, from the caller to the register and back. The callers are  *)
(* queryOne of internal/task/manager.go, which a batch task runs and which *)
(* pages through the answers, the query command (cmd/query.go) and the two *)
(* MCP tools (mcpserver/server.go), which ask once. Each calls Query or    *)
(* QueryBlacklist of internal/beian/beian.go; for everything but web       *)
(* addresses the items of an answer are replaced by their details          *)
(* (DetailFetch) before the caller sees it. What happens between the       *)
(* requests of one Query is QuerySession.tla; here it is one step. A       *)
(* caller that asks once gets what queryOne gets as page 1.                *)
(*                                                                         *)
(* The register is a sequence of items. It may grow while it is paged      *)
(* through. An honest service answers page p with the p-th PageSize items  *)
(* of the register and with its length as the total; one that is not may   *)
(* answer anything, for ever.                                              *)
(***************************************************************************)
EXTENDS Response, FiniteSets

CONSTANTS Items, WithId, Concurrency,  \* as in DetailFetch
          NonObjects,  \* the items that are no JSON objects
          Registers,   \* what the register may hold for the keyword
          PageSize,    \* req.PageSize, at most 26
          MaxPage,     \* bound: later pages of a dishonest service are not told apart
          MaxGrowth    \* bound: the length the register grows to

ASSUME NonObjectsAssumption == NonObjects \subseteq Items \ WithId
ASSUME PageSizeAssumption == PageSize \in Nat \ {0}  \* Create's defaults and limits
ASSUME RegistersAssumption ==
  \A r \in Registers : r \in Seq(Items) /\ Len(r) <= MaxGrowth
ASSUME BoundsAssumption ==
  /\ MaxPage \in Nat /\ MaxGrowth \in Nat
  /\ MaxGrowth <= (MaxPage - 1) * PageSize /\ MaxGrowth <= Cardinality(Items)

VARIABLES main, list, next, cancelled, work, permits, slot, published,  \* DetailFetch's
  request,  \* who asks, for which type, and whether for all pages
  at,       \* where the caller is
  honest,   \* the service is
  register, \* what it holds now
  initially, \* and what it held when the caller began
  page,     \* queryOne's page
  answer,   \* what Query returned
  allItems, \* queryOne's allItems
  results,  \* what runTask appends to its results
  reply     \* what the caller makes of it

details == <<main, list, next, cancelled, work, permits, slot, published>>
caller == <<request, at, page, answer, allItems, results, reply>>
service == <<honest, register, initially>>
vars == <<details, caller, service>>

Fetch == INSTANCE DetailFetch WITH MaxItems <- PageSize

ASSUME FetchAssumptions == Fetch!Assumptions

Callers == {"batch", "command", "icp_query", "icp_blacklist"}
Types == {"web", "app", "bweb", "bapp", "other"}  \* mapp and kapp are as app

\* ParseServiceType and ParseBlacklistServiceType, as each caller uses them.
Accepted(by) ==
  CASE by \in {"batch", "icp_query"} -> {"web", "app"}
    [] by = "command" -> {"web", "app", "bweb", "bapp"}
    [] by = "icp_blacklist" -> {"bweb", "bapp"}

Init ==
  /\ Fetch!Init
  /\ \E by \in Callers, type \in Types, auto \in BOOLEAN :
       /\ auto => by = "batch"
       /\ request = [by |-> by, type |-> type, auto |-> auto]
  /\ at = "parse"
  /\ \/ honest = TRUE /\ register \in Registers
     \/ honest = FALSE /\ register = <<>>  \* it answers what it likes
  /\ initially = register
  /\ page = 1 /\ answer = Failed /\ allItems = <<>> /\ results = <<>>
  /\ reply = "none"

----------------------------------------------------------------------------
\* The service

Smaller(a, b) == IF a < b THEN a ELSE b

PageOf(p) == SubSeq(register, (p - 1) * PageSize + 1, Smaller(p * PageSize, Len(register)))

\* More than can ever be collected.
Beyond == MaxPage * PageSize + 1

\* An honest answer, or the service's refusal of one.
HonestAnswers ==
  {Answer(Number(200), PageOf(page), Numeral(Len(register))),
   Answer(Number(500), <<>>, NoNumber), Answer(Number(401), <<>>, NoNumber)}

OtherAnswers ==
  {Answer(code, items, total) :
     code \in {Numeral(0), Number(500), NoNumber},
     items \in {SubSeq(r, 1, Smaller(PageSize, Len(r))) : r \in Registers},
     total \in {NoNumber, Number(1), Number(Beyond)}}

\* An item is entered, at any place. Only who pages through all can notice, and
\* only where it happens before a request is answered.
Grow ==
  /\ honest /\ request.auto /\ at = "ask"
  /\ Len(register) < MaxGrowth
  /\ \E i \in 0..Len(register) :
       LET x == CHOOSE y \in Items : \A j \in 1..Len(register) : register[j] # y IN
       register' = SubSeq(register, 1, i) \o <<x>> \o SubSeq(register, i + 1, Len(register))
  /\ UNCHANGED <<details, caller, honest, initially>>

----------------------------------------------------------------------------
\* A caller and its Query

Parse ==
  /\ at = "parse" /\ request.type \in Accepted(request.by)
  /\ at' = "ask"
  /\ UNCHANGED <<details, service, request, page, answer, allItems, results, reply>>

\* An unsupported type: exit code 1, a protocol error, or Create's error.
Refuse ==
  /\ at = "parse" /\ request.type \notin Accepted(request.by)
  /\ reply' = "refused" /\ at' = "done"
  /\ UNCHANGED <<details, service, request, page, answer, allItems, results>>

\* Only queries of the register for something else than web have details.
WithDetails(a) == request.type = "app" /\ a.items # <<>>

\* Query's requests go well. They do not when the context is done before.
Answered ==
  /\ at = "ask" /\ ~cancelled
  /\ \E a \in IF honest THEN HonestAnswers ELSE OtherAnswers :
       /\ answer' = a
       /\ IF WithDetails(a) THEN Fetch!Begin(a.items) ELSE UNCHANGED details
  /\ at' = "read"
  /\ UNCHANGED <<service, request, page, allItems, results, reply>>

\* No captcha, a request that fails, a page of the firewall, no JSON.
NotAnswered ==
  /\ at = "ask"
  /\ answer' = Failed
  /\ at' = "read"
  /\ UNCHANGED <<details, service, request, page, allItems, results, reply>>

\* What Query returns, once fetchDetails has: its items are slots of DetailFetch.
Returned == at = "read" /\ main \in {"idle", "returned"}
ReturnedAnswer == Normalize(answer)
ReturnedItems ==
  IF ReturnedAnswer.items = <<>> THEN <<>>
  ELSE IF main = "returned" THEN SubSeq(slot, 1, Len(list))
  ELSE [i \in 1..Len(answer.items) |-> Fetch!ItemOf(answer.items[i])]
Release == IF main = "returned" THEN Fetch!Release ELSE UNCHANGED details

----------------------------------------------------------------------------
\* queryOne: the loop over the pages

IsObject(s) == s.is = "detail" \/ (s.is = "item" /\ s.of \notin NonObjects)

\* Item by item, what is an object is appended.
Objects(s) ==
  LET kept[n \in 0..Len(s)] ==
        IF n = 0 THEN <<>>
        ELSE IF IsObject(s[n]) THEN Append(kept[n - 1], s[n]) ELSE kept[n - 1]
  IN kept[Len(s)]

\* Pages from MaxPage on are one page, whose items are not kept.
Collected ==
  IF page = MaxPage THEN allItems ELSE allItems \o Objects(ReturnedItems)

Usable(a) == ~a.error /\ CodeIs(a, {0, 200})

\* Faulty variant: the items of the pages before are kept.
PageFailsKeeping ==
  /\ Returned /\ request.by = "batch" /\ ~Usable(ReturnedAnswer)
  /\ results' = allItems
  /\ reply' = "failure" /\ at' = "done"
  /\ Release
  /\ UNCHANGED <<service, request, page, answer, allItems>>

\* The items so far are returned with the error, and runTask drops them.
PageFails ==
  /\ Returned /\ request.by = "batch" /\ ~Usable(ReturnedAnswer)
  /\ reply' = "failure" /\ at' = "done"
  /\ Release
  /\ UNCHANGED <<service, request, page, answer, allItems, results>>

NoMoreItems ==
  /\ Returned /\ request.by = "batch" /\ Usable(ReturnedAnswer)
  /\ ReturnedItems = <<>>
  /\ results' = allItems
  /\ reply' = "success" /\ at' = "done"
  /\ Release
  /\ UNCHANGED <<service, request, page, answer, allItems>>

\* Faulty variant: the total of the first page is what is waited for.
EnoughOfFirst(items) ==
  \/ ~request.auto
  \/ ~IsNumber(ReturnedAnswer.total)
  \/ Len(initially) <= Len(items)

\* Only the first page is wanted, there is no total, or as many items are there.
Enough(items) ==
  \/ ~request.auto
  \/ ~IsNumber(ReturnedAnswer.total)
  \/ ReturnedAnswer.total.n <= Len(items)

LastPage ==
  /\ Returned /\ request.by = "batch" /\ Usable(ReturnedAnswer)
  /\ ReturnedItems # <<>> /\ Enough(Collected)
  /\ allItems' = Collected /\ results' = Collected
  /\ reply' = "success" /\ at' = "done"
  /\ Release
  /\ UNCHANGED <<service, request, page, answer>>

NextPage ==
  /\ Returned /\ request.by = "batch" /\ Usable(ReturnedAnswer)
  /\ ReturnedItems # <<>> /\ ~Enough(Collected)
  /\ allItems' = Collected
  /\ page' = Smaller(page + 1, MaxPage)
  /\ at' = "ask"
  /\ Release
  /\ UNCHANGED <<service, request, answer, results, reply>>

----------------------------------------------------------------------------
\* The query command and the MCP tools

\* Faulty variant: only 200 is a success.
ExitCodeStrict(a) == IF a.error THEN "exit 20" ELSE IF CodeIs(a, {200}) THEN "exit 0" ELSE "exit 10"

\* The exit code of the query command: an answer without a code counts as one.
ExitCode(a) ==
  IF a.error THEN "exit 20"
  ELSE IF IsNumber(a.code) /\ a.code.n \notin {0, 200} THEN "exit 10"
  ELSE "exit 0"

CommandEnds ==
  /\ Returned /\ request.by = "command"
  /\ reply' = ExitCode(ReturnedAnswer) /\ at' = "done"
  /\ Release
  /\ UNCHANGED <<service, request, page, answer, allItems, results>>

\* A tool's result carries IsError when Query returned an error.
ToolReply(a) == IF a.error THEN "tool error" ELSE "tool result"

ToolEnds ==
  /\ Returned /\ request.by \in {"icp_query", "icp_blacklist"}
  /\ reply' = ToolReply(ReturnedAnswer) /\ at' = "done"
  /\ Release
  /\ UNCHANGED <<service, request, page, answer, allItems, results>>

----------------------------------------------------------------------------
FetchStep == (Fetch!MainStep \/ \E i \in 1..PageSize : Fetch!WorkerStep(i)) /\ UNCHANGED <<caller, service>>

\* A batch task is cancelled, or an MCP client gives up its call. The query
\* command runs with a context that is never done.
Cancel ==
  /\ at # "done" /\ request.by # "command"
  /\ Fetch!Cancel
  /\ UNCHANGED <<caller, service>>

CallerStep ==
  \/ Parse \/ Refuse \/ Answered \/ NotAnswered
  \/ PageFails \/ NoMoreItems \/ LastPage \/ NextPage
  \/ CommandEnds \/ ToolEnds

Done == at = "done" /\ UNCHANGED vars

Next == CallerStep \/ FetchStep \/ Cancel \/ Grow \/ Done

Spec == Init /\ [][Next]_vars

\* Goroutines run, and a request ends because the HTTP client has a timeout.
FairSpec ==
  /\ Spec
  /\ WF_vars(CallerStep)
  /\ WF_vars(Fetch!MainStep /\ UNCHANGED <<caller, service>>)
  /\ \A i \in 1..PageSize : WF_vars(Fetch!WorkerStep(i) /\ UNCHANGED <<caller, service>>)

----------------------------------------------------------------------------
\* Correctness

\* The type invariant, with that of DetailFetch.
TypeOK ==
  /\ Fetch!TypeOK
  /\ at \in {"parse", "ask", "read", "done"}
  /\ page \in 1..MaxPage
  /\ {allItems[i] : i \in 1..Len(allItems)} \subseteq Fetch!Slots
  /\ reply \in {"none", "refused", "success", "failure", "exit 0", "exit 10", "exit 20",
                "tool error", "tool result"}

\* Nobody writes to the list of an answer while the caller has it.
AnswersAreFinal == Fetch!PublishedIsFinal

\* The slots s are of the items at the indices S of items, each once and in order.
InOrder(s, items, S) ==
  \E f \in [1..Len(s) -> S] :
    /\ \A i, j \in 1..Len(s) : i < j => f[i] < f[j]
    /\ \A k \in S : \E i \in 1..Len(s) : f[i] = k
    /\ \A i \in 1..Len(s) : s[i].of = items[f[i]]

\* A keyword is whole or not there at all. The list of an answer has each of its
\* items or that item's detail, whichever details failed and whatever was
\* cancelled. From a service that is honest and a register that stands still a
\* batch task gets every object once and in order: all of them with auto_page and
\* else those of the first page. A page that fails leaves nothing of those before.
KeywordIsWhole ==
  LET wanted == IF request.auto THEN register ELSE SubSeq(register, 1, Smaller(PageSize, Len(register)))
      objects == {i \in 1..Len(wanted) : wanted[i] \notin NonObjects}
  IN /\ Fetch!PublishedIsWhole
     /\ honest /\ register = initially /\ results # <<>> => InOrder(results, wanted, objects)

\* A register that grows while it is paged through loses nothing: items are seen
\* twice when others are entered before them, but every object that was there at
\* the start is among the results, although the loop stops at a count of items.
GrowthLosesNothing ==
  honest /\ request.auto /\ reply = "success" =>
    \A i \in 1..Len(initially) : initially[i] \notin NonObjects =>
      \E j \in 1..Len(results) : results[j].of = initially[i]

\* The callers judge an answer differently in two places only. One is an answer
\* without a valid code: what a batch task counts as a success the command ends
\* with 0 and what it counts as a failure the command does not, that answer
\* excepted. The other is a code that says failure, which the tools hand on as a
\* result: they report an error exactly where the command reports one of the
\* network. The service's own failure, 500, or a rejected token, 401, is a success
\* for neither batch task nor command.
CallersDifferOnlyInCodes ==
  LET a == ReturnedAnswer
      hasVerdict == a.error \/ IsNumber(a.code)
  IN
  /\ reply = "success" => ExitCode(a) = "exit 0" /\ ToolReply(a) = "tool result"
  /\ reply = "failure" /\ hasVerdict => ExitCode(a) \in {"exit 10", "exit 20"}
  /\ reply = "exit 0" /\ hasVerdict => Usable(a)
  /\ reply \in {"exit 10", "exit 20"} => ~Usable(a)
  /\ reply \in {"exit 20", "tool error"} => ExitCode(a) = "exit 20" /\ ToolReply(a) = "tool error"
  /\ reply \in {"exit 0", "exit 10", "tool result"} => ExitCode(a) # "exit 20" /\ ToolReply(a) = "tool result"
  /\ reply \in {"success", "exit 0"} => ~CodeIs(answer, {401, 500})

\* The call ends: with an honest service, however its total compares with the
\* items that are objects, and with any other service once it is cancelled.
CallEnds == (honest \/ cancelled) ~> at = "done"

============================================================================
