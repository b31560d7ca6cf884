---------------------------- MODULE DetailFetch ----------------------------
(***************************************************************************)
(* fetchDetails of internal/beian/beian.go: the items of an answer that    *)
(* have a dataId are replaced by their details, each fetched by a          *)
(* goroutine of its own behind a weighted semaphore and written to its own *)
(* slot of a new list, which takes the place of the old one at the end.    *)
(* A detail that cannot be fetched leaves the item as it was.              *)
(***************************************************************************)
EXTENDS Naturals, Sequences, FiniteSets

CONSTANTS Items,       \* the items an answer can have
          WithId,      \* those that are objects with a dataId
          MaxItems,    \* bound: length of a list
          Concurrency  \* cfg.Concurrency

\* KeywordQuery, which instantiates this module, assumes this of its constants;
\* Config.Validate gives Concurrency its lower bound.
Assumptions ==
  /\ WithId \subseteq Items
  /\ MaxItems \in Nat \ {0} /\ Concurrency \in Nat \ {0}

Index == 1..MaxItems
Lists == UNION {[1..n -> Items] : n \in Index}

VARIABLES
  main,      \* where fetchDetails is
  list,      \* params["list"] as it came
  next,      \* the index its loop looks at
  cancelled, \* ctx is done
  work,      \* the goroutine of each index
  permits,   \* permits of the semaphore in use
  slot,      \* detailedList
  published  \* params["list"] is detailedList

vars == <<main, list, next, cancelled, work, permits, slot, published>>

Smaller(a, b) == IF a < b THEN a ELSE b
MaxCon == Smaller(Smaller(Concurrency, 20), Len(list))

\* What a slot can hold: nothing yet, or an item or its detail.
Slots == [is : {"empty"}, of : {"nothing"}] \cup [is : {"item", "detail"}, of : Items]
Empty == [is |-> "empty", of |-> "nothing"]
ItemOf(x) == [is |-> "item", of |-> x]
DetailOf(x) == [is |-> "detail", of |-> x]

NoWork == [i \in Index |-> "new"]
NoSlots == [i \in Index |-> Empty]

Init ==
  /\ main = "idle" /\ list = <<>> /\ next = 1 /\ cancelled = FALSE
  /\ work = NoWork /\ permits = 0 /\ slot = NoSlots /\ published = FALSE

\* getBeian calls fetchDetails with an answer that has items.
Begin(items) ==
  /\ main = "idle"
  /\ main' = "loop"
  /\ list' = items
  /\ UNCHANGED <<next, cancelled, work, permits, slot, published>>

\* The caller has done with the answer.
Release ==
  /\ main = "returned"
  /\ main' = "idle" /\ list' = <<>> /\ next' = 1
  /\ work' = NoWork /\ permits' = 0 /\ slot' = NoSlots /\ published' = FALSE
  /\ UNCHANGED cancelled

----------------------------------------------------------------------------
\* The loop over the items. It does not look at the context.

KeepPlain ==
  /\ main = "loop" /\ next <= Len(list) /\ list[next] \notin WithId
  /\ slot' = [slot EXCEPT ![next] = ItemOf(list[next])]
  /\ next' = next + 1
  /\ UNCHANGED <<main, list, cancelled, work, permits, published>>

Spawn ==
  /\ main = "loop" /\ next <= Len(list) /\ list[next] \in WithId
  /\ work' = [work EXCEPT ![next] = "acquire"]
  /\ next' = next + 1
  /\ UNCHANGED <<main, list, cancelled, permits, slot, published>>

LoopEnds ==
  /\ main = "loop" /\ next > Len(list)
  /\ main' = "wait"
  /\ UNCHANGED <<list, next, cancelled, work, permits, slot, published>>

\* Faulty variant: the list is put in place without waiting.
PublishEarly ==
  /\ main = "wait"
  /\ published' = TRUE
  /\ main' = "returned"
  /\ UNCHANGED <<list, next, cancelled, work, permits, slot>>

\* g.Wait returns, and the new list takes the place of the old one.
Publish ==
  /\ main = "wait"
  /\ \A i \in Index : work[i] \in {"new", "done"}
  /\ published' = TRUE
  /\ main' = "returned"
  /\ UNCHANGED <<list, next, cancelled, work, permits, slot>>

----------------------------------------------------------------------------
\* The goroutine of index i

\* Faulty variant: the goroutines start without the semaphore.
AcquireUnbounded(i) ==
  /\ work[i] = "acquire" /\ ~cancelled
  /\ permits' = permits + 1
  /\ work' = [work EXCEPT ![i] = "fetch"]
  /\ UNCHANGED <<main, list, next, cancelled, slot, published>>

Acquire(i) ==
  /\ work[i] = "acquire" /\ ~cancelled
  /\ permits < MaxCon
  /\ permits' = permits + 1
  /\ work' = [work EXCEPT ![i] = "fetch"]
  /\ UNCHANGED <<main, list, next, cancelled, slot, published>>

\* Faulty variant: a goroutine that gives up leaves its slot empty.
AcquireFailsEmpty(i) ==
  /\ work[i] = "acquire" /\ cancelled
  /\ work' = [work EXCEPT ![i] = "done"]
  /\ UNCHANGED <<main, list, next, cancelled, permits, slot, published>>

AcquireFails(i) ==
  /\ work[i] = "acquire" /\ cancelled
  /\ slot' = [slot EXCEPT ![i] = ItemOf(list[i])]
  /\ work' = [work EXCEPT ![i] = "done"]
  /\ UNCHANGED <<main, list, next, cancelled, permits, published>>

\* Faulty variant: only a goroutine with a detail releases its permit.
FetchReturnsLeaking(i) ==
  /\ work[i] = "fetch"
  /\ \/ slot' = [slot EXCEPT ![i] = DetailOf(list[i])] /\ permits' = permits - 1
     \/ slot' = [slot EXCEPT ![i] = ItemOf(list[i])] /\ permits' = permits
  /\ work' = [work EXCEPT ![i] = "done"]
  /\ UNCHANGED <<main, list, next, cancelled, published>>

\* The detail, or the item when its id is unusable, the request fails, the
\* answer says so or has no params; the permit is released in every case.
FetchReturns(i) ==
  /\ work[i] = "fetch"
  /\ \E s \in {DetailOf(list[i]), ItemOf(list[i])} : slot' = [slot EXCEPT ![i] = s]
  /\ permits' = permits - 1
  /\ work' = [work EXCEPT ![i] = "done"]
  /\ UNCHANGED <<main, list, next, cancelled, published>>

----------------------------------------------------------------------------
\* The caller's context: a cancelled batch task or tool call.
Cancel ==
  /\ ~cancelled
  /\ cancelled' = TRUE
  /\ UNCHANGED <<main, list, next, work, permits, slot, published>>

MainStep == KeepPlain \/ Spawn \/ LoopEnds \/ Publish
WorkerStep(i) == Acquire(i) \/ AcquireFails(i) \/ FetchReturns(i)

Next ==
  \/ \E items \in Lists : Begin(items)
  \/ MainStep
  \/ \E i \in Index : WorkerStep(i)
  \/ Release
  \/ Cancel

Spec == Init /\ [][Next]_vars

----------------------------------------------------------------------------
\* Correctness

\* The type invariant. No more permits are in use than the semaphore has, which
\* is never more than the 20 of the README nor than there are items.
TypeOK ==
  /\ main \in {"idle", "loop", "wait", "returned"}
  /\ list \in Lists \cup {<<>>}
  /\ next \in 1..(Len(list) + 1) /\ cancelled \in BOOLEAN
  /\ work \in [Index -> {"new", "acquire", "fetch", "done"}]
  /\ permits \in 0..MaxCon
  /\ slot \in [Index -> Slots]
  /\ published \in BOOLEAN

\* No item is lost, repeated or swapped with another, whatever its fetch came
\* to: the list the caller reads has for each index that item or its detail,
\* and nothing but the item where there was no dataId.
PublishedIsWhole ==
  published => \A i \in 1..Len(list) :
    slot[i] \in {ItemOf(list[i])} \cup (IF list[i] \in WithId THEN {DetailOf(list[i])} ELSE {})

\* Nobody writes to the list while the caller has it: fetchDetails does not
\* return before its last goroutine has.
PublishedIsFinal == [][published /\ published' => slot' = slot]_vars

============================================================================
