------------------------- MODULE KeywordQueryProofs -------------------------
(***************************************************************************)
(* Proofs about KeywordQuery, for every register, page size and number of  *)
(* permits, and for every service, honest or not: that a keyword is whole  *)
(* or not there at all, that a register which grows while it is paged      *)
(* through loses nothing, that the callers agree on what an answer means,  *)
(* and that nobody writes to an answer's list after it is handed over.     *)
(*                                                                         *)
(* First what fetchDetails keeps true from the moment it is called until   *)
(* its caller has read the list (FetchInv), for every list of items; then  *)
(* the caller and its pages.                                               *)
(***************************************************************************)
EXTENDS KeywordQuery, WellFoundedInduction, FunctionTheorems, FiniteSetTheorems, SequenceTheorems,
        TLAPS

\* The goroutines that hold a permit.
Fetching == {i \in Fetch!Index : work[i] = "fetch"}

----------------------------------------------------------------------------
\* The inductive invariant of fetchDetails, part by part

\* Each permit in use is held by a goroutine.
PermitsInv == permits = Cardinality(Fetching)

\* Nothing is left of an earlier answer, and the list is put in place when and
\* only when no goroutine is left.
PhaseInv ==
  /\ main = "idle" => list = <<>> /\ next = 1 /\ work = Fetch!NoWork
  /\ main \in {"wait", "returned"} => next = Len(list) + 1
  /\ published <=> main = "returned"
  /\ main = "returned" => \A i \in Fetch!Index : work[i] \in {"new", "done"}

\* The indices the loop has passed: their slot is written, by the loop for an
\* item without an id and else by the index' own goroutine when it is done.
SlotOK(i) ==
  IF list[i] \in WithId
  THEN /\ work[i] # "new"
       /\ work[i] = "done" => slot[i] \in {Fetch!ItemOf(list[i]), Fetch!DetailOf(list[i])}
  ELSE slot[i] = Fetch!ItemOf(list[i])

SlotsInv ==
  /\ \A i \in Fetch!Index : work[i] # "new" => i < next /\ list[i] \in WithId
  /\ \A i \in Fetch!Index : i < next => SlotOK(i)

FetchInv == Fetch!TypeOK /\ PermitsInv /\ PhaseInv /\ SlotsInv

----------------------------------------------------------------------------
\* Lists, indices and slots

LEMMA ConstantTyping ==
  /\ PageSize \in Nat /\ PageSize > 0
  /\ Concurrency \in Nat /\ Concurrency > 0
  /\ WithId \subseteq Items
  /\ Fetch!Index = 1..PageSize
<1>1. PageSize \in Nat /\ PageSize > 0
  BY PageSizeAssumption
<1>2. Concurrency \in Nat /\ Concurrency > 0 /\ WithId \subseteq Items
  BY FetchAssumptions DEF Fetch!Assumptions
<1> QED
  BY <1>1, <1>2 DEF Fetch!Index

LEMMA ListTyping ==
  ASSUME NEW items \in Fetch!Lists \cup {<<>>}
  PROVE  /\ items \in Seq(Items)
         /\ Len(items) \in 0..PageSize
         /\ \A i \in 1..Len(items) : items[i] \in Items /\ i \in Fetch!Index
<1>1. CASE items = <<>>
  BY <1>1, ConstantTyping
<1>2. CASE items \in Fetch!Lists
  <2>1. PICK n \in Fetch!Index : items \in [1..n -> Items]
    BY <1>2 DEF Fetch!Lists
  <2>2. n \in Nat /\ n <= PageSize
    BY <2>1, ConstantTyping
  <2>3. items \in Seq(Items) /\ Len(items) = n
    BY <2>1, <2>2
  <2>4. \A i \in 1..n : items[i] \in Items /\ i \in Fetch!Index
    BY <2>1, <2>2, ConstantTyping
  <2> QED
    BY <2>2, <2>3, <2>4
<1> QED
  BY <1>1, <1>2

LEMMA ListsAreSequences ==
  ASSUME NEW items \in Seq(Items), items # <<>>, Len(items) <= PageSize
  PROVE  items \in Fetch!Lists
<1>1. Len(items) \in Nat /\ Len(items) # 0
  OBVIOUS
<1>2. Len(items) \in Fetch!Index /\ items \in [1..Len(items) -> Items]
  BY <1>1, ConstantTyping
<1> QED
  BY <1>2 DEF Fetch!Lists

LEMMA SlotTyping ==
  ASSUME NEW x \in Items
  PROVE  /\ Fetch!ItemOf(x) \in Fetch!Slots /\ Fetch!DetailOf(x) \in Fetch!Slots
         /\ Fetch!ItemOf(x).is = "item" /\ Fetch!ItemOf(x).of = x
         /\ Fetch!DetailOf(x).is = "detail" /\ Fetch!DetailOf(x).of = x
BY DEF Fetch!ItemOf, Fetch!DetailOf, Fetch!Slots

LEMMA EmptyTyping == Fetch!NoSlots \in [Fetch!Index -> Fetch!Slots]
BY DEF Fetch!NoSlots, Fetch!Empty, Fetch!Slots

\* The permits the semaphore of a list has.
LEMMA MaxConTyping ==
  ASSUME NEW items \in Fetch!Lists \cup {<<>>}, list = items
  PROVE  Fetch!MaxCon \in Nat
BY ListTyping, ConstantTyping DEF Fetch!MaxCon, Fetch!Smaller

LEMMA FetchingTyping == IsFiniteSet(Fetching) /\ Cardinality(Fetching) \in Nat
<1>1. IsFiniteSet(1..PageSize)
  BY ConstantTyping, FS_Interval
<1>2. Fetching \subseteq 1..PageSize
  BY ConstantTyping DEF Fetching
<1> QED
  BY <1>1, <1>2, FS_Subset, FS_CardinalityType

\* What the invariant says of the types, spelled out.
LEMMA FetchTyping ==
  ASSUME FetchInv
  PROVE  /\ main \in {"idle", "loop", "wait", "returned"}
         /\ list \in Fetch!Lists \cup {<<>>}
         /\ list \in Seq(Items) /\ Len(list) \in 0..PageSize
         /\ \A i \in 1..Len(list) : list[i] \in Items /\ i \in Fetch!Index
         /\ next \in 1..(Len(list) + 1) /\ cancelled \in BOOLEAN
         /\ work \in [Fetch!Index -> {"new", "acquire", "fetch", "done"}]
         /\ permits \in 0..Fetch!MaxCon /\ Fetch!MaxCon \in Nat
         /\ slot \in [Fetch!Index -> Fetch!Slots]
         /\ published \in BOOLEAN
         /\ \A i \in Fetch!Index : i \in Nat
<1>1. list \in Fetch!Lists \cup {<<>>}
  BY DEF FetchInv, Fetch!TypeOK
<1>2. Fetch!MaxCon \in Nat
  BY <1>1, MaxConTyping
<1>3. \A i \in Fetch!Index : i \in Nat
  BY ConstantTyping
<1> QED
  BY <1>1, <1>2, <1>3, ListTyping DEF FetchInv, Fetch!TypeOK

----------------------------------------------------------------------------
\* The steps

LEMMA FetchInit == Fetch!Init => FetchInv
<1> SUFFICES ASSUME Fetch!Init PROVE FetchInv
  OBVIOUS
<1>1. /\ main = "idle" /\ list = <<>> /\ next = 1 /\ cancelled = FALSE
      /\ work = Fetch!NoWork /\ permits = 0 /\ slot = Fetch!NoSlots /\ published = FALSE
  BY DEF Fetch!Init
<1>2. Fetching = {}
  BY <1>1 DEF Fetching, Fetch!NoWork
<1>3. PermitsInv
  BY <1>1, <1>2, FS_EmptySet DEF PermitsInv
<1>4. Fetch!MaxCon \in Nat
  BY <1>1, MaxConTyping
<1>5. Fetch!NoWork \in [Fetch!Index -> {"new", "acquire", "fetch", "done"}]
  BY DEF Fetch!NoWork
<1>6. Fetch!TypeOK
  <2>1. Len(list) = 0
    BY <1>1
  <2>2. next \in 1..(Len(list) + 1) /\ permits \in 0..Fetch!MaxCon
    BY <1>1, <1>4, <2>1
  <2> QED
    BY <1>1, <1>5, <2>2, EmptyTyping DEF Fetch!TypeOK
<1>7. PhaseInv
  BY <1>1 DEF PhaseInv
<1>8. SlotsInv
  BY <1>1, ConstantTyping DEF SlotsInv, Fetch!NoWork
<1> QED
  BY <1>3, <1>6, <1>7, <1>8 DEF FetchInv

LEMMA FetchUnchanged == FetchInv /\ UNCHANGED details => FetchInv'
BY DEF details, FetchInv, Fetch!TypeOK, Fetch!MaxCon, PermitsInv, Fetching, PhaseInv, SlotsInv, SlotOK

LEMMA BeginStep ==
  ASSUME FetchInv, NEW items \in Fetch!Lists, Fetch!Begin(items)
  PROVE  FetchInv'
<1>1. /\ main = "idle" /\ main' = "loop" /\ list' = items
      /\ UNCHANGED <<next, cancelled, work, permits, slot, published>>
  BY DEF Fetch!Begin
<1>2. next = 1 /\ work = Fetch!NoWork /\ ~published
  BY <1>1 DEF FetchInv, PhaseInv
<1>3. Fetching = {} /\ Fetching' = {}
  BY <1>1, <1>2 DEF Fetching, Fetch!NoWork
<1>4. permits = 0 /\ PermitsInv'
  BY <1>1, <1>3, FS_EmptySet DEF FetchInv, PermitsInv
<1>5. Fetch!MaxCon' \in Nat /\ Len(items) \in Nat
  BY <1>1, ListTyping, ConstantTyping DEF Fetch!MaxCon, Fetch!Smaller
<1>6. Fetch!TypeOK'
  BY <1>1, <1>2, <1>4, <1>5 DEF FetchInv, Fetch!TypeOK
<1>7. PhaseInv'
  BY <1>1, <1>2 DEF PhaseInv
<1>8. SlotsInv'
  BY <1>1, <1>2, ConstantTyping DEF SlotsInv, Fetch!NoWork
<1> QED
  BY <1>4, <1>6, <1>7, <1>8 DEF FetchInv

LEMMA ReleaseStep ==
  ASSUME FetchInv, Fetch!Release
  PROVE  FetchInv' /\ main' = "idle"
<1>1. /\ main' = "idle" /\ list' = <<>> /\ next' = 1
      /\ work' = Fetch!NoWork /\ permits' = 0 /\ slot' = Fetch!NoSlots /\ published' = FALSE
      /\ cancelled' = cancelled
  BY DEF Fetch!Release
<1>2. Fetching' = {}
  BY <1>1 DEF Fetching, Fetch!NoWork
<1>3. PermitsInv'
  BY <1>1, <1>2, FS_EmptySet DEF PermitsInv
<1>4. Fetch!MaxCon' \in Nat
  BY <1>1, ConstantTyping DEF Fetch!MaxCon, Fetch!Smaller
<1>5. Fetch!NoWork \in [Fetch!Index -> {"new", "acquire", "fetch", "done"}]
  BY DEF Fetch!NoWork
<1>6. Fetch!TypeOK'
  <2>1. Len(list)' = 0
    BY <1>1
  <2>2. next' \in 1..(Len(list)' + 1) /\ permits' \in 0..Fetch!MaxCon'
    BY <1>1, <1>4, <2>1
  <2> QED
    BY <1>1, <1>5, <2>2, EmptyTyping DEF FetchInv, Fetch!TypeOK
<1>7. PhaseInv'
  BY <1>1 DEF PhaseInv
<1>8. SlotsInv'
  BY <1>1, ConstantTyping DEF SlotsInv, Fetch!NoWork
<1> QED
  BY <1>1, <1>3, <1>6, <1>7, <1>8 DEF FetchInv

LEMMA CancelStep == FetchInv /\ Fetch!Cancel => FetchInv'
BY DEF Fetch!Cancel, FetchInv, Fetch!TypeOK, Fetch!MaxCon, PermitsInv, Fetching, PhaseInv, SlotsInv, SlotOK

\* The loop writes the slot of an item without an id itself.
LEMMA KeepPlainStep ==
  ASSUME FetchInv, Fetch!KeepPlain
  PROVE  FetchInv'
<1>1. /\ main = "loop" /\ next <= Len(list) /\ list[next] \notin WithId
      /\ slot' = [slot EXCEPT ![next] = Fetch!ItemOf(list[next])]
      /\ next' = next + 1
      /\ UNCHANGED <<main, list, cancelled, work, permits, published>>
  BY DEF Fetch!KeepPlain
<1>2. next \in Fetch!Index /\ list[next] \in Items
  BY <1>1, FetchTyping
<1>3. Fetch!TypeOK'
  <2>1. slot' \in [Fetch!Index -> Fetch!Slots]
    BY <1>1, <1>2, FetchTyping, SlotTyping
  <2>2. next' \in 1..(Len(list) + 1)
    BY <1>1, FetchTyping
  <2> QED
    BY <1>1, <2>1, <2>2 DEF FetchInv, Fetch!TypeOK, Fetch!MaxCon
<1>4. PermitsInv' /\ PhaseInv'
  BY <1>1 DEF FetchInv, PermitsInv, Fetching, PhaseInv
<1>5. SlotsInv'
  <2>1. \A i \in Fetch!Index : work'[i] # "new" => i < next' /\ list'[i] \in WithId
    BY <1>1, FetchTyping DEF FetchInv, SlotsInv
  <2>2. \A i \in Fetch!Index : i = next => SlotOK(i)'
    BY <1>1, <1>2, FetchTyping DEF SlotOK
  <2>3. \A i \in Fetch!Index : i < next => SlotOK(i)'
    BY <1>1, <1>2, FetchTyping DEF FetchInv, SlotsInv, SlotOK
  <2>4. \A i \in Fetch!Index : i < next' => i < next \/ i = next
    BY <1>1, FetchTyping
  <2> QED
    BY <2>1, <2>2, <2>3, <2>4 DEF SlotsInv
<1> QED
  BY <1>3, <1>4, <1>5 DEF FetchInv

\* The loop starts a goroutine for an item with an id.
LEMMA SpawnStep ==
  ASSUME FetchInv, Fetch!Spawn
  PROVE  FetchInv'
<1>1. /\ main = "loop" /\ next <= Len(list) /\ list[next] \in WithId
      /\ work' = [work EXCEPT ![next] = "acquire"]
      /\ next' = next + 1
      /\ UNCHANGED <<main, list, cancelled, permits, slot, published>>
  BY DEF Fetch!Spawn
<1>2. next \in Fetch!Index
  BY <1>1, FetchTyping
<1>3. work[next] = "new"
  BY <1>2, FetchTyping DEF FetchInv, SlotsInv
<1>4. Fetch!TypeOK'
  <2>1. work' \in [Fetch!Index -> {"new", "acquire", "fetch", "done"}]
    BY <1>1, <1>2, FetchTyping
  <2>2. next' \in 1..(Len(list) + 1)
    BY <1>1, FetchTyping
  <2> QED
    BY <1>1, <2>1, <2>2 DEF FetchInv, Fetch!TypeOK, Fetch!MaxCon
<1>5. Fetching' = Fetching
  BY <1>1, <1>2, <1>3, FetchTyping DEF Fetching
<1>6. PermitsInv' /\ PhaseInv'
  BY <1>1, <1>5 DEF FetchInv, PermitsInv, PhaseInv
<1>7. SlotsInv'
  <2>1. \A i \in Fetch!Index : work'[i] # "new" => i < next' /\ list'[i] \in WithId
    BY <1>1, <1>2, FetchTyping DEF FetchInv, SlotsInv
  <2>2. \A i \in Fetch!Index : i = next => SlotOK(i)'
    BY <1>1, <1>2, FetchTyping DEF SlotOK
  <2>3. \A i \in Fetch!Index : i < next => SlotOK(i)'
    BY <1>1, <1>2, FetchTyping DEF FetchInv, SlotsInv, SlotOK
  <2>4. \A i \in Fetch!Index : i < next' => i < next \/ i = next
    BY <1>1, FetchTyping
  <2> QED
    BY <2>1, <2>2, <2>3, <2>4 DEF SlotsInv
<1> QED
  BY <1>4, <1>6, <1>7 DEF FetchInv

LEMMA LoopEndsStep ==
  ASSUME FetchInv, Fetch!LoopEnds
  PROVE  FetchInv'
<1>1. /\ main = "loop" /\ next > Len(list) /\ main' = "wait"
      /\ UNCHANGED <<list, next, cancelled, work, permits, slot, published>>
  BY DEF Fetch!LoopEnds
<1>2. next = Len(list) + 1
  BY <1>1, FetchTyping
<1>3. Fetch!TypeOK'
  BY <1>1 DEF FetchInv, Fetch!TypeOK, Fetch!MaxCon
<1>4. PermitsInv' /\ PhaseInv' /\ SlotsInv'
  BY <1>1, <1>2 DEF FetchInv, PermitsInv, Fetching, PhaseInv, SlotsInv, SlotOK
<1> QED
  BY <1>3, <1>4 DEF FetchInv

LEMMA PublishStep ==
  ASSUME FetchInv, Fetch!Publish
  PROVE  FetchInv'
<1>1. /\ main = "wait" /\ main' = "returned" /\ published' = TRUE
      /\ \A i \in Fetch!Index : work[i] \in {"new", "done"}
      /\ UNCHANGED <<list, next, cancelled, work, permits, slot>>
  BY DEF Fetch!Publish
<1>2. Fetch!TypeOK'
  BY <1>1 DEF FetchInv, Fetch!TypeOK, Fetch!MaxCon
<1>3. PermitsInv' /\ PhaseInv' /\ SlotsInv'
  BY <1>1 DEF FetchInv, PermitsInv, Fetching, PhaseInv, SlotsInv, SlotOK
<1> QED
  BY <1>2, <1>3 DEF FetchInv

----------------------------------------------------------------------------
\* The goroutines

\* A goroutine that is under way belongs to an item with an id, and its list is
\* not in place yet.
LEMMA WorkerTyping ==
  ASSUME FetchInv, NEW i \in Fetch!Index, work[i] \in {"acquire", "fetch"}
  PROVE  /\ i < next /\ list[i] \in WithId /\ list[i] \in Items
         /\ main # "idle" /\ main # "returned"
<1>1. i < next /\ list[i] \in WithId
  BY DEF FetchInv, SlotsInv
<1>2. main # "idle"
  BY DEF FetchInv, PhaseInv, Fetch!NoWork
<1>3. main # "returned"
  BY DEF FetchInv, PhaseInv
<1> QED
  BY <1>1, <1>2, <1>3, ConstantTyping

\* A goroutine moves on, and writes to no slot but its own: what is left to show
\* is that the permits are those of the goroutines that fetch.
LEMMA WorkerStep ==
  ASSUME FetchInv, NEW i \in Fetch!Index, work[i] \in {"acquire", "fetch"},
         NEW w \in {"acquire", "fetch", "done"}, NEW s \in Fetch!Slots,
         work' = [work EXCEPT ![i] = w], slot' = [slot EXCEPT ![i] = s],
         UNCHANGED <<main, list, next, cancelled, published>>,
         w = "done" => s \in {Fetch!ItemOf(list[i]), Fetch!DetailOf(list[i])},
         permits' \in 0..Fetch!MaxCon, PermitsInv'
  PROVE  FetchInv'
<1>1. /\ i < next /\ list[i] \in WithId /\ main # "idle" /\ main # "returned"
  BY WorkerTyping
<1>2. /\ work' \in [Fetch!Index -> {"new", "acquire", "fetch", "done"}]
      /\ slot' \in [Fetch!Index -> Fetch!Slots]
  BY FetchTyping
<1>3. Fetch!TypeOK'
  BY <1>2 DEF FetchInv, Fetch!TypeOK, Fetch!MaxCon
<1>4. PhaseInv'
  BY <1>1 DEF FetchInv, PhaseInv
<1>5. work'[i] = w /\ slot'[i] = s
  BY FetchTyping
<1>6. \A j \in Fetch!Index \ {i} : work'[j] = work[j] /\ slot'[j] = slot[j]
  BY FetchTyping
<1>7. SlotOK(i)'
  BY <1>1, <1>5 DEF SlotOK
<1>8. \A j \in Fetch!Index \ {i} : j < next => SlotOK(j)'
  BY <1>6 DEF FetchInv, SlotsInv, SlotOK
<1>9. SlotsInv'
  BY <1>1, <1>6, <1>7, <1>8 DEF FetchInv, SlotsInv
<1> QED
  BY <1>3, <1>4, <1>9 DEF FetchInv

LEMMA AcquireStep ==
  ASSUME FetchInv, NEW i \in Fetch!Index, Fetch!Acquire(i)
  PROVE  FetchInv'
<1>1. /\ work[i] = "acquire" /\ permits < Fetch!MaxCon
      /\ permits' = permits + 1
      /\ work' = [work EXCEPT ![i] = "fetch"]
      /\ UNCHANGED <<main, list, next, cancelled, slot, published>>
  BY DEF Fetch!Acquire
<1>2. slot[i] \in Fetch!Slots /\ slot' = [slot EXCEPT ![i] = slot[i]]
  BY <1>1, FetchTyping
<1>3. permits' \in 0..Fetch!MaxCon
  BY <1>1, FetchTyping
<1>4. Fetching' = Fetching \cup {i} /\ i \notin Fetching
  BY <1>1, FetchTyping DEF Fetching
<1>5. PermitsInv'
  BY <1>1, <1>4, FetchingTyping, FS_AddElement DEF FetchInv, PermitsInv
<1> QED
  BY <1>1, <1>2, <1>3, <1>5, WorkerStep

LEMMA AcquireFailsStep ==
  ASSUME FetchInv, NEW i \in Fetch!Index, Fetch!AcquireFails(i)
  PROVE  FetchInv'
<1>1. /\ work[i] = "acquire"
      /\ slot' = [slot EXCEPT ![i] = Fetch!ItemOf(list[i])]
      /\ work' = [work EXCEPT ![i] = "done"]
      /\ UNCHANGED <<main, list, next, cancelled, permits, published>>
  BY DEF Fetch!AcquireFails
<1>2. Fetch!ItemOf(list[i]) \in Fetch!Slots
  BY <1>1, WorkerTyping, SlotTyping
<1>3. Fetching' = Fetching
  BY <1>1, FetchTyping DEF Fetching
<1>4. PermitsInv' /\ permits' \in 0..Fetch!MaxCon
  BY <1>1, <1>3, FetchTyping DEF FetchInv, PermitsInv
<1> QED
  BY <1>1, <1>2, <1>4, WorkerStep

\* The permit is given back whatever the fetch came to.
LEMMA FetchReturnsStep ==
  ASSUME FetchInv, NEW i \in Fetch!Index, Fetch!FetchReturns(i)
  PROVE  FetchInv'
<1>1. /\ work[i] = "fetch"
      /\ permits' = permits - 1
      /\ work' = [work EXCEPT ![i] = "done"]
      /\ UNCHANGED <<main, list, next, cancelled, published>>
  BY DEF Fetch!FetchReturns
<1>2. PICK s \in {Fetch!DetailOf(list[i]), Fetch!ItemOf(list[i])} : slot' = [slot EXCEPT ![i] = s]
  BY DEF Fetch!FetchReturns
<1>3. s \in Fetch!Slots
  BY <1>1, <1>2, WorkerTyping, SlotTyping
<1>4. Fetching' = Fetching \ {i} /\ i \in Fetching
  BY <1>1, FetchTyping DEF Fetching
<1>5. PermitsInv' /\ permits' \in Nat
  <2>1. Cardinality(Fetching') = Cardinality(Fetching) - 1
    BY <1>4, FetchingTyping, FS_RemoveElement
  <2>2. IsFiniteSet(Fetching')
    BY <1>4, FetchingTyping, FS_RemoveElement
  <2>3. Cardinality(Fetching') \in Nat
    BY <2>2, FS_CardinalityType
  <2> QED
    BY <1>1, <2>1, <2>3 DEF FetchInv, PermitsInv
<1>6. permits' \in 0..Fetch!MaxCon
  BY <1>1, <1>5, FetchTyping
<1> QED
  BY <1>1, <1>2, <1>3, <1>5, <1>6, WorkerStep

\* A step of fetchDetails or of one of its goroutines.
LEMMA FetchStepInv ==
  ASSUME FetchInv, Fetch!MainStep \/ \E i \in 1..PageSize : Fetch!WorkerStep(i)
  PROVE  FetchInv'
<1>1. CASE Fetch!MainStep
  BY <1>1, KeepPlainStep, SpawnStep, LoopEndsStep, PublishStep DEF Fetch!MainStep
<1>2. CASE \E i \in 1..PageSize : Fetch!WorkerStep(i)
  <2>1. PICK i \in Fetch!Index : Fetch!WorkerStep(i)
    BY <1>2, ConstantTyping
  <2> QED
    BY <2>1, AcquireStep, AcquireFailsStep, FetchReturnsStep DEF Fetch!WorkerStep
<1> QED
  BY <1>1, <1>2

\* None of them touches a list that is in place.
LEMMA FetchStepFinal ==
  ASSUME FetchInv, Fetch!MainStep \/ \E i \in 1..PageSize : Fetch!WorkerStep(i)
  PROVE  ~published
<1>1. CASE Fetch!MainStep
  BY <1>1 DEF Fetch!MainStep, Fetch!KeepPlain, Fetch!Spawn, Fetch!LoopEnds, Fetch!Publish,
              FetchInv, PhaseInv
<1>2. CASE \E i \in 1..PageSize : Fetch!WorkerStep(i)
  <2>1. PICK i \in Fetch!Index : Fetch!WorkerStep(i)
    BY <1>2, ConstantTyping
  <2>2. work[i] \in {"acquire", "fetch"}
    BY <2>1 DEF Fetch!WorkerStep, Fetch!Acquire, Fetch!AcquireFails, Fetch!FetchReturns
  <2> QED
    BY <2>1, <2>2, WorkerTyping DEF FetchInv, PhaseInv
<1> QED
  BY <1>1, <1>2

\* A list that is in place is whole: each index has its item or its detail.
LEMMA PublishedListIsWhole == FetchInv => Fetch!PublishedIsWhole
<1> SUFFICES ASSUME FetchInv, published, NEW i \in 1..Len(list)
             PROVE  slot[i] \in {Fetch!ItemOf(list[i])} \cup
                      (IF list[i] \in WithId THEN {Fetch!DetailOf(list[i])} ELSE {})
  BY DEF Fetch!PublishedIsWhole
<1>1. main = "returned" /\ next = Len(list) + 1 /\ i \in Fetch!Index
  BY FetchTyping DEF FetchInv, PhaseInv
<1>2. SlotOK(i) /\ work[i] \in {"new", "done"}
  BY <1>1, FetchTyping DEF FetchInv, SlotsInv, PhaseInv
<1> QED
  BY <1>2 DEF SlotOK

----------------------------------------------------------------------------
\* Induction over an interval, from the order of the natural numbers being well
\* founded

LEMMA LeastElement ==
  ASSUME NEW T \in SUBSET Nat, T # {}
  PROVE  \E x \in T : \A y \in T : x <= y
<1> DEFINE R == {ss \in Nat \X Nat : ss[1] < ss[2]}
<1>1. IsWellFoundedOn(R, Nat)
  BY NatLessThanWellFounded DEF OpToRel
<1>2. \A x, y \in Nat : <<y, x>> \in R <=> y < x
  OBVIOUS
<1> HIDE DEF R
<1>3. PICK x \in T : \A y \in T : <<y, x>> \notin R
  BY <1>1, WFMin
<1>4. \A y \in T : ~(y < x)
  BY <1>2, <1>3
<1>5. \A y \in T : x <= y
  BY <1>4
<1> QED
  BY <1>5

LEMMA IntervalInduction ==
  ASSUME NEW N \in Nat, NEW T, 0 \in T, \A n \in 1..N : n - 1 \in T => n \in T
  PROVE  \A n \in 0..N : n \in T
<1> DEFINE Bad == {n \in 0..N : n \notin T}
<1> SUFFICES ASSUME Bad # {} PROVE FALSE
  OBVIOUS
<1>1. PICK n \in Bad : \A k \in Bad : n <= k
  <2>1. Bad \in SUBSET Nat
    OBVIOUS
  <2> HIDE DEF Bad
  <2> QED
    BY <2>1, LeastElement
<1>2. n \in 1..N
  BY <1>1
<1>3. n - 1 \in 0..N /\ n - 1 \notin Bad
  BY <1>1, <1>2
<1> QED
  BY <1>1, <1>2, <1>3

----------------------------------------------------------------------------
\* The objects of a sequence

\* The loop of queryOne over the items of an answer, after each of them.
KeptUpTo(s) ==
  LET kept[n \in 0..Len(s)] ==
        IF n = 0 THEN <<>>
        ELSE IF IsObject(s[n]) THEN Append(kept[n - 1], s[n]) ELSE kept[n - 1]
  IN kept

\* What the loop has after n items.
KeptNext(g, s, n) == IF IsObject(s[n]) THEN Append(g[n - 1], s[n]) ELSE g[n - 1]

LEMMA ObjectsAreKept ==
  ASSUME NEW s
  PROVE  /\ Objects(s) = KeptUpTo(s)[Len(s)]
         /\ KeptUpTo(s) = CHOOSE g : g = [n \in 0..Len(s) |-> IF n = 0 THEN <<>> ELSE KeptNext(g, s, n)]
BY DEF Objects, KeptUpTo, KeptNext

\* The recursion has a solution, so the loop's sequences are determined by it.
LEMMA KeptEquation ==
  ASSUME NEW s, Len(s) \in Nat
  PROVE  /\ KeptUpTo(s)[0] = <<>>
         /\ \A n \in 1..Len(s) : KeptUpTo(s)[n] = KeptNext(KeptUpTo(s), s, n)
<1> DEFINE Solves(g, m) == g = [n \in 0..m |-> IF n = 0 THEN <<>> ELSE KeptNext(g, s, n)]
<1>1. \E g : Solves(g, 0)
  <2> DEFINE g0 == [n \in 0..0 |-> <<>>]
  <2>1. \A n \in 0..0 : n = 0
    OBVIOUS
  <2>2. Solves(g0, 0)
    BY <2>1
  <2> HIDE DEF Solves, g0
  <2> QED
    BY <2>2
<1>2. ASSUME NEW m \in 1..Len(s), NEW g, Solves(g, m - 1)
      PROVE  \E h : Solves(h, m)
  <2> DEFINE h == [n \in 0..m |-> IF n = m THEN KeptNext(g, s, m) ELSE g[n]]
  <2>1. \A n \in 0..(m - 1) : n \in 0..m /\ n # m
    OBVIOUS
  <2>2. m \in 0..m /\ \A n \in 0..m : n = m \/ n \in 0..(m - 1)
    OBVIOUS
  <2>3. h[m] = KeptNext(g, s, m) /\ \A n \in 0..(m - 1) : h[n] = g[n]
    BY <2>1, <2>2
  <2>4. \A n \in 1..m : n - 1 \in 0..(m - 1) /\ KeptNext(h, s, n) = KeptNext(g, s, n)
    BY <2>3 DEF KeptNext
  <2>5. \A n \in 0..(m - 1) : g[n] = IF n = 0 THEN <<>> ELSE KeptNext(g, s, n)
    BY <1>2, Zenon
  <2>6. \A n \in 0..m : n = 0 \/ n \in 1..m
    OBVIOUS
  <2>7. \A n \in 0..m : h[n] = IF n = 0 THEN <<>> ELSE KeptNext(h, s, n)
    <3> SUFFICES ASSUME NEW n \in 0..m
                 PROVE  h[n] = IF n = 0 THEN <<>> ELSE KeptNext(h, s, n)
      OBVIOUS
    <3> HIDE DEF h
    <3>1. CASE n = m
      BY <2>3, <2>4, <2>6, <3>1
    <3>2. CASE n \in 0..(m - 1)
      BY <2>3, <2>4, <2>5, <2>6, <3>2
    <3> QED
      BY <2>2, <3>1, <3>2
  <2>8. h = [n \in 0..m |-> h[n]]
    OBVIOUS
  <2>9. Solves(h, m)
    <3> HIDE DEF h
    <3> QED
      BY <2>7, <2>8, Zenon
  <2> HIDE DEF Solves, h
  <2> QED
    BY <2>9
<1>3. \E g : Solves(g, Len(s))
  <2> DEFINE T == {m \in 0..Len(s) : \E g : Solves(g, m)}
  <2> HIDE DEF Solves
  <2>1. 0 \in T
    BY <1>1
  <2>2. \A m \in 1..Len(s) : m - 1 \in T => m \in T
    BY <1>2
  <2> HIDE DEF T
  <2>3. \A n \in 0..Len(s) : n \in T
    BY <2>1, <2>2, IntervalInduction
  <2>4. Len(s) \in T
    BY <2>3
  <2> QED
    BY <2>4 DEF T
<1>4. Solves(KeptUpTo(s), Len(s))
  BY <1>3, ObjectsAreKept
<1> QED
  BY <1>4

\* The objects are slots, no more than the slots were, and none is lost.
LEMMA ObjectsTyping ==
  ASSUME NEW s \in Seq(Fetch!Slots)
  PROVE  /\ Objects(s) \in Seq(Fetch!Slots)
         /\ Len(Objects(s)) <= Len(s)
         /\ \A i \in 1..Len(s) : IsObject(s[i]) => \E j \in 1..Len(Objects(s)) : Objects(s)[j] = s[i]
<1> DEFINE K == KeptUpTo(s)
           T == {n \in 0..Len(s) :
                   /\ K[n] \in Seq(Fetch!Slots) /\ Len(K[n]) <= n
                   /\ \A i \in 1..n : IsObject(s[i]) => \E j \in 1..Len(K[n]) : K[n][j] = s[i]}
<1>1. Len(s) \in Nat /\ \A i \in 1..Len(s) : s[i] \in Fetch!Slots
  OBVIOUS
<1> HIDE DEF K
<1>2. K[0] = <<>> /\ \A n \in 1..Len(s) : K[n] = KeptNext(K, s, n)
  BY <1>1, KeptEquation DEF K
<1>3. 0 \in T
  <2>1. Len(K[0]) = 0 /\ K[0] \in Seq(Fetch!Slots) /\ 0 \in 0..Len(s)
    BY <1>1, <1>2
  <2> QED
    BY <2>1
<1>4. ASSUME NEW n \in 1..Len(s), n - 1 \in T
      PROVE  n \in T
  <2> DEFINE k == K[n - 1]
  <2>1. /\ k \in Seq(Fetch!Slots) /\ Len(k) <= n - 1 /\ Len(k) \in Nat
        /\ \A i \in 1..(n - 1) : IsObject(s[i]) => \E j \in 1..Len(k) : k[j] = s[i]
    BY <1>4
  <2>2. \A i \in 1..n : i \in 1..(n - 1) \/ i = n
    OBVIOUS
  <2>3. CASE IsObject(s[n])
    <3>1. K[n] = Append(k, s[n])
      BY <1>2, <2>3 DEF KeptNext
    <3> HIDE DEF k
    <3>2. /\ K[n] \in Seq(Fetch!Slots) /\ Len(K[n]) = Len(k) + 1
          /\ \A j \in 1..Len(k) : K[n][j] = k[j]
          /\ K[n][Len(k) + 1] = s[n]
      BY <1>1, <2>1, <3>1
    <3>3. ASSUME NEW i \in 1..n, IsObject(s[i])
          PROVE  \E j \in 1..Len(K[n]) : K[n][j] = s[i]
      <4>1. CASE i = n
        BY <2>1, <3>2, <4>1
      <4>2. CASE i \in 1..(n - 1)
        BY <2>1, <3>2, <3>3, <4>2
      <4> QED
        BY <2>2, <4>1, <4>2
    <3> QED
      BY <2>1, <3>2, <3>3
  <2>4. CASE ~IsObject(s[n])
    <3>1. K[n] = k
      BY <1>2, <2>4 DEF KeptNext
    <3> QED
      BY <2>1, <2>2, <2>4, <3>1
  <2> QED
    BY <2>3, <2>4
<1>5. Len(s) \in T
  <2>1. \A n \in 1..Len(s) : n - 1 \in T => n \in T
    BY <1>4
  <2> HIDE DEF T
  <2>2. \A n \in 0..Len(s) : n \in T
    BY <1>1, <1>3, <2>1, IntervalInduction
  <2> QED
    BY <1>1, <2>2
<1> QED
  BY <1>5, ObjectsAreKept DEF K

LEMMA AppendToConcat ==
  ASSUME NEW a \in Seq(Fetch!Slots), NEW k \in Seq(Fetch!Slots), NEW x \in Fetch!Slots
  PROVE  /\ a \o Append(k, x) = Append(a \o k, x)
         /\ Append(k, x) \in Seq(Fetch!Slots) /\ a \o k \in Seq(Fetch!Slots)
<1>1. <<x>> \in Seq(Fetch!Slots) /\ a \o k \in Seq(Fetch!Slots)
  BY ConcatProperties
<1>2. Append(k, x) = k \o <<x>> /\ Append(a \o k, x) = (a \o k) \o <<x>>
  BY <1>1, AppendIsConcat
<1>3. (a \o k) \o <<x>> = a \o (k \o <<x>>)
  BY <1>1, ConcatAssociative
<1>4. Append(k, x) \in Seq(Fetch!Slots)
  BY AppendProperties
<1> QED
  BY <1>1, <1>2, <1>3, <1>4

\* One more item at the end of what is in order.
LEMMA InOrderAppend ==
  ASSUME NEW t \in Seq(Fetch!Slots), NEW x \in Fetch!Slots, NEW items,
         NEW S \in SUBSET Nat, NEW v \in Nat, \A k \in S : k < v,
         InOrder(t, items, S), x.of = items[v]
  PROVE  InOrder(Append(t, x), items, S \cup {v})
<1>1. Len(t) \in Nat
  OBVIOUS
<1>2. PICK f \in [1..Len(t) -> S] :
        /\ \A i, j \in 1..Len(t) : i < j => f[i] < f[j]
        /\ \A k \in S : \E i \in 1..Len(t) : f[i] = k
        /\ \A i \in 1..Len(t) : t[i].of = items[f[i]]
  BY DEF InOrder
<1> DEFINE u == Append(t, x)
           g == [i \in 1..(Len(t) + 1) |-> IF i = Len(t) + 1 THEN v ELSE f[i]]
<1>3. /\ Len(u) = Len(t) + 1 /\ u[Len(t) + 1] = x
      /\ \A i \in 1..Len(t) : u[i] = t[i]
  OBVIOUS
<1>4. /\ g \in [1..(Len(t) + 1) -> S \cup {v}]
      /\ g[Len(t) + 1] = v
      /\ \A i \in 1..Len(t) : g[i] = f[i] /\ f[i] \in S
  BY <1>1, <1>2
<1> HIDE DEF u, g
<1>5. \A i \in 1..(Len(t) + 1) : i \in 1..Len(t) \/ i = Len(t) + 1
  BY <1>1
<1>6. \A i, j \in 1..(Len(t) + 1) : i < j => g[i] < g[j]
  <2> SUFFICES ASSUME NEW i \in 1..(Len(t) + 1), NEW j \in 1..(Len(t) + 1), i < j
               PROVE  g[i] < g[j]
    OBVIOUS
  <2>1. i \in 1..Len(t)
    BY <1>1
  <2>2. CASE j \in 1..Len(t)
    BY <1>2, <1>4, <2>1, <2>2
  <2>3. CASE j = Len(t) + 1
    BY <1>4, <2>1, <2>3
  <2> QED
    BY <1>5, <2>2, <2>3
<1>7. \A k \in S \cup {v} : \E i \in 1..(Len(t) + 1) : g[i] = k
  <2> SUFFICES ASSUME NEW k \in S \cup {v} PROVE \E i \in 1..(Len(t) + 1) : g[i] = k
    OBVIOUS
  <2>1. CASE k = v
    BY <1>1, <1>4, <2>1
  <2>2. CASE k \in S
    <3>1. PICK i \in 1..Len(t) : f[i] = k
      BY <1>2, <2>2
    <3> QED
      BY <1>1, <1>4, <3>1
  <2> QED
    BY <2>1, <2>2
<1>8. \A i \in 1..(Len(t) + 1) : u[i].of = items[g[i]]
  BY <1>2, <1>3, <1>4, <1>5
<1>9. InOrder(u, items, S \cup {v})
  <2>1. /\ g \in [1..Len(u) -> S \cup {v}]
        /\ \A i, j \in 1..Len(u) : i < j => g[i] < g[j]
        /\ \A k \in S \cup {v} : \E i \in 1..Len(u) : g[i] = k
        /\ \A i \in 1..Len(u) : u[i].of = items[g[i]]
    BY <1>3, <1>4, <1>6, <1>7, <1>8, Zenon
  <2> QED
    BY <2>1, Zenon DEF InOrder
<1> QED
  BY <1>9 DEF u

\* The indices of O up to m.
Upto(O, m) == {k \in O : 1 <= k /\ k <= m}

LEMMA UptoNext ==
  ASSUME NEW O \in SUBSET Nat, NEW v \in Nat, v >= 1
  PROVE  /\ Upto(O, v - 1) \in SUBSET Nat /\ \A k \in Upto(O, v - 1) : k < v
         /\ v \in O => Upto(O, v) = Upto(O, v - 1) \cup {v}
         /\ v \notin O => Upto(O, v) = Upto(O, v - 1)
<1>1. \A k \in O : k \in Nat /\ (k <= v <=> k <= v - 1 \/ k = v) /\ (k <= v - 1 => k < v)
  OBVIOUS
<1> QED
  BY <1>1 DEF Upto

\* The objects of one more page continue what is in order: items are those at the
\* indices m + 1 .. m + Len(s), and O are the indices of objects.
LEMMA InOrderPage ==
  ASSUME NEW a \in Seq(Fetch!Slots), NEW s \in Seq(Fetch!Slots), NEW items,
         NEW O \in SUBSET Nat, NEW m \in Nat,
         \A i \in 1..Len(s) : s[i].of = items[m + i] /\ (IsObject(s[i]) <=> m + i \in O),
         InOrder(a, items, Upto(O, m))
  PROVE  InOrder(a \o Objects(s), items, Upto(O, m + Len(s)))
<1> DEFINE K == KeptUpTo(s)
           Kept(n) == K[n] \in Seq(Fetch!Slots) /\ InOrder(a \o K[n], items, Upto(O, m + n))
           T == {n \in 0..Len(s) : Kept(n)}
<1>1. Len(s) \in Nat /\ \A i \in 1..Len(s) : s[i] \in Fetch!Slots
  OBVIOUS
<1> HIDE DEF K
<1>2. K[0] = <<>> /\ \A n \in 1..Len(s) : K[n] = KeptNext(K, s, n)
  BY <1>1, KeptEquation DEF K
<1>3. Kept(0)
  <2>1. a \o K[0] = a /\ K[0] \in Seq(Fetch!Slots) /\ m + 0 = m
    BY <1>1, <1>2
  <2> QED
    BY <2>1
<1>4. ASSUME NEW n \in 1..Len(s), Kept(n - 1)
      PROVE  Kept(n)
  <2>1. n \in Nat /\ m + n \in Nat /\ m + n >= 1 /\ (m + n) - 1 = m + (n - 1)
    BY <1>1
  <2>2. K[n - 1] \in Seq(Fetch!Slots) /\ InOrder(a \o K[n - 1], items, Upto(O, (m + n) - 1))
    BY <1>4, <2>1
  <2>3. s[n] \in Fetch!Slots /\ s[n].of = items[m + n] /\ (IsObject(s[n]) <=> m + n \in O)
    BY <1>1
  <2>4. CASE IsObject(s[n])
    <3>1. K[n] = Append(K[n - 1], s[n])
      BY <1>2, <2>4 DEF KeptNext
    <3>2. /\ a \o K[n] = Append(a \o K[n - 1], s[n]) /\ K[n] \in Seq(Fetch!Slots)
          /\ a \o K[n - 1] \in Seq(Fetch!Slots)
      <4>1. \A k \in Seq(Fetch!Slots), x \in Fetch!Slots :
              /\ a \o Append(k, x) = Append(a \o k, x)
              /\ Append(k, x) \in Seq(Fetch!Slots) /\ a \o k \in Seq(Fetch!Slots)
        BY AppendToConcat
      <4>2. /\ a \o Append(K[n - 1], s[n]) = Append(a \o K[n - 1], s[n])
            /\ Append(K[n - 1], s[n]) \in Seq(Fetch!Slots) /\ a \o K[n - 1] \in Seq(Fetch!Slots)
        BY <2>2, <2>3, <4>1, Zenon
      <4> QED
        BY <3>1, <4>2, Zenon
    <3>3. InOrder(Append(a \o K[n - 1], s[n]), items, Upto(O, (m + n) - 1) \cup {m + n})
      BY <2>1, <2>2, <2>3, <3>2, UptoNext, InOrderAppend
    <3> QED
      BY <2>1, <2>3, <2>4, <3>2, <3>3, UptoNext
  <2>5. CASE ~IsObject(s[n])
    <3>1. K[n] = K[n - 1]
      BY <1>2, <2>5 DEF KeptNext
    <3>2. Upto(O, m + n) = Upto(O, (m + n) - 1)
      BY <2>1, <2>3, <2>5, UptoNext
    <3> QED
      BY <2>2, <3>1, <3>2
  <2> QED
    BY <2>4, <2>5
<1>5. Kept(Len(s))
  <2> HIDE DEF Kept
  <2>1. 0 \in T
    BY <1>1, <1>3
  <2>2. \A n \in 1..Len(s) : n - 1 \in T => n \in T
    BY <1>1, <1>4
  <2> HIDE DEF T
  <2>3. \A n \in 0..Len(s) : n \in T
    BY <1>1, <2>1, <2>2, IntervalInduction
  <2>4. Len(s) \in T
    BY <1>1, <2>3
  <2> QED
    BY <2>4 DEF T
<1> QED
  BY <1>5, ObjectsAreKept DEF K

\* What is in order is so in every sequence of items that has the same ones at its
\* indices.
LEMMA InOrderElsewhere ==
  ASSUME NEW t, NEW items, NEW others, NEW S, InOrder(t, items, S),
         \A k \in S : items[k] = others[k]
  PROVE  InOrder(t, others, S)
<1>1. PICK f \in [1..Len(t) -> S] :
        /\ \A i, j \in 1..Len(t) : i < j => f[i] < f[j]
        /\ \A k \in S : \E i \in 1..Len(t) : f[i] = k
        /\ \A i \in 1..Len(t) : t[i].of = items[f[i]]
  BY DEF InOrder
<1>2. \A i \in 1..Len(t) : t[i].of = others[f[i]]
  BY <1>1
<1> QED
  BY <1>1, <1>2 DEF InOrder

LEMMA InOrderEmpty ==
  ASSUME NEW items
  PROVE  InOrder(<<>>, items, {})
<1> DEFINE f == [i \in 1..0 |-> i]
<1>1. f \in [1..Len(<<>>) -> {}]
  OBVIOUS
<1> QED
  BY <1>1 DEF InOrder

----------------------------------------------------------------------------
\* The inductive invariant, part by part

\* What Query may hold between the service's answer and the caller.
Values == [is : {"other", "number", "string"}, n : Int]
AnswerSet ==
  {a \in [error : BOOLEAN, code : Values, items : Seq(Items), total : Values] :
     Len(a.items) <= PageSize}
Requests == [by : Callers, type : Types, auto : BOOLEAN]

\* The caller: only a batch task pages, and what it has collected is of items. Its
\* DetailFetch works on the answer it is about to read, and on nothing else.
CallerInv ==
  /\ request \in Requests /\ (request.auto => request.by = "batch")
  /\ at \in {"parse", "ask", "read", "done"}
  /\ page \in 1..MaxPage /\ (~request.auto => page = 1)
  /\ answer \in AnswerSet
  /\ allItems \in Seq(Fetch!Slots) /\ results \in Seq(Fetch!Slots)
  /\ at # "done" => reply = "none" /\ results = <<>>
  /\ at # "read" => main = "idle"
  /\ main # "idle" => list = answer.items

\* The index before the first one of a page.
Before(p) == (p - 1) * PageSize

\* A batch task asks an honest service for no page behind the first one that is
\* past the end of the register.
PagingIsBounded == honest => Before(page) < Len(register) + PageSize

\* The service: the register only grows, pages follow its end, and what an honest one answers is a page
\* of it as it still is when the caller reads the answer.
ServiceInv ==
  /\ honest \in BOOLEAN
  /\ register \in Seq(Items) /\ Len(register) <= MaxGrowth
  /\ initially \in Seq(Items) /\ Len(initially) <= Len(register)
  /\ honest /\ at = "read" => answer \in HonestAnswers \cup {Failed}
  /\ PagingIsBounded

\* The reply is what the caller's own rules make of the answer.
ReplyInv ==
  /\ reply \in {"none", "refused", "success", "failure", "exit 0", "exit 10", "exit 20",
                "tool error", "tool result"}
  /\ reply = "success" => Usable(ReturnedAnswer)
  /\ reply = "failure" => ~Usable(ReturnedAnswer)
  /\ reply \in {"exit 0", "exit 10", "exit 20"} => reply = ExitCode(ReturnedAnswer)
  /\ reply \in {"tool error", "tool result"} => reply = ToolReply(ReturnedAnswer)

\* The objects of a register.
ObjectsOf(r) == {k \in 1..Len(r) : r[k] \notin NonObjects}

\* An item is among what was collected, or is still ahead of the page.
IsAmong(x, s) == \E j \in 1..Len(s) : s[j].of = x
IsAhead(x, p) == \E k \in 1..Len(register) : register[k] = x /\ Before(p) < k

\* Paging through an honest service: while the register stands still, what was
\* collected are the objects of the pages before, and while it grows, whatever was
\* there at the start was collected or is still ahead.
PagesInv ==
  honest /\ at # "done" =>
    /\ Len(allItems) <= Before(page)
    /\ register = initially => InOrder(allItems, register, Upto(ObjectsOf(register), Before(page)))
    /\ \A k \in ObjectsOf(initially) : IsAmong(initially[k], allItems) \/ IsAhead(initially[k], page)

\* What the caller was after.
Wanted == IF request.auto THEN Len(register) ELSE PageSize

DoneInv ==
  honest /\ at = "done" =>
    /\ register = initially /\ results # <<>> =>
         InOrder(results, register, Upto(ObjectsOf(register), Wanted))
    /\ request.auto /\ reply = "success" =>
         \A k \in ObjectsOf(initially) : IsAmong(initially[k], results)

IInv == FetchInv /\ CallerInv /\ ServiceInv /\ ReplyInv /\ PagesInv /\ DoneInv

----------------------------------------------------------------------------
\* Pages

LEMMA BoundTyping ==
  /\ MaxPage \in Nat /\ MaxPage >= 1 /\ MaxGrowth \in Nat /\ PageSize \in Nat /\ PageSize >= 1
  /\ MaxGrowth <= Before(MaxPage)
<1>1. MaxPage \in Nat /\ MaxGrowth \in Nat /\ MaxGrowth <= (MaxPage - 1) * PageSize
  BY BoundsAssumption
<1>2. PageSize \in Nat /\ PageSize >= 1
  BY PageSizeAssumption
<1>3. MaxPage >= 1
  BY <1>1, <1>2
<1> QED
  BY <1>1, <1>2, <1>3 DEF Before

LEMMA BeforeTyping ==
  ASSUME NEW p \in Nat, p >= 1
  PROVE  /\ Before(p) \in Nat
         /\ Before(1) = 0
         /\ Before(p + 1) = Before(p) + PageSize
         /\ (p - 1) * PageSize = Before(p) /\ p * PageSize = Before(p) + PageSize
<1>1. PageSize \in Nat /\ PageSize >= 1
  BY PageSizeAssumption
<1>2. (p - 1) * PageSize \in Nat
  BY <1>1
<1>3. (1 - 1) * PageSize = 0
  BY <1>1
<1>4. p * PageSize = (p - 1) * PageSize + PageSize
  BY <1>1
<1>5. (p + 1) - 1 = p
  OBVIOUS
<1> QED
  BY <1>2, <1>3, <1>4, <1>5 DEF Before

\* A page is what the register has after the pages before it.
LEMMA PageTyping ==
  ASSUME register \in Seq(Items), NEW p \in Nat, p >= 1
  PROVE  /\ PageOf(p) \in Seq(Items) /\ Len(PageOf(p)) \in 0..PageSize
         /\ Len(register) <= Before(p) => PageOf(p) = <<>>
         /\ Before(p) < Len(register) =>
              /\ Len(PageOf(p)) > 0
              /\ Before(p) + Len(PageOf(p)) <= Len(register)
              /\ Before(p) + Len(PageOf(p)) = Before(p) + PageSize \/ Before(p) + Len(PageOf(p)) = Len(register)
         /\ \A i \in 1..Len(PageOf(p)) : PageOf(p)[i] = register[Before(p) + i]
<1> DEFINE b == Before(p)
           n == Smaller(p * PageSize, Len(register))
<1>1. /\ b \in Nat /\ PageSize \in Nat /\ PageSize >= 1 /\ Len(register) \in Nat
      /\ (p - 1) * PageSize = b /\ p * PageSize = b + PageSize
  <2>1. PageSize \in Nat /\ PageSize >= 1 /\ Len(register) \in Nat
    BY BoundTyping
  <2>2. b \in Nat /\ (p - 1) * PageSize = b /\ p * PageSize = b + PageSize
    BY BeforeTyping
  <2> QED
    BY <2>1, <2>2
<1>2. PageOf(p) = SubSeq(register, b + 1, n)
  BY <1>1 DEF PageOf
<1>3. n \in Nat /\ n <= Len(register) /\ n <= b + PageSize /\ (n = b + PageSize \/ n = Len(register))
  BY <1>1 DEF Smaller
<1> HIDE DEF b, n
<1>4. \A i \in (b + 1)..n : register[i] \in Items
  BY <1>1, <1>3
<1>5. /\ PageOf(p) \in Seq(Items)
      /\ Len(PageOf(p)) = IF b + 1 <= n THEN n - (b + 1) + 1 ELSE 0
      /\ \A i \in 1..(n - (b + 1) + 1) : PageOf(p)[i] = register[(b + 1) + i - 1]
  BY <1>1, <1>2, <1>3, <1>4, SubSeqProperties
<1>6. Len(PageOf(p)) = IF b < n THEN n - b ELSE 0
  BY <1>1, <1>3, <1>5
<1>7. Len(PageOf(p)) = 0 => PageOf(p) = <<>>
  BY <1>5
<1>8. \A i \in 1..Len(PageOf(p)) : PageOf(p)[i] = register[b + i]
  <2> SUFFICES ASSUME NEW i \in 1..Len(PageOf(p)) PROVE PageOf(p)[i] = register[b + i]
    OBVIOUS
  <2>1. i \in 1..(n - (b + 1) + 1) /\ (b + 1) + i - 1 = b + i
    BY <1>1, <1>3, <1>6
  <2> QED
    BY <1>5, <2>1
<1>9. /\ Len(PageOf(p)) \in 0..PageSize
      /\ Len(register) <= b => Len(PageOf(p)) = 0
      /\ b < Len(register) =>
           /\ Len(PageOf(p)) > 0
           /\ b + Len(PageOf(p)) = n
  BY <1>1, <1>3, <1>6
<1>10. b < Len(register) => b + Len(PageOf(p)) <= Len(register)
  BY <1>3, <1>9
<1> QED
  BY <1>3, <1>5, <1>7, <1>8, <1>9, <1>10 DEF b

----------------------------------------------------------------------------
\* Answers

LEMMA AnswerTyping ==
  ASSUME NEW code \in Values, NEW items \in Seq(Items), NEW total \in Values, Len(items) <= PageSize
  PROVE  /\ Answer(code, items, total) \in AnswerSet
         /\ Answer(code, items, total).error = FALSE
         /\ Answer(code, items, total).code = code
         /\ Answer(code, items, total).items = items
         /\ Answer(code, items, total).total = total
BY DEF Answer, AnswerSet

LEMMA ValueTyping ==
  ASSUME NEW n \in Int
  PROVE  /\ Number(n) \in Values /\ Numeral(n) \in Values /\ NoNumber \in Values
         /\ IsNumber(Number(n)) /\ IsNumber(Numeral(n)) /\ ~IsNumber(NoNumber)
         /\ Number(n).n = n /\ Numeral(n).n = n
BY DEF Number, Numeral, NoNumber, IsNumber, Values

LEMMA FailedTyping ==
  /\ Failed \in AnswerSet /\ Failed.error = TRUE /\ Failed.items = <<>>
  /\ ~IsNumber(Failed.code)
<1>1. Failed \in [error : BOOLEAN, code : Values, items : Seq(Items), total : Values]
  BY ValueTyping DEF Failed
<1>2. Failed.error = TRUE /\ Failed.items = <<>> /\ Failed.code = NoNumber
  BY DEF Failed
<1>3. Len(Failed.items) = 0
  BY <1>2
<1> QED
  BY <1>1, <1>2, <1>3, ValueTyping, BoundTyping DEF AnswerSet

\* Normalize turns a 500 into a 122 without items and leaves everything else.
LEMMA NormalizeEffect ==
  ASSUME NEW a \in AnswerSet
  PROVE  /\ CodeIs(a, {500}) => /\ Normalize(a).items = <<>> /\ Normalize(a).error = FALSE
                                /\ IsNumber(Normalize(a).code) /\ Normalize(a).code.n = 122
         /\ ~CodeIs(a, {500}) => Normalize(a) = a
<1>1. <<>> \in Seq(Items) /\ Len(<<>>) <= PageSize
  BY BoundTyping
<1>2. Number(122) \in Values /\ NoNumber \in Values /\ IsNumber(Number(122)) /\ Number(122).n = 122
  BY ValueTyping
<1>3. CASE CodeIs(a, {500})
  <2>1. Normalize(a) = Answer(Number(122), <<>>, NoNumber)
    BY <1>3 DEF Normalize
  <2>2. Normalize(a).items = <<>> /\ Normalize(a).error = FALSE /\ Normalize(a).code = Number(122)
    BY <2>1 DEF Answer
  <2> QED
    BY <1>2, <1>3, <2>2
<1>4. CASE ~CodeIs(a, {500})
  BY <1>4 DEF Normalize
<1> QED
  BY <1>3, <1>4

----------------------------------------------------------------------------
\* What the caller reads

\* A slot of a list that is in place stands for its item.
LEMMA SlotMeaning ==
  ASSUME NEW x \in Items,
         NEW t \in {Fetch!ItemOf(x)} \cup (IF x \in WithId THEN {Fetch!DetailOf(x)} ELSE {})
  PROVE  t \in Fetch!Slots /\ t.of = x /\ (IsObject(t) <=> x \notin NonObjects)
<1>1. CASE t = Fetch!ItemOf(x)
  BY <1>1, SlotTyping DEF IsObject
<1>2. CASE x \in WithId /\ t = Fetch!DetailOf(x)
  <2>1. x \notin NonObjects
    BY <1>2, NonObjectsAssumption
  <2> QED
    BY <1>2, <2>1, SlotTyping DEF IsObject
<1> QED
  BY <1>1, <1>2

\* The items that Query returns are those of the answer, in its order, or none when
\* the service answered 500.
LEMMA ReturnedTyping ==
  ASSUME FetchInv, CallerInv, Returned
  PROVE  /\ ReturnedItems \in Seq(Fetch!Slots)
         /\ ReturnedAnswer.items = <<>> => ReturnedItems = <<>>
         /\ ReturnedAnswer.items # <<>> =>
              /\ ReturnedItems # <<>> /\ Len(ReturnedItems) = Len(answer.items)
              /\ \A i \in 1..Len(answer.items) :
                   /\ ReturnedItems[i].of = answer.items[i]
                   /\ IsObject(ReturnedItems[i]) <=> answer.items[i] \notin NonObjects
<1>1. /\ answer \in AnswerSet /\ answer.items \in Seq(Items) /\ Len(answer.items) \in Nat
      /\ \A i \in 1..Len(answer.items) : answer.items[i] \in Items
  BY DEF CallerInv, AnswerSet
<1>2. ReturnedAnswer.items = <<>> => ReturnedItems = <<>>
  BY DEF ReturnedItems
<1>3. CASE ReturnedAnswer.items = <<>>
  BY <1>2, <1>3
<1>4. CASE ReturnedAnswer.items # <<>>
  <2>1. answer.items # <<>> /\ Len(answer.items) > 0
    <3>1. ReturnedAnswer = answer
      BY <1>1, <1>4, NormalizeEffect DEF ReturnedAnswer
    <3>2. Len(answer.items) # 0
      BY <1>1, <1>4, <3>1, EmptySeq
    <3> QED
      BY <1>1, <1>4, <3>1, <3>2
  <2>2. CASE main = "returned"
    <3>1. list = answer.items /\ published
      BY <2>2 DEF CallerInv, FetchInv, PhaseInv
    <3>2. \A i \in 1..Len(list) :
            slot[i] \in {Fetch!ItemOf(list[i])} \cup
              (IF list[i] \in WithId THEN {Fetch!DetailOf(list[i])} ELSE {})
      BY <3>1, PublishedListIsWhole DEF Fetch!PublishedIsWhole
    <3>3. \A i \in 1..Len(list) :
            /\ slot[i] \in Fetch!Slots /\ slot[i].of = list[i]
            /\ IsObject(slot[i]) <=> list[i] \notin NonObjects
      BY <1>1, <3>1, <3>2, SlotMeaning
    <3>4. ReturnedItems = SubSeq(slot, 1, Len(list))
      BY <1>4, <2>2 DEF ReturnedItems
    <3>5. /\ ReturnedItems \in Seq(Fetch!Slots)
          /\ Len(ReturnedItems) = IF 1 <= Len(list) THEN Len(list) - 1 + 1 ELSE 0
          /\ \A i \in 1..(Len(list) - 1 + 1) : ReturnedItems[i] = slot[1 + i - 1]
      BY <1>1, <3>1, <3>3, <3>4, SubSeqProperties
    <3>6. Len(ReturnedItems) = Len(list) /\ \A i \in 1..Len(list) : ReturnedItems[i] = slot[i]
      BY <1>1, <2>1, <3>1, <3>5
    <3>7. ReturnedItems # <<>>
      BY <2>1, <3>1, <3>6
    <3> QED
      BY <1>2, <3>1, <3>3, <3>5, <3>6, <3>7
  <2>3. CASE main # "returned"
    <3>1. ReturnedItems = [i \in 1..Len(answer.items) |-> Fetch!ItemOf(answer.items[i])]
      BY <1>4, <2>3 DEF ReturnedItems
    <3>2. \A i \in 1..Len(answer.items) :
            /\ Fetch!ItemOf(answer.items[i]) \in Fetch!Slots
            /\ Fetch!ItemOf(answer.items[i]).of = answer.items[i]
            /\ IsObject(Fetch!ItemOf(answer.items[i])) <=> answer.items[i] \notin NonObjects
      BY <1>1, SlotMeaning
    <3>3. ReturnedItems \in Seq(Fetch!Slots) /\ Len(ReturnedItems) = Len(answer.items)
      BY <1>1, <3>1, <3>2
    <3>4. ReturnedItems # <<>>
      BY <2>1, <3>3
    <3> QED
      BY <1>2, <3>1, <3>2, <3>3, <3>4
  <2> QED
    BY <2>2, <2>3
<1> QED
  BY <1>3, <1>4

\* An honest answer that is used is the page the caller asked for, with the length
\* of the register as its total.
LEMMA HonestAnswer ==
  ASSUME CallerInv, ServiceInv, Returned, honest, Usable(ReturnedAnswer)
  PROVE  /\ ReturnedAnswer = answer /\ answer.items = PageOf(page)
         /\ IsNumber(answer.total) /\ answer.total.n = Len(register)
<1>1. answer \in HonestAnswers \cup {Failed} /\ answer \in AnswerSet
  BY DEF ServiceInv, CallerInv, Returned
<1>2. /\ page \in Nat /\ page >= 1 /\ register \in Seq(Items) /\ Len(register) \in Nat
  BY BoundTyping DEF CallerInv, ServiceInv
<1>3. PageOf(page) \in Seq(Items) /\ Len(PageOf(page)) <= PageSize
  BY <1>2, PageTyping, BoundTyping
<1>4. /\ Number(200) \in Values /\ Number(500) \in Values /\ Number(401) \in Values
      /\ NoNumber \in Values /\ Numeral(Len(register)) \in Values
      /\ Number(200).n = 200 /\ Number(500).n = 500 /\ Number(401).n = 401
      /\ IsNumber(Number(500)) /\ IsNumber(Numeral(Len(register)))
      /\ Numeral(Len(register)).n = Len(register)
  BY <1>2, ValueTyping
<1>5. ~CodeIs(answer, {500}) => ReturnedAnswer = answer
  BY <1>1, NormalizeEffect DEF ReturnedAnswer
<1>6. CodeIs(answer, {500}) => ReturnedAnswer.code.n = 122
  BY <1>1, NormalizeEffect DEF ReturnedAnswer
<1>7. ReturnedAnswer.error = FALSE /\ ReturnedAnswer.code.n \in {0, 200}
  BY DEF Usable, CodeIs, ReturnedAnswer, Normalize, Answer
<1>8. ReturnedAnswer = answer
  BY <1>5, <1>6, <1>7
<1>9. answer # Failed
  BY <1>7, <1>8, FailedTyping
<1>10. /\ Answer(Number(500), <<>>, NoNumber).code.n = 500
       /\ Answer(Number(401), <<>>, NoNumber).code.n = 401
  BY <1>4 DEF Answer
<1>11. answer = Answer(Number(200), PageOf(page), Numeral(Len(register)))
  BY <1>1, <1>7, <1>8, <1>9, <1>10 DEF HonestAnswers
<1>12. answer.items = PageOf(page) /\ answer.total = Numeral(Len(register))
  BY <1>11 DEF Answer
<1> QED
  BY <1>4, <1>8, <1>12

----------------------------------------------------------------------------
\* One more page of an honest service

\* Past the end of the register there are no more objects.
LEMMA UptoAll ==
  ASSUME register \in Seq(Items), NEW m \in Nat, Len(register) <= m
  PROVE  Upto(ObjectsOf(register), m) = ObjectsOf(register)
<1>1. Len(register) \in Nat
  OBVIOUS
<1>2. \A k \in 1..Len(register) : 1 <= k /\ k <= m
  BY <1>1
<1> QED
  BY <1>2 DEF Upto, ObjectsOf

\* The page the caller reads.
LEMMA HonestPage ==
  ASSUME FetchInv, CallerInv, ServiceInv, Returned, honest, Usable(ReturnedAnswer)
  PROVE  /\ page \in Nat /\ page >= 1 /\ Before(page) \in Nat /\ Len(register) \in Nat
         /\ ReturnedItems = <<>> => Len(register) <= Before(page)
         /\ ReturnedItems # <<>> =>
              /\ page < MaxPage
              /\ Len(ReturnedItems) \in 1..PageSize
              /\ Before(page) + Len(ReturnedItems) <= Len(register)
              /\ Len(ReturnedItems) = PageSize \/ Before(page) + Len(ReturnedItems) = Len(register)
              /\ \A i \in 1..Len(ReturnedItems) :
                   /\ ReturnedItems[i].of = register[Before(page) + i]
                   /\ IsObject(ReturnedItems[i]) <=> Before(page) + i \in ObjectsOf(register)
<1>1. /\ page \in Nat /\ page >= 1 /\ page <= MaxPage /\ register \in Seq(Items)
      /\ Len(register) \in Nat /\ Len(register) <= MaxGrowth
  BY BoundTyping DEF CallerInv, ServiceInv
<1>2. Before(page) \in Nat
  BY <1>1, BeforeTyping
<1> DEFINE b == Before(page)
           n == Len(ReturnedItems)
<1>3. ReturnedAnswer = answer /\ answer.items = PageOf(page)
  BY HonestAnswer
<1>4. CASE ReturnedItems = <<>>
  <2>1. PageOf(page) = <<>>
    BY <1>3, <1>4, ReturnedTyping
  <2>2. Len(PageOf(page)) = 0
    BY <2>1
  <2>3. ~(b < Len(register))
    BY <1>1, <2>2, PageTyping
  <2> HIDE DEF b
  <2>4. Len(register) <= b
    BY <1>1, <1>2, <2>3 DEF b
  <2> QED
    BY <1>1, <1>2, <1>4, <2>4 DEF b
<1>5. CASE ReturnedItems # <<>>
  <2>1. PageOf(page) # <<>>
    BY <1>3, <1>5, ReturnedTyping
  <2>2. b < Len(register)
    BY <1>1, <1>2, <2>1, PageTyping
  <2>3. n = Len(PageOf(page)) /\ PageSize \in Nat
    BY <1>3, <2>1, ReturnedTyping, BoundTyping
  <2>4. /\ n > 0 /\ n \in 0..PageSize /\ b + n <= Len(register)
        /\ b + n = b + PageSize \/ b + n = Len(register)
        /\ \A i \in 1..n : PageOf(page)[i] = register[b + i]
    BY <1>1, <2>2, <2>3, PageTyping
  <2>5. \A i \in 1..n : /\ ReturnedItems[i].of = PageOf(page)[i]
                        /\ IsObject(ReturnedItems[i]) <=> PageOf(page)[i] \notin NonObjects
    BY <1>3, <2>1, <2>3, ReturnedTyping
  <2>6. page < MaxPage
    <3>1. page # MaxPage
      <4> SUFFICES ASSUME page = MaxPage PROVE FALSE
        OBVIOUS
      <4>1. MaxGrowth <= Before(page) /\ MaxGrowth \in Nat
        BY BoundTyping
      <4> QED
        BY <1>1, <1>2, <2>2, <4>1
    <3> QED
      BY <1>1, <3>1, BoundTyping
  <2> HIDE DEF b, n
  <2>7. n \in 1..PageSize /\ (n = PageSize \/ b + n = Len(register))
    BY <1>2, <2>3, <2>4 DEF b
  <2>8. b \in Nat
    BY <1>2 DEF b
  <2>9. \A i \in 1..n : b + i \in 1..Len(register)
    BY <1>1, <2>4, <2>7, <2>8
  <2>10. \A i \in 1..n : /\ ReturnedItems[i].of = register[b + i]
                         /\ IsObject(ReturnedItems[i]) <=> b + i \in ObjectsOf(register)
    BY <2>4, <2>5, <2>9 DEF ObjectsOf
  <2> QED
    BY <1>1, <1>2, <1>5, <2>4, <2>6, <2>7, <2>10 DEF b, n
<1> QED
  BY <1>4, <1>5

\* What is collected stays of items.
LEMMA CollectedTyping ==
  ASSUME FetchInv, CallerInv, Returned
  PROVE  Collected \in Seq(Fetch!Slots)
<1>1. allItems \in Seq(Fetch!Slots) /\ Objects(ReturnedItems) \in Seq(Fetch!Slots)
  BY ReturnedTyping, ObjectsTyping DEF CallerInv
<1>2. allItems \o Objects(ReturnedItems) \in Seq(Fetch!Slots)
  BY <1>1, ConcatProperties
<1> QED
  BY <1>1, <1>2 DEF Collected

\* With the objects of its page, the caller is where it has to be at the next one.
LEMMA PageCollected ==
  ASSUME FetchInv, CallerInv, ServiceInv, PagesInv, Returned, honest,
         Usable(ReturnedAnswer), ReturnedItems # <<>>
  PROVE  /\ Collected \in Seq(Fetch!Slots) /\ Len(Collected) \in Nat
         /\ Len(Collected) <= Before(page + 1)
         /\ register = initially =>
              InOrder(Collected, register, Upto(ObjectsOf(register), Before(page + 1)))
         /\ \A k \in ObjectsOf(initially) :
              IsAmong(initially[k], Collected) \/ IsAhead(initially[k], page + 1)
<1> DEFINE b == Before(page)
           n == Len(ReturnedItems)
           kept == Objects(ReturnedItems)
<1>1. /\ page \in Nat /\ page >= 1 /\ b \in Nat /\ Len(register) \in Nat
      /\ page < MaxPage /\ n \in 1..PageSize /\ PageSize \in Nat
      /\ b + n <= Len(register)
      /\ n = PageSize \/ b + n = Len(register)
      /\ \A i \in 1..n : /\ ReturnedItems[i].of = register[b + i]
                         /\ IsObject(ReturnedItems[i]) <=> b + i \in ObjectsOf(register)
  BY HonestPage, BoundTyping
<1>2. Before(page + 1) = b + PageSize
  BY <1>1, BeforeTyping
<1>3. Collected = allItems \o kept
  BY <1>1, BoundTyping DEF Collected
<1>4. /\ ReturnedItems \in Seq(Fetch!Slots) /\ kept \in Seq(Fetch!Slots) /\ Len(kept) <= n
      /\ \A i \in 1..n : IsObject(ReturnedItems[i]) => \E j \in 1..Len(kept) : kept[j] = ReturnedItems[i]
  BY ReturnedTyping, ObjectsTyping
<1>5. /\ allItems \in Seq(Fetch!Slots) /\ Len(allItems) \in Nat /\ Len(kept) \in Nat
      /\ register \in Seq(Items) /\ Len(allItems) <= b
  BY <1>4 DEF CallerInv, ServiceInv, PagesInv, Returned
<1> HIDE DEF b, n, kept
<1>6. /\ Collected \in Seq(Fetch!Slots) /\ Len(Collected) = Len(allItems) + Len(kept)
      /\ \A i \in 1..Len(allItems) : Collected[i] = allItems[i]
      /\ \A j \in 1..Len(kept) : Collected[Len(allItems) + j] = kept[j]
  <2>1. /\ Collected \in Seq(Fetch!Slots) /\ Len(Collected) = Len(allItems) + Len(kept)
        /\ \A i \in 1..(Len(allItems) + Len(kept)) :
             Collected[i] = IF i <= Len(allItems) THEN allItems[i] ELSE kept[i - Len(allItems)]
    BY <1>3, <1>4, <1>5, ConcatProperties
  <2> QED
    BY <1>5, <2>1
<1>7. Len(Collected) \in Nat /\ Len(Collected) <= Before(page + 1)
  BY <1>1, <1>2, <1>4, <1>5, <1>6
<1>8. ASSUME register = initially
      PROVE  InOrder(Collected, register, Upto(ObjectsOf(register), Before(page + 1)))
  <2>1. InOrder(allItems, register, Upto(ObjectsOf(register), b))
    BY <1>8 DEF PagesInv, Returned, b
  <2>2. ObjectsOf(register) \in SUBSET Nat
    BY DEF ObjectsOf
  <2>3. InOrder(Collected, register, Upto(ObjectsOf(register), b + n))
    BY <1>1, <1>3, <1>4, <1>5, <2>1, <2>2, InOrderPage DEF n, kept
  <2>4. Upto(ObjectsOf(register), b + n) = Upto(ObjectsOf(register), Before(page + 1))
    <3>1. CASE n = PageSize
      BY <1>2, <3>1
    <3>2. CASE b + n = Len(register)
      <4>1. b + n \in Nat /\ Before(page + 1) \in Nat /\ Len(register) <= Before(page + 1)
        BY <1>1, <1>2, <3>2
      <4> QED
        BY <1>5, <3>2, <4>1, UptoAll
    <3> QED
      BY <1>1, <3>1, <3>2
  <2> QED
    BY <2>3, <2>4
<1>9. ASSUME NEW k \in ObjectsOf(initially)
      PROVE  IsAmong(initially[k], Collected) \/ IsAhead(initially[k], page + 1)
  <2>1. IsAmong(initially[k], allItems) \/ IsAhead(initially[k], page)
    BY <1>9 DEF PagesInv, Returned
  <2>2. CASE IsAmong(initially[k], allItems)
    <3>1. PICK j \in 1..Len(allItems) : allItems[j].of = initially[k]
      BY <2>2 DEF IsAmong
    <3>2. j \in 1..Len(Collected) /\ Collected[j].of = initially[k]
      BY <1>5, <1>6, <3>1
    <3> QED
      BY <3>2 DEF IsAmong
  <2>3. CASE IsAhead(initially[k], page)
    <3>1. PICK r \in 1..Len(register) : register[r] = initially[k] /\ b < r
      BY <2>3 DEF IsAhead, b
    <3>2. CASE r <= b + n
      <4>1. r - b \in 1..n /\ b + (r - b) = r
        BY <1>1, <3>1, <3>2
      <4>2. r \in ObjectsOf(register)
        BY <3>1, <1>9 DEF ObjectsOf
      <4>3. PICK j \in 1..Len(kept) : kept[j] = ReturnedItems[r - b]
        BY <1>1, <1>4, <4>1, <4>2
      <4>4. kept[j].of = initially[k]
        BY <1>1, <3>1, <4>1, <4>3
      <4>5. Len(allItems) + j \in 1..Len(Collected) /\ Collected[Len(allItems) + j].of = initially[k]
        BY <1>5, <1>6, <4>4
      <4> QED
        BY <4>5 DEF IsAmong
    <3>3. CASE ~(r <= b + n)
      <4>1. n = PageSize /\ b + PageSize < r
        BY <1>1, <3>1, <3>3
      <4> QED
        BY <1>2, <3>1, <4>1 DEF IsAhead
    <3> QED
      BY <3>2, <3>3
  <2> QED
    BY <2>1, <2>2, <2>3
<1> QED
  BY <1>6, <1>7, <1>8, <1>9

----------------------------------------------------------------------------
\* The steps

LEMMA InitInv == Init => IInv
<1> SUFFICES ASSUME Init PROVE IInv
  OBVIOUS
<1>1. FetchInv /\ main = "idle"
  BY FetchInit DEF Init, Fetch!Init
<1>2. /\ at = "parse" /\ initially = register /\ honest \in BOOLEAN
      /\ page = 1 /\ answer = Failed /\ allItems = <<>> /\ results = <<>> /\ reply = "none"
  BY DEF Init
<1>3. request \in Requests /\ (request.auto => request.by = "batch")
  BY DEF Init, Requests
<1>4. register \in Seq(Items) /\ Len(register) <= MaxGrowth
  <2>1. CASE register \in Registers
    BY <2>1, RegistersAssumption
  <2>2. CASE register = <<>>
    <3>1. Len(register) = 0 /\ register \in Seq(Items)
      BY <2>2
    <3> QED
      BY <3>1, BoundTyping
  <2> QED
    BY <2>1, <2>2 DEF Init
<1>5. CallerInv
  BY <1>1, <1>2, <1>3, BoundTyping, FailedTyping DEF CallerInv
<1>6. ServiceInv
  <2>1. PagingIsBounded
    <3>1. Before(page) = 0
      BY <1>2, BeforeTyping
    <3> QED
      BY <1>4, <3>1, BoundTyping DEF PagingIsBounded
  <2> QED
    BY <1>2, <1>4, <2>1 DEF ServiceInv
<1>7. ReplyInv
  BY <1>2 DEF ReplyInv
<1>8. DoneInv
  BY <1>2 DEF DoneInv
<1>9. PagesInv
  <2>1. Before(page) = 0 /\ Len(allItems) = 0
    BY <1>2, BeforeTyping
  <2>2. Upto(ObjectsOf(register), 0) = {}
    BY DEF Upto, ObjectsOf
  <2>3. InOrder(allItems, register, Upto(ObjectsOf(register), Before(page)))
    BY <1>2, <2>1, <2>2, InOrderEmpty
  <2>4. \A k \in ObjectsOf(initially) : IsAhead(initially[k], page)
    <3>1. \A k \in ObjectsOf(initially) : k \in 1..Len(register) /\ register[k] = initially[k] /\ 0 < k
      BY <1>2, <1>4 DEF ObjectsOf
    <3> QED
      BY <2>1, <3>1 DEF IsAhead
  <2> QED
    BY <2>1, <2>3, <2>4 DEF PagesInv
<1> QED
  BY <1>1, <1>5, <1>6, <1>7, <1>8, <1>9 DEF IInv

\* Unchanged variables leave what was said of them as it was.
LEMMA SameService ==
  ASSUME UNCHANGED <<honest, register, initially, page>>
  PROVE  HonestAnswers' = HonestAnswers /\ \A x, p : IsAhead(x, p)' = IsAhead(x, p)
BY DEF HonestAnswers, PageOf, IsAhead

LEMMA DetailsOnly ==
  ASSUME IInv, UNCHANGED <<caller, service>>, FetchInv',
         (at # "read" => main' = "idle") /\ (main' # "idle" => list' = answer.items)
  PROVE  IInv'
<1>1. UNCHANGED <<request, at, page, answer, allItems, results, reply, honest, register, initially>>
  BY DEF caller, service
<1>2. CallerInv'
  BY <1>1 DEF IInv, CallerInv
<1>3. ServiceInv'
  BY <1>1, SameService DEF IInv, ServiceInv, PagingIsBounded
<1>4. ReplyInv'
  BY <1>1 DEF IInv, ReplyInv, ReturnedAnswer
<1>5. PagesInv'
  BY <1>1, SameService DEF IInv, PagesInv, IsAhead
<1>6. DoneInv'
  BY <1>1 DEF IInv, DoneInv, Wanted
<1> QED
  BY <1>2, <1>3, <1>4, <1>5, <1>6 DEF IInv

LEMMA FetchStepStep ==
  ASSUME IInv, FetchStep
  PROVE  IInv'
<1>1. /\ Fetch!MainStep \/ \E i \in 1..PageSize : Fetch!WorkerStep(i)
      /\ UNCHANGED <<caller, service>>
  BY DEF FetchStep
<1>2. FetchInv'
  BY <1>1, FetchStepInv DEF IInv
<1>3. list' = list /\ main # "idle"
  <2>1. CASE Fetch!MainStep
    BY <2>1 DEF Fetch!MainStep, Fetch!KeepPlain, Fetch!Spawn, Fetch!LoopEnds, Fetch!Publish
  <2>2. CASE \E i \in 1..PageSize : Fetch!WorkerStep(i)
    <3>1. PICK i \in Fetch!Index : Fetch!WorkerStep(i)
      BY <2>2, ConstantTyping
    <3>2. list' = list /\ work[i] \in {"acquire", "fetch"}
      BY <3>1 DEF Fetch!WorkerStep, Fetch!Acquire, Fetch!AcquireFails, Fetch!FetchReturns
    <3> QED
      BY <3>2, WorkerTyping DEF IInv
  <2> QED
    BY <1>1, <2>1, <2>2
<1>4. at = "read" /\ list = answer.items
  BY <1>3 DEF IInv, CallerInv
<1> QED
  BY <1>1, <1>2, <1>3, <1>4, DetailsOnly

LEMMA CancelKeywordStep ==
  ASSUME IInv, Cancel
  PROVE  IInv'
<1>1. FetchInv' /\ UNCHANGED <<main, list>> /\ UNCHANGED <<caller, service>>
  BY CancelStep DEF Cancel, IInv, Fetch!Cancel
<1> QED
  BY <1>1, DetailsOnly DEF IInv, CallerInv

LEMMA StutterStep ==
  ASSUME IInv, UNCHANGED vars
  PROVE  IInv'
<1>1. UNCHANGED details /\ UNCHANGED <<caller, service>> /\ UNCHANGED <<main, list>>
  BY DEF vars, details
<1>2. FetchInv'
  BY <1>1, FetchUnchanged DEF IInv
<1> QED
  BY <1>1, <1>2, DetailsOnly DEF IInv, CallerInv

\* The caller has read an answer and lets go of its list.
LEMMA ReleaseEffect ==
  ASSUME IInv, Returned, Release
  PROVE  FetchInv' /\ main' = "idle"
<1>1. CASE main = "returned"
  BY <1>1, ReleaseStep DEF Release, IInv
<1>2. CASE main # "returned"
  <2>1. UNCHANGED details /\ main = "idle"
    BY <1>2 DEF Release, Returned
  <2> QED
    BY <2>1, FetchUnchanged DEF IInv, details
<1> QED
  BY <1>1, <1>2

----------------------------------------------------------------------------
\* The caller before it has an answer

LEMMA ParseStep ==
  ASSUME IInv, Parse
  PROVE  IInv'
<1>1. /\ at = "parse" /\ at' = "ask"
      /\ UNCHANGED details
      /\ UNCHANGED <<honest, register, initially, request, page, answer, allItems, results, reply>>
  BY DEF Parse, service
<1>2. FetchInv' /\ main' = main
  BY <1>1, FetchUnchanged DEF IInv, details
<1>3. CallerInv'
  BY <1>1, <1>2 DEF IInv, CallerInv
<1>4. ServiceInv'
  BY <1>1 DEF IInv, ServiceInv, PagingIsBounded
<1>5. ReplyInv'
  BY <1>1 DEF IInv, ReplyInv, ReturnedAnswer
<1>6. PagesInv' /\ DoneInv'
  BY <1>1, SameService DEF IInv, PagesInv, DoneInv, IsAhead
<1> QED
  BY <1>2, <1>3, <1>4, <1>5, <1>6 DEF IInv

LEMMA RefuseStep ==
  ASSUME IInv, Refuse
  PROVE  IInv'
<1>1. /\ at = "parse" /\ at' = "done" /\ reply' = "refused"
      /\ UNCHANGED details
      /\ UNCHANGED <<honest, register, initially, request, page, answer, allItems, results>>
  BY DEF Refuse, service
<1>2. FetchInv' /\ main' = main
  BY <1>1, FetchUnchanged DEF IInv, details
<1>3. CallerInv'
  BY <1>1, <1>2 DEF IInv, CallerInv
<1>4. ServiceInv'
  BY <1>1 DEF IInv, ServiceInv, PagingIsBounded
<1>5. ReplyInv'
  BY <1>1 DEF ReplyInv
<1>6. results = <<>>
  BY <1>1 DEF IInv, CallerInv
<1>7. PagesInv' /\ DoneInv'
  BY <1>1, <1>6 DEF PagesInv, DoneInv
<1> QED
  BY <1>2, <1>3, <1>4, <1>5, <1>7 DEF IInv

\* Whatever the service answers is an answer of at most a page of items.
LEMMA AnswersAreTyped ==
  ASSUME CallerInv, ServiceInv
  PROVE  HonestAnswers \subseteq AnswerSet /\ OtherAnswers \subseteq AnswerSet
<1>1. /\ page \in Nat /\ page >= 1 /\ register \in Seq(Items) /\ Len(register) \in Nat
      /\ PageSize \in Nat /\ MaxPage \in Nat
  BY BoundTyping DEF CallerInv, ServiceInv
<1>2. PageOf(page) \in Seq(Items) /\ Len(PageOf(page)) <= PageSize
  BY <1>1, PageTyping
<1>3. <<>> \in Seq(Items) /\ Len(<<>>) <= PageSize
  BY <1>1
<1>4. /\ Number(200) \in Values /\ Number(500) \in Values /\ Number(401) \in Values
      /\ Number(1) \in Values /\ Numeral(0) \in Values
      /\ NoNumber \in Values /\ Numeral(Len(register)) \in Values
  BY <1>1, ValueTyping
<1>5. HonestAnswers \subseteq AnswerSet
  <2>1. Answer(Number(200), PageOf(page), Numeral(Len(register))) \in AnswerSet
    BY <1>2, <1>4, AnswerTyping
  <2>2. \A code \in Values : Answer(code, <<>>, NoNumber) \in AnswerSet
    <3> DEFINE none == <<>>
    <3>1. none \in Seq(Items) /\ Len(none) <= PageSize
      BY <1>3
    <3> HIDE DEF none
    <3>2. \A code \in Values : Answer(code, none, NoNumber) \in AnswerSet
      BY <1>4, <3>1, AnswerTyping
    <3> QED
      BY <3>2 DEF none
  <2> QED
    BY <1>4, <2>1, <2>2 DEF HonestAnswers
<1>6. Number(Beyond) \in Values
  <2>1. Beyond \in Int
    BY <1>1 DEF Beyond
  <2> QED
    BY <2>1, ValueTyping
<1>7. ASSUME NEW r \in Registers
      PROVE  /\ SubSeq(r, 1, Smaller(PageSize, Len(r))) \in Seq(Items)
             /\ Len(SubSeq(r, 1, Smaller(PageSize, Len(r)))) <= PageSize
  <2>1. r \in Seq(Items) /\ Len(r) \in Nat
    BY RegistersAssumption
  <2> DEFINE n == Smaller(PageSize, Len(r))
  <2>2. n \in Nat /\ n <= PageSize /\ n <= Len(r)
    BY <1>1, <2>1 DEF Smaller
  <2> HIDE DEF n
  <2>3. \A i \in 1..n : r[i] \in Items
    BY <2>1, <2>2
  <2>4. SubSeq(r, 1, n) \in Seq(Items) /\ Len(SubSeq(r, 1, n)) = IF 1 <= n THEN n - 1 + 1 ELSE 0
    BY <2>2, <2>3, SubSeqProperties
  <2> QED
    BY <1>1, <2>2, <2>4 DEF n
<1>8. OtherAnswers \subseteq AnswerSet
  <2> SUFFICES ASSUME NEW code \in {Numeral(0), Number(500), NoNumber},
                      NEW items \in {SubSeq(r, 1, Smaller(PageSize, Len(r))) : r \in Registers},
                      NEW total \in {NoNumber, Number(1), Number(Beyond)}
               PROVE  Answer(code, items, total) \in AnswerSet
    BY DEF OtherAnswers
  <2>1. code \in Values /\ total \in Values
    BY <1>4, <1>6
  <2>2. items \in Seq(Items) /\ Len(items) <= PageSize
    BY <1>7
  <2> QED
    BY <2>1, <2>2, AnswerTyping
<1> QED
  BY <1>5, <1>8

LEMMA AnsweredStep ==
  ASSUME IInv, Answered
  PROVE  IInv'
<1>1. PICK a \in (IF honest THEN HonestAnswers ELSE OtherAnswers) :
        /\ answer' = a
        /\ IF WithDetails(a) THEN Fetch!Begin(a.items) ELSE UNCHANGED details
  BY DEF Answered
<1>2. /\ at = "ask" /\ at' = "read"
      /\ UNCHANGED <<honest, register, initially, request, page, allItems, results, reply>>
  BY DEF Answered, service
<1>3. a \in AnswerSet /\ (honest => a \in HonestAnswers)
  BY <1>1, AnswersAreTyped DEF IInv
<1>4. main = "idle"
  BY <1>2 DEF IInv, CallerInv
<1>5. FetchInv' /\ (main' # "idle" => list' = a.items)
  <2>1. CASE WithDetails(a)
    <3>1. a.items \in Fetch!Lists
      BY <1>3, <2>1, ListsAreSequences DEF AnswerSet, WithDetails
    <3>2. Fetch!Begin(a.items) /\ list' = a.items
      BY <1>1, <2>1 DEF Fetch!Begin
    <3> QED
      BY <3>1, <3>2, BeginStep DEF IInv
  <2>2. CASE ~WithDetails(a)
    BY <1>1, <1>4, <2>2, FetchUnchanged DEF IInv, details
  <2> QED
    BY <2>1, <2>2
<1>6. CallerInv'
  BY <1>1, <1>2, <1>3, <1>5 DEF IInv, CallerInv
<1>7. ServiceInv'
  BY <1>1, <1>2, <1>3, SameService DEF IInv, ServiceInv, PagingIsBounded
<1>8. reply = "none"
  BY <1>2 DEF IInv, CallerInv
<1>9. ReplyInv'
  BY <1>2, <1>8 DEF ReplyInv
<1>10. PagesInv' /\ DoneInv'
  BY <1>2, SameService DEF IInv, PagesInv, DoneInv, IsAhead
<1> QED
  BY <1>5, <1>6, <1>7, <1>9, <1>10 DEF IInv

LEMMA NotAnsweredStep ==
  ASSUME IInv, NotAnswered
  PROVE  IInv'
<1>1. /\ at = "ask" /\ at' = "read" /\ answer' = Failed
      /\ UNCHANGED details
      /\ UNCHANGED <<honest, register, initially, request, page, allItems, results, reply>>
  BY DEF NotAnswered, service
<1>2. FetchInv' /\ main' = "idle"
  BY <1>1, FetchUnchanged DEF IInv, CallerInv, details
<1>3. CallerInv'
  BY <1>1, <1>2, FailedTyping DEF IInv, CallerInv
<1>4. ServiceInv'
  BY <1>1 DEF IInv, ServiceInv, PagingIsBounded
<1>5. reply = "none"
  BY <1>1 DEF IInv, CallerInv
<1>6. ReplyInv'
  BY <1>1, <1>5 DEF ReplyInv
<1>7. PagesInv' /\ DoneInv'
  BY <1>1, SameService DEF IInv, PagesInv, DoneInv, IsAhead
<1> QED
  BY <1>2, <1>3, <1>4, <1>6, <1>7 DEF IInv

----------------------------------------------------------------------------
\* The caller after it has read an answer

\* What the ends of a call have in common: the list is let go of, and what is left
\* to show is what the caller made of it.
LEMMA EndStep ==
  ASSUME IInv, Returned, Release, at' = "done",
         UNCHANGED <<honest, register, initially, request, page, answer>>,
         allItems' \in Seq(Fetch!Slots), results' \in Seq(Fetch!Slots),
         ReplyInv', DoneInv'
  PROVE  IInv'
<1>1. FetchInv' /\ main' = "idle"
  BY ReleaseEffect
<1>2. CallerInv'
  BY <1>1 DEF IInv, CallerInv
<1>3. ServiceInv'
  BY DEF IInv, ServiceInv, PagingIsBounded
<1>4. PagesInv'
  BY DEF PagesInv
<1> QED
  BY <1>1, <1>2, <1>3, <1>4 DEF IInv

\* A call that ends without results has lost or doubled none of them.
LEMMA EndEmptyStep ==
  ASSUME IInv, Returned, Release, at' = "done",
         UNCHANGED <<honest, register, initially, request, page, answer, allItems, results>>,
         ReplyInv', reply' # "success"
  PROVE  IInv'
<1>1. results = <<>> /\ results \in Seq(Fetch!Slots) /\ allItems \in Seq(Fetch!Slots)
  BY DEF IInv, CallerInv, Returned
<1>2. DoneInv'
  BY <1>1 DEF DoneInv
<1> QED
  BY <1>1, <1>2, EndStep

LEMMA PageFailsStep ==
  ASSUME IInv, PageFails
  PROVE  IInv'
<1>1. /\ Returned /\ Release /\ at' = "done" /\ reply' = "failure"
      /\ ~Usable(ReturnedAnswer)
      /\ UNCHANGED <<honest, register, initially, request, page, answer, allItems, results>>
  BY DEF PageFails, service
<1>2. ReplyInv'
  BY <1>1 DEF ReplyInv, Usable, ReturnedAnswer
<1> QED
  BY <1>1, <1>2, EndEmptyStep

LEMMA CommandEndsStep ==
  ASSUME IInv, CommandEnds
  PROVE  IInv'
<1>1. /\ Returned /\ Release /\ at' = "done" /\ reply' = ExitCode(ReturnedAnswer)
      /\ UNCHANGED <<honest, register, initially, request, page, answer, allItems, results>>
  BY DEF CommandEnds, service
<1>2. reply' \in {"exit 0", "exit 10", "exit 20"}
  BY <1>1 DEF ExitCode
<1>3. ReturnedAnswer' = ReturnedAnswer
  BY <1>1 DEF ReturnedAnswer
<1>4. ReplyInv'
  BY <1>1, <1>2, <1>3 DEF ReplyInv
<1> QED
  BY <1>1, <1>2, <1>4, EndEmptyStep

LEMMA ToolEndsStep ==
  ASSUME IInv, ToolEnds
  PROVE  IInv'
<1>1. /\ Returned /\ Release /\ at' = "done" /\ reply' = ToolReply(ReturnedAnswer)
      /\ UNCHANGED <<honest, register, initially, request, page, answer, allItems, results>>
  BY DEF ToolEnds, service
<1>2. reply' \in {"tool error", "tool result"}
  BY <1>1 DEF ToolReply
<1>3. ReturnedAnswer' = ReturnedAnswer
  BY <1>1 DEF ReturnedAnswer
<1>4. ReplyInv'
  BY <1>1, <1>2, <1>3 DEF ReplyInv
<1> QED
  BY <1>1, <1>2, <1>4, EndEmptyStep

\* A page without items: the register has no more of them.
LEMMA NoMoreItemsStep ==
  ASSUME IInv, NoMoreItems
  PROVE  IInv'
<1>1. /\ Returned /\ Release /\ at' = "done" /\ reply' = "success"
      /\ Usable(ReturnedAnswer) /\ ReturnedItems = <<>>
      /\ results' = allItems
      /\ UNCHANGED <<honest, register, initially, request, page, answer, allItems>>
  BY DEF NoMoreItems, service
<1>2. allItems \in Seq(Fetch!Slots) /\ register \in Seq(Items) /\ Len(register) \in Nat
  BY DEF IInv, CallerInv, ServiceInv
<1>3. ReturnedAnswer' = ReturnedAnswer
  BY <1>1 DEF ReturnedAnswer
<1>4. ReplyInv'
  BY <1>1, <1>3 DEF ReplyInv, Usable
<1>5. ASSUME honest
      PROVE  /\ register = initially => InOrder(allItems, register, Upto(ObjectsOf(register), Wanted))
             /\ \A k \in ObjectsOf(initially) : IsAmong(initially[k], allItems)
  <2>1. Before(page) \in Nat /\ Len(register) <= Before(page)
    BY <1>1, <1>5, HonestPage DEF IInv
  <2>2. /\ register = initially => InOrder(allItems, register, Upto(ObjectsOf(register), Before(page)))
        /\ \A k \in ObjectsOf(initially) : IsAmong(initially[k], allItems) \/ IsAhead(initially[k], page)
    BY <1>1, <1>5 DEF IInv, PagesInv, Returned
  <2>3. Upto(ObjectsOf(register), Before(page)) = ObjectsOf(register)
    BY <1>2, <2>1, UptoAll
  <2>4. Wanted \in Nat /\ Len(register) <= Wanted
    <3>1. CASE request.auto
      BY <1>2, <3>1 DEF Wanted
    <3>2. CASE ~request.auto
      <4>1. page = 1
        BY <3>2 DEF IInv, CallerInv
      <4> QED
        BY <1>2, <2>1, <3>2, <4>1, BeforeTyping, BoundTyping DEF Wanted
    <3> QED
      BY <3>1, <3>2
  <2>5. Upto(ObjectsOf(register), Wanted) = ObjectsOf(register)
    BY <1>2, <2>4, UptoAll
  <2>6. \A x : ~IsAhead(x, page)
    BY <1>2, <2>1 DEF IsAhead
  <2> QED
    BY <2>2, <2>3, <2>5, <2>6
<1>6. Wanted' = Wanted
  BY <1>1 DEF Wanted
<1>7. DoneInv'
  BY <1>1, <1>5, <1>6 DEF DoneInv
<1> QED
  BY <1>1, <1>2, <1>4, <1>7, EndStep

\* The caller has what it wanted: the objects of the first page, or as many as the
\* register has items, which are then all of them.
LEMMA LastPageStep ==
  ASSUME IInv, LastPage
  PROVE  IInv'
<1>1. /\ Returned /\ Release /\ at' = "done" /\ reply' = "success"
      /\ Usable(ReturnedAnswer) /\ ReturnedItems # <<>> /\ Enough(Collected)
      /\ allItems' = Collected /\ results' = Collected
      /\ UNCHANGED <<honest, register, initially, request, page, answer>>
  BY DEF LastPage, service
<1>2. Collected \in Seq(Fetch!Slots) /\ register \in Seq(Items) /\ Len(register) \in Nat
  BY <1>1, CollectedTyping DEF IInv, ServiceInv
<1>3. ReturnedAnswer' = ReturnedAnswer
  BY <1>1 DEF ReturnedAnswer
<1>4. ReplyInv'
  BY <1>1, <1>3 DEF ReplyInv, Usable
<1>5. ASSUME honest
      PROVE  /\ register = initially => InOrder(Collected, register, Upto(ObjectsOf(register), Wanted))
             /\ request.auto => \A k \in ObjectsOf(initially) : IsAmong(initially[k], Collected)
  <2>1. /\ Len(Collected) \in Nat /\ Len(Collected) <= Before(page + 1)
        /\ register = initially =>
             InOrder(Collected, register, Upto(ObjectsOf(register), Before(page + 1)))
        /\ \A k \in ObjectsOf(initially) :
             IsAmong(initially[k], Collected) \/ IsAhead(initially[k], page + 1)
    BY <1>1, <1>5, PageCollected DEF IInv
  <2>2. page \in Nat /\ page >= 1 /\ Before(page + 1) \in Nat
    <3>1. page \in Nat /\ page >= 1
      BY BoundTyping DEF IInv, CallerInv
    <3>2. page + 1 \in Nat /\ page + 1 >= 1
      BY <3>1
    <3> QED
      BY <3>1, <3>2, BeforeTyping
  <2>3. CASE ~request.auto
    <3>1. page = 1
      BY <2>3 DEF IInv, CallerInv
    <3>2. Before(page + 1) = Wanted
      BY <2>3, <3>1, BeforeTyping, BoundTyping DEF Wanted
    <3> QED
      BY <2>1, <2>3, <3>2
  <2>4. CASE request.auto
    <3>1. Len(register) <= Len(Collected)
      BY <1>1, <1>5, <2>4, HonestAnswer DEF Enough, IInv
    <3>2. Len(register) <= Before(page + 1)
      BY <1>2, <2>1, <2>2, <3>1
    <3>3. Upto(ObjectsOf(register), Before(page + 1)) = ObjectsOf(register)
      BY <1>2, <2>2, <3>2, UptoAll
    <3>4. Upto(ObjectsOf(register), Wanted) = ObjectsOf(register)
      BY <1>2, <2>4, UptoAll DEF Wanted
    <3>5. \A x : ~IsAhead(x, page + 1)
      BY <1>2, <2>2, <3>2 DEF IsAhead
    <3> QED
      BY <2>1, <3>3, <3>4, <3>5
  <2> QED
    BY <2>3, <2>4
<1>6. Wanted' = Wanted
  BY <1>1 DEF Wanted
<1>7. DoneInv'
  BY <1>1, <1>5, <1>6 DEF DoneInv
<1> QED
  BY <1>1, <1>2, <1>4, <1>7, EndStep

LEMMA NextPageStep ==
  ASSUME IInv, NextPage
  PROVE  IInv'
<1>1. /\ Returned /\ Release /\ at' = "ask"
      /\ Usable(ReturnedAnswer) /\ ReturnedItems # <<>> /\ ~Enough(Collected)
      /\ allItems' = Collected
      /\ page' = Smaller(page + 1, MaxPage)
      /\ UNCHANGED <<honest, register, initially, request, answer, results, reply>>
  BY DEF NextPage, service
<1>2. Collected \in Seq(Fetch!Slots)
  BY <1>1, CollectedTyping DEF IInv
<1>3. FetchInv' /\ main' = "idle"
  BY <1>1, ReleaseEffect
<1>4. request.auto
  BY <1>1 DEF Enough
<1>5. page' \in 1..MaxPage /\ (page < MaxPage => page' = page + 1)
  BY <1>1, BoundTyping DEF IInv, CallerInv, Smaller
<1>6. CallerInv'
  BY <1>1, <1>2, <1>3, <1>4, <1>5 DEF IInv, CallerInv, Returned
<1>7. ServiceInv'
  <2>1. ASSUME honest PROVE Before(page') < Len(register) + PageSize
    <3>1. /\ page \in Nat /\ page >= 1 /\ page' = page + 1
          /\ Before(page) \in Nat /\ Len(register) \in Nat /\ PageSize \in Nat
          /\ Len(ReturnedItems) \in 1..PageSize
          /\ Before(page) + Len(ReturnedItems) <= Len(register)
      BY <1>1, <1>5, <2>1, HonestPage, BoundTyping DEF IInv
    <3>2. Before(page + 1) = Before(page) + PageSize
      BY <3>1, BeforeTyping
    <3>3. Before(page') = Before(page) + PageSize
      BY <3>1, <3>2
    <3> QED
      BY <3>1, <3>3
  <2>2. Before(page)' = Before(page')
    BY DEF Before
  <2> QED
    BY <1>1, <2>1, <2>2 DEF IInv, ServiceInv, PagingIsBounded
<1>8. reply = "none"
  BY <1>1 DEF IInv, CallerInv, Returned
<1>9. ReplyInv'
  BY <1>1, <1>8 DEF ReplyInv
<1>10. PagesInv'
  <2> SUFFICES ASSUME honest
               PROVE  /\ Len(Collected) <= Before(page')
                      /\ register = initially =>
                           InOrder(Collected, register, Upto(ObjectsOf(register), Before(page')))
                      /\ \A k \in ObjectsOf(initially) :
                           IsAmong(initially[k], Collected) \/ IsAhead(initially[k], page')
    BY <1>1 DEF PagesInv, IsAhead
  <2>1. page' = page + 1
    BY <1>1, <1>5, HonestPage DEF IInv
  <2> QED
    BY <1>1, <2>1, PageCollected DEF IInv
<1>11. DoneInv'
  BY <1>1 DEF DoneInv
<1> QED
  BY <1>3, <1>6, <1>7, <1>9, <1>10, <1>11 DEF IInv

----------------------------------------------------------------------------
\* The register grows

\* Below the bound there is an item that is not in the register.
LEMMA AnItemIsMissing ==
  ASSUME register \in Seq(Items), Len(register) < MaxGrowth
  PROVE  \E y \in Items : \A j \in 1..Len(register) : register[j] # y
<1> SUFFICES ASSUME \A y \in Items : \E j \in 1..Len(register) : register[j] = y
             PROVE  FALSE
  OBVIOUS
<1>1. Len(register) \in Nat /\ register \in [1..Len(register) -> Items]
  OBVIOUS
<1>2. register \in Surjection(1..Len(register), Items)
  BY <1>1, Fun_IsSurj
<1>3. IsFiniteSet(1..Len(register)) /\ Cardinality(1..Len(register)) = Len(register)
  BY <1>1, FS_Interval
<1>4. IsFiniteSet(Items) /\ Cardinality(Items) <= Len(register)
  BY <1>2, <1>3, FS_Surjection
<1>5. Cardinality(Items) \in Nat
  BY <1>4, FS_CardinalityType
<1> QED
  BY <1>1, <1>4, <1>5, BoundsAssumption

\* An item that is entered moves those behind it on and takes none away.
LEMMA InsertEffect ==
  ASSUME NEW r \in Seq(Items), NEW x \in Items, NEW i \in 0..Len(r), NEW t,
         t = SubSeq(r, 1, i) \o <<x>> \o SubSeq(r, i + 1, Len(r))
  PROVE  /\ t \in Seq(Items) /\ Len(t) = Len(r) + 1
         /\ \A k \in 1..i : t[k] = r[k]
         /\ \A k \in (i + 1)..Len(r) : t[k + 1] = r[k]
<1> DEFINE n == Len(r)
           left == SubSeq(r, 1, i)
           right == SubSeq(r, i + 1, n)
           one == <<x>>
           start == left \o one
<1>1. n \in Nat /\ i \in Nat /\ i <= n /\ \A k \in 1..n : r[k] \in Items
  OBVIOUS
<1>2. left \in Seq(Items) /\ Len(left) = i /\ \A k \in 1..i : left[k] = r[k]
  <2>1. /\ left \in Seq(Items) /\ Len(left) = IF 1 <= i THEN i - 1 + 1 ELSE 0
        /\ \A k \in 1..(i - 1 + 1) : left[k] = r[1 + k - 1]
    BY <1>1, SubSeqProperties
  <2> QED
    BY <1>1, <2>1
<1>3. right \in Seq(Items) /\ Len(right) = n - i /\ \A k \in 1..(n - i) : right[k] = r[i + k]
  <2>1. /\ right \in Seq(Items)
        /\ Len(right) = IF i + 1 <= n THEN n - (i + 1) + 1 ELSE 0
        /\ \A k \in 1..(n - (i + 1) + 1) : right[k] = r[(i + 1) + k - 1]
    BY <1>1, SubSeqProperties
  <2> HIDE DEF right, n
  <2> QED
    BY <1>1, <2>1
<1>4. one \in Seq(Items) /\ Len(one) = 1 /\ one[1] = x
  OBVIOUS
<1> HIDE DEF left, right, one, n
<1>5. /\ start \in Seq(Items) /\ Len(start) = i + 1
      /\ \A k \in 1..i : start[k] = left[k]
  <2>1. /\ start \in Seq(Items) /\ Len(start) = Len(left) + Len(one)
        /\ \A k \in 1..(Len(left) + Len(one)) :
             start[k] = IF k <= Len(left) THEN left[k] ELSE one[k - Len(left)]
    BY <1>2, <1>4, ConcatProperties
  <2> HIDE DEF start
  <2>2. Len(start) = i + 1
    BY <1>2, <1>4, <2>1
  <2>3. ASSUME NEW k \in 1..i PROVE start[k] = left[k]
    <3>1. k \in 1..(Len(left) + Len(one)) /\ k <= Len(left)
      BY <1>1, <1>2, <1>4
    <3> QED
      BY <2>1, <3>1
  <2> QED
    BY <2>1, <2>2, <2>3
<1> HIDE DEF start
<1>6. /\ start \o right \in Seq(Items) /\ Len(start \o right) = (i + 1) + (n - i)
      /\ \A k \in 1..((i + 1) + (n - i)) :
           (start \o right)[k] = IF k <= i + 1 THEN start[k] ELSE right[k - (i + 1)]
  <2>1. /\ start \o right \in Seq(Items) /\ Len(start \o right) = Len(start) + Len(right)
        /\ \A k \in 1..(Len(start) + Len(right)) :
             (start \o right)[k] = IF k <= Len(start) THEN start[k] ELSE right[k - Len(start)]
    BY <1>3, <1>5, ConcatProperties
  <2> QED
    BY <1>3, <1>5, <2>1
<1>7. t = start \o right
  BY DEF start, left, right, one, n
<1>8. t \in Seq(Items) /\ Len(t) = n + 1
  <2>1. (i + 1) + (n - i) = n + 1
    BY <1>1
  <2> QED
    BY <1>6, <1>7, <2>1, Zenon
<1>9. ASSUME NEW k \in 1..i
      PROVE  t[k] = r[k]
  <2>1. k \in 1..((i + 1) + (n - i)) /\ k <= i + 1
    BY <1>1
  <2> QED
    BY <1>2, <1>5, <1>6, <1>7, <2>1
<1>10. ASSUME NEW k \in (i + 1)..n
       PROVE  t[k + 1] = r[k]
  <2>1. /\ k + 1 \in 1..((i + 1) + (n - i)) /\ ~(k + 1 <= i + 1)
        /\ (k + 1) - (i + 1) = k - i /\ k - i \in 1..(n - i) /\ i + (k - i) = k
    BY <1>1
  <2> QED
    BY <1>3, <1>6, <1>7, <2>1
<1> QED
  BY <1>8, <1>9, <1>10 DEF n

LEMMA GrowStep ==
  ASSUME IInv, Grow
  PROVE  IInv'
<1>1. /\ honest /\ request.auto /\ at = "ask" /\ Len(register) < MaxGrowth
      /\ UNCHANGED details
      /\ UNCHANGED <<honest, initially, request, at, page, answer, allItems, results, reply>>
  BY DEF Grow, caller
<1>2. /\ register \in Seq(Items) /\ Len(register) \in Nat
      /\ initially \in Seq(Items) /\ Len(initially) \in Nat /\ Len(initially) <= Len(register)
      /\ MaxGrowth \in Nat
  BY BoundTyping DEF IInv, ServiceInv
<1> DEFINE x == CHOOSE y \in Items : \A j \in 1..Len(register) : register[j] # y
<1>3. x \in Items
  BY <1>1, <1>2, AnItemIsMissing
<1>4. PICK i \in 0..Len(register) :
        register' = SubSeq(register, 1, i) \o <<x>> \o SubSeq(register, i + 1, Len(register))
  BY DEF Grow
<1> HIDE DEF x
<1>5. /\ register' \in Seq(Items) /\ Len(register') = Len(register) + 1
      /\ \A k \in 1..i : register'[k] = register[k]
      /\ \A k \in (i + 1)..Len(register) : register'[k + 1] = register[k]
  <2> DEFINE t == register'
  <2>1. t = SubSeq(register, 1, i) \o <<x>> \o SubSeq(register, i + 1, Len(register))
    BY <1>4
  <2> HIDE DEF t
  <2>2. register \in Seq(Items) /\ x \in Items /\ i \in 0..Len(register)
    BY <1>2, <1>3
  <2>3. /\ t \in Seq(Items) /\ Len(t) = Len(register) + 1
        /\ \A k \in 1..i : t[k] = register[k]
        /\ \A k \in (i + 1)..Len(register) : t[k + 1] = register[k]
    <3>1. \A r \in Seq(Items), y \in Items : \A j \in 0..Len(r) : \A u :
            u = SubSeq(r, 1, j) \o <<y>> \o SubSeq(r, j + 1, Len(r)) =>
              /\ u \in Seq(Items) /\ Len(u) = Len(r) + 1
              /\ \A k \in 1..j : u[k] = r[k]
              /\ \A k \in (j + 1)..Len(r) : u[k + 1] = r[k]
      BY InsertEffect
    <3>2. \A u : u = SubSeq(register, 1, i) \o <<x>> \o SubSeq(register, i + 1, Len(register)) =>
            /\ u \in Seq(Items) /\ Len(u) = Len(register) + 1
            /\ \A k \in 1..i : u[k] = register[k]
            /\ \A k \in (i + 1)..Len(register) : u[k + 1] = register[k]
      BY <2>2, <3>1, Zenon
    <3> QED
      BY <2>1, <3>2, Zenon
  <2> QED
    BY <2>3 DEF t
<1>6. register' # initially
  BY <1>2, <1>5
<1>7. FetchInv' /\ main' = main /\ list' = list
  BY <1>1, FetchUnchanged DEF IInv, details
<1>8. CallerInv'
  BY <1>1, <1>7 DEF IInv, CallerInv
<1>9. ServiceInv'
  <2>1. Before(page) \in Nat /\ Before(page)' = Before(page)
    <3>1. page \in Nat /\ page >= 1
      BY BoundTyping DEF IInv, CallerInv
    <3> QED
      BY <1>1, <3>1, BeforeTyping DEF Before
  <2>2. Before(page) < Len(register) + PageSize
    BY <1>1 DEF IInv, ServiceInv, PagingIsBounded
  <2> QED
    BY <1>1, <1>2, <1>5, <2>1, <2>2, BoundTyping DEF IInv, ServiceInv, PagingIsBounded
<1>10. ReplyInv'
  BY <1>1 DEF IInv, ReplyInv, ReturnedAnswer
<1>11. \A y, p : p \in Nat /\ p >= 1 /\ IsAhead(y, p) => IsAhead(y, p)'
  <2> SUFFICES ASSUME NEW y, NEW p \in Nat, p >= 1, IsAhead(y, p)
               PROVE  \E k \in 1..Len(register') : register'[k] = y /\ Before(p) < k
    BY DEF IsAhead
  <2>1. PICK k \in 1..Len(register) : register[k] = y /\ Before(p) < k
    BY DEF IsAhead
  <2>2. Before(p) \in Nat
    BY BeforeTyping
  <2>3. CASE k \in 1..i
    BY <1>2, <1>5, <2>1, <2>3
  <2>4. CASE k \in (i + 1)..Len(register)
    <3>1. k + 1 \in 1..Len(register') /\ register'[k + 1] = y /\ Before(p) < k + 1
      BY <1>2, <1>5, <2>1, <2>2, <2>4
    <3> QED
      BY <3>1
  <2> QED
    BY <1>2, <2>1, <2>3, <2>4
<1>12. PagesInv'
  <2>1. page \in Nat /\ page >= 1
    BY BoundTyping DEF IInv, CallerInv
  <2>2. \A k \in ObjectsOf(initially) : IsAhead(initially[k], page) => IsAhead(initially[k], page)'
    BY <1>1, <1>11, <2>1
  <2> QED
    BY <1>1, <1>6, <2>2 DEF IInv, PagesInv
<1>13. DoneInv'
  BY <1>1 DEF DoneInv
<1> QED
  BY <1>7, <1>8, <1>9, <1>10, <1>12, <1>13 DEF IInv

----------------------------------------------------------------------------
\* The theorems

LEMMA NextInv == IInv /\ [Next]_vars => IInv'
<1> SUFFICES ASSUME IInv, [Next]_vars PROVE IInv'
  OBVIOUS
<1>1. CASE CallerStep
  BY <1>1, ParseStep, RefuseStep, AnsweredStep, NotAnsweredStep, PageFailsStep, NoMoreItemsStep,
     LastPageStep, NextPageStep, CommandEndsStep, ToolEndsStep DEF CallerStep
<1>2. CASE FetchStep
  BY <1>2, FetchStepStep
<1>3. CASE Cancel
  BY <1>3, CancelKeywordStep
<1>4. CASE Grow
  BY <1>4, GrowStep
<1>5. CASE Done \/ UNCHANGED vars
  BY <1>5, StutterStep DEF Done
<1> QED
  BY <1>1, <1>2, <1>3, <1>4, <1>5 DEF Next

THEOREM Invariance == Spec => []IInv
  BY InitInv, NextInv, PTL DEF Spec

\* The types hold, those of fetchDetails and its bound on concurrent requests
\* included.
THEOREM TypeCorrectness == Spec => []TypeOK
<1>1. IInv => TypeOK
  <2> SUFFICES ASSUME IInv PROVE TypeOK
    OBVIOUS
  <2>1. \A i \in 1..Len(allItems) : allItems[i] \in Fetch!Slots
    BY DEF IInv, CallerInv
  <2> QED
    BY <2>1 DEF IInv, FetchInv, CallerInv, ReplyInv, TypeOK
<1> QED
  BY Invariance, <1>1, PTL

\* From an honest service a batch task asks for at most one page more than the
\* register has, however it grows meanwhile and however many of its items are no
\* objects and so never count towards the total.
THEOREM PagingEnds == Spec => []PagingIsBounded
<1>1. IInv => PagingIsBounded
  BY DEF IInv, ServiceInv
<1> QED
  BY Invariance, <1>1, PTL

\* The list of an answer is not written to once the caller has it, whatever was
\* cancelled.
THEOREM AnswersStayFinal == Spec => AnswersAreFinal
<1>1. IInv /\ [Next]_vars => [published /\ published' => slot' = slot]_details
  <2> SUFFICES ASSUME IInv, [Next]_vars, published, published', slot' # slot PROVE FALSE
    BY DEF details
  <2>1. CASE FetchStep
    BY <2>1, FetchStepFinal DEF FetchStep, IInv
  <2>2. main = "returned"
    BY DEF IInv, FetchInv, PhaseInv
  <2>3. ~Release
    BY DEF Release, Fetch!Release, details
  <2>4. \A a : ~Fetch!Begin(a.items)
    BY <2>2 DEF Fetch!Begin
  <2> QED
    BY <2>1, <2>3, <2>4 DEF Next, CallerStep, Parse, Refuse, Answered, NotAnswered, PageFails,
       NoMoreItems, LastPage, NextPage, CommandEnds, ToolEnds, Cancel, Fetch!Cancel, Grow, Done,
       vars, details
<1>2. Fetch!PublishedIsFinal <=> [][published /\ published' => slot' = slot]_details
  BY DEF Fetch!PublishedIsFinal, Fetch!vars, details
<1> QED
  BY Invariance, <1>1, <1>2, PTL DEF Spec, AnswersAreFinal

\* The list of an answer is whole, and so are the results of a keyword whose
\* register stood still: with auto_page each of its objects once and in order, and
\* else those of its first page.
THEOREM KeywordsAreWhole == Spec => []KeywordIsWhole
<1>1. IInv => KeywordIsWhole
  <2> SUFFICES ASSUME IInv PROVE KeywordIsWhole
    OBVIOUS
  <2> DEFINE wanted == IF request.auto THEN register
                       ELSE SubSeq(register, 1, Smaller(PageSize, Len(register)))
             objects == {i \in 1..Len(wanted) : wanted[i] \notin NonObjects}
  <2>1. Fetch!PublishedIsWhole
    BY PublishedListIsWhole DEF IInv
  <2>2. ASSUME honest, register = initially, results # <<>>
        PROVE  InOrder(results, wanted, objects)
    <3>1. at = "done"
      BY <2>2 DEF IInv, CallerInv
    <3>2. InOrder(results, register, Upto(ObjectsOf(register), Wanted))
      BY <2>2, <3>1 DEF IInv, DoneInv
    <3>3. register \in Seq(Items) /\ Len(register) \in Nat /\ PageSize \in Nat
      BY BoundTyping DEF IInv, ServiceInv
    <3>4. CASE request.auto
      <4>1. Upto(ObjectsOf(register), Wanted) = ObjectsOf(register)
        BY <3>3, <3>4, UptoAll DEF Wanted
      <4> QED
        BY <3>2, <3>4, <4>1 DEF ObjectsOf
    <3>5. CASE ~request.auto
      <4> DEFINE n == Smaller(PageSize, Len(register))
      <4>1. n \in Nat /\ n <= Len(register) /\ (n = PageSize \/ n = Len(register)) /\ n <= PageSize
        BY <3>3 DEF Smaller
      <4>2. wanted = SubSeq(register, 1, n)
        BY <3>5
      <4> HIDE DEF n, wanted
      <4>3. \A i \in 1..n : register[i] \in Items
        BY <3>3, <4>1
      <4>4. /\ Len(wanted) = IF 1 <= n THEN n - 1 + 1 ELSE 0
            /\ \A i \in 1..(n - 1 + 1) : wanted[i] = register[1 + i - 1]
        BY <4>1, <4>2, <4>3, SubSeqProperties
      <4>5. Len(wanted) = n /\ \A i \in 1..n : wanted[i] = register[i]
        BY <4>1, <4>4
      <4>6. Upto(ObjectsOf(register), Wanted) = objects
        <5>1. \A k \in 1..Len(register) : k <= PageSize <=> k \in 1..n
          BY <3>3, <4>1
        <5>2. Wanted = PageSize
          BY <3>5 DEF Wanted
        <5>3. 1..n \subseteq 1..Len(register)
          BY <3>3, <4>1
        <5> QED
          BY <4>5, <5>1, <5>2, <5>3 DEF Upto, ObjectsOf
      <4>7. \A k \in objects : register[k] = wanted[k]
        BY <4>5
      <4> HIDE DEF objects
      <4> QED
        BY <3>2, <4>6, <4>7, InOrderElsewhere
    <3> QED
      BY <3>4, <3>5
  <2> QED
    BY <2>1, <2>2 DEF KeywordIsWhole
<1> QED
  BY Invariance, <1>1, PTL

\* With auto_page, every object that was in the register when the task began is
\* among the results, wherever others were entered while it was paged through.
THEOREM NothingIsLostToGrowth == Spec => []GrowthLosesNothing
<1>1. IInv => GrowthLosesNothing
  <2> SUFFICES ASSUME IInv, honest, request.auto, reply = "success",
                      NEW i \in 1..Len(initially), initially[i] \notin NonObjects
               PROVE  \E j \in 1..Len(results) : results[j].of = initially[i]
    BY DEF GrowthLosesNothing
  <2>1. at = "done"
    BY DEF IInv, CallerInv
  <2>2. IsAmong(initially[i], results)
    BY <2>1 DEF IInv, DoneInv, ObjectsOf
  <2> QED
    BY <2>2 DEF IsAmong
<1> QED
  BY Invariance, <1>1, PTL

\* Batch task and command make the same of every answer that has a valid code, in
\* both directions, the tools report an error exactly where the command reports one
\* of the network, and the service's own failure is a success for neither.
THEOREM CallersDifferOnlyThere == Spec => []CallersDifferOnlyInCodes
<1>1. IInv => CallersDifferOnlyInCodes
  <2> SUFFICES ASSUME IInv PROVE CallersDifferOnlyInCodes
    OBVIOUS
  <2> DEFINE a == ReturnedAnswer
  <2>1. answer \in AnswerSet
    BY DEF IInv, CallerInv
  <2>2. /\ reply = "success" => Usable(a)
        /\ reply = "failure" => ~Usable(a)
        /\ reply \in {"exit 0", "exit 10", "exit 20"} => reply = ExitCode(a)
        /\ reply \in {"tool error", "tool result"} => reply = ToolReply(a)
    BY DEF IInv, ReplyInv
  <2>3. /\ CodeIs(answer, {500}) => IsNumber(a.code) /\ a.code.n = 122
        /\ ~CodeIs(answer, {500}) => a = answer
    BY <2>1, NormalizeEffect DEF ReturnedAnswer
  <2> HIDE DEF a
  <2>4. Usable(a) => ExitCode(a) = "exit 0" /\ ToolReply(a) = "tool result"
    BY DEF Usable, CodeIs, ExitCode, ToolReply
  <2>5. a.error \/ IsNumber(a.code) => (Usable(a) <=> ExitCode(a) = "exit 0")
    BY DEF Usable, CodeIs, ExitCode
  <2>6. /\ ExitCode(a) \in {"exit 0", "exit 10", "exit 20"}
        /\ ExitCode(a) = "exit 20" <=> a.error
        /\ ToolReply(a) = IF a.error THEN "tool error" ELSE "tool result"
    BY DEF ExitCode, ToolReply
  <2>7. IsNumber(a.code) /\ a.code.n \in {122, 401, 500} => ExitCode(a) # "exit 0"
    BY DEF ExitCode
  <2>8. ExitCode(a) = "exit 0" => ~CodeIs(answer, {401, 500})
    <3>1. CodeIs(answer, {500}) => ExitCode(a) # "exit 0"
      BY <2>3, <2>7
    <3>2. CodeIs(answer, {401, 500}) /\ a = answer =>
            IsNumber(a.code) /\ a.code.n \in {122, 401, 500}
      BY DEF CodeIs
    <3> QED
      BY <2>3, <2>7, <3>1, <3>2, Zenon
  <2>9. reply \in {"success", "exit 0"} => ExitCode(a) = "exit 0"
    BY <2>2, <2>4
  <2>10. /\ reply = "success" => ExitCode(a) = "exit 0" /\ ToolReply(a) = "tool result"
         /\ reply \in {"success", "exit 0"} => ~CodeIs(answer, {401, 500})
    BY <2>2, <2>4, <2>8, <2>9
  <2>11. /\ reply = "failure" /\ (a.error \/ IsNumber(a.code)) => ExitCode(a) \in {"exit 10", "exit 20"}
         /\ reply = "exit 0" /\ (a.error \/ IsNumber(a.code)) => Usable(a)
         /\ reply \in {"exit 10", "exit 20"} => ~Usable(a)
    BY <2>2, <2>4, <2>5, <2>6
  <2>12. /\ reply \in {"exit 20", "tool error"} => ExitCode(a) = "exit 20" /\ ToolReply(a) = "tool error"
         /\ reply \in {"exit 0", "exit 10", "tool result"} => ExitCode(a) # "exit 20" /\ ToolReply(a) = "tool result"
    BY <2>2, <2>6
  <2> QED
    BY <2>10, <2>11, <2>12 DEF CallersDifferOnlyInCodes, a
<1> QED
  BY Invariance, <1>1, PTL

============================================================================
