-------------------------- MODULE ProxyPoolProofs --------------------------
(***************************************************************************)
(* Proofs about ProxyPool, for every set of addresses, size, time to live  *)
(* and number of checkers: its types with the bound on concurrent checks,  *)
(* that sweeping takes away nothing a reader could see, and by how much    *)
(* the pool can outgrow its size, which it does not keep.                  *)
(***************************************************************************)
EXTENDS ProxyPool, FiniteSetTheorems, TLAPS

\* The lines of the answer that may still add an address.
Pending == {i \in 1..Len(lines) : check[i] # "done"}

----------------------------------------------------------------------------
\* The inductive invariant, part by part

\* validateAndAdd stays within the lines of the answer, and so do the
\* goroutines it has started: each checks an address.
LinesInv ==
  /\ next <= Len(lines) + 1
  /\ \A i \in Index : check[i] # "none" => i < next

\* Goroutines that check run only while validateAndAdd does, which waits for them.
LoopInv == \A i \in Index : check[i] \in {"queued", "checking"} => loop \in {"spawn", "wait"}

\* A refresh begins below the size and adds at most an address for each line.
RoomInv ==
  /\ IsFiniteSet(Keys)
  /\ loop = "fetch" => CacheLen < Size
  /\ loop \in {"spawn", "wait"} => CacheLen + Cardinality(Pending) < Size + Len(lines)

PoolBounded == CacheLen < Size + MaxLines

IInv == TypeOK /\ LinesInv /\ LoopInv /\ RoomInv /\ PoolBounded

----------------------------------------------------------------------------
\* Answers and sets of lines

\* An answer is a sequence of at most MaxLines addresses.
LEMMA AnswersAreSequences ==
  ASSUME NEW answer \in Answers \cup {<<>>}
  PROVE  /\ Len(answer) \in 0..MaxLines
         /\ \A i \in 1..Len(answer) : answer[i] \in Addrs
<1>1. CASE answer = <<>>
  BY <1>1, BoundsAssumption
<1>2. CASE answer \in Answers
  <2>1. PICK n \in Index : answer \in [1..n -> Addrs]
    BY <1>2 DEF Answers
  <2>2. n \in Nat /\ n <= MaxLines
    BY <2>1, BoundsAssumption DEF Index
  <2>3. Len(answer) = n
    BY <2>1, <2>2
  <2> QED
    BY <2>1, <2>2, <2>3
<1> QED
  BY <1>1, <1>2

\* Sets of lines are finite.
LEMMA LineSets ==
  ASSUME NEW S \in SUBSET Index
  PROVE  IsFiniteSet(S) /\ Cardinality(S) \in Nat
<1>1. IsFiniteSet(Index)
  BY BoundsAssumption, FS_Interval DEF Index
<1> QED
  BY <1>1, FS_Subset, FS_CardinalityType

\* What TypeOK and LinesInv say of the answer and its checks.
LEMMA LineTyping ==
  ASSUME TypeOK, LinesInv
  PROVE  /\ Len(lines) \in 0..MaxLines
         /\ \A i \in 1..Len(lines) : lines[i] \in Addrs
         /\ 1..Len(lines) \subseteq Index
         /\ IsFiniteSet(Checking) /\ Cardinality(Checking) \in Nat
         /\ Pending \subseteq 1..Len(lines)
         /\ IsFiniteSet(Pending) /\ Cardinality(Pending) \in Nat
<1>1. Len(lines) \in 0..MaxLines /\ \A i \in 1..Len(lines) : lines[i] \in Addrs
  BY AnswersAreSequences DEF TypeOK
<1>2. 1..Len(lines) \subseteq Index
  BY <1>1, BoundsAssumption DEF Index
<1>3. Checking \in SUBSET Index /\ Pending \in SUBSET Index /\ Pending \subseteq 1..Len(lines)
  BY <1>2 DEF Checking, Pending
<1> QED
  BY <1>1, <1>2, <1>3, LineSets

----------------------------------------------------------------------------
\* What the steps do to the cache

\* A step that takes no entry up makes the keys no more.
LEMMA FewerKeys ==
  ASSUME IsFiniteSet(Keys), Keys' \subseteq Keys
  PROVE  IsFiniteSet(Keys') /\ CacheLen' \in Nat /\ CacheLen \in Nat /\ CacheLen' <= CacheLen
BY FS_Subset, FS_CardinalityType DEF CacheLen

\* A step that takes up one address makes the keys at most one more.
LEMMA OneMoreKey ==
  ASSUME NEW a, IsFiniteSet(Keys), Keys' \subseteq Keys \cup {a}
  PROVE  IsFiniteSet(Keys') /\ CacheLen' \in Nat /\ CacheLen \in Nat /\ CacheLen' <= CacheLen + 1
<1>1. Cardinality(Keys) \in Nat
  BY FS_CardinalityType
<1>2. /\ IsFiniteSet(Keys \cup {a})
      /\ Cardinality(Keys \cup {a}) \in {Cardinality(Keys), Cardinality(Keys) + 1}
  BY FS_AddElement
<1> DEFINE more == Keys \cup {a}
<1> HIDE DEF more
<1>3. IsFiniteSet(more) /\ Cardinality(more) \in {Cardinality(Keys), Cardinality(Keys) + 1}
  BY <1>2 DEF more
<1>4. Keys' \subseteq more
  BY DEF more
<1>5. IsFiniteSet(Keys') /\ Cardinality(Keys') <= Cardinality(more)
  BY <1>3, <1>4, FS_Subset
<1>6. Cardinality(Keys') \in Nat
  BY <1>5, FS_CardinalityType
<1> QED
  BY <1>1, <1>3, <1>5, <1>6 DEF CacheLen

\* Clean leaves what a reader can see, and forgets the rest.
LEMMA CleanIsHarmless ==
  ASSUME TypeOK, Clean
  PROVE  /\ cache' \in [Addrs -> Absent..TTL]
         /\ Keys' = Keys /\ Gettable' = Gettable
<1>1. cache \in [Addrs -> Absent..TTL] /\ TTL \in Nat
  BY BoundsAssumption DEF TypeOK
<1>2. \A a \in Addrs : cache[a] \in Absent..TTL /\ cache[a] \in Int
  BY <1>1 DEF Absent
<1>3. \A a \in Addrs : cache'[a] = IF cache[a] = Expired THEN Absent ELSE cache[a]
  BY DEF Clean
<1>4. cache' \in [Addrs -> Absent..TTL]
  BY <1>1, <1>2 DEF Clean, Absent
<1>5. \A a \in Addrs : (cache'[a] > 0 <=> cache[a] > 0) /\ (cache'[a] >= 0 <=> cache[a] >= 0)
  BY <1>2, <1>3 DEF Expired, Absent
<1> QED
  BY <1>4, <1>5 DEF Keys, Gettable

\* Time takes keys away only.
LEMMA TickLosesKeys ==
  ASSUME TypeOK, Tick
  PROVE  cache' \in [Addrs -> Absent..TTL] /\ Keys' \subseteq Keys
<1>1. cache \in [Addrs -> Absent..TTL] /\ TTL \in Nat
  BY BoundsAssumption DEF TypeOK
<1>2. \A a \in Addrs : cache[a] \in Absent..TTL /\ cache[a] \in Int
  BY <1>1 DEF Absent
<1>3. \A a \in Addrs : cache'[a] = IF cache[a] >= 0 THEN cache[a] - 1 ELSE cache[a]
  BY DEF Tick
<1>4. cache' \in [Addrs -> Absent..TTL]
  BY <1>1, <1>2 DEF Tick, Absent
<1>5. \A a \in Addrs : cache'[a] > 0 => cache[a] > 0
  BY <1>2, <1>3
<1> QED
  BY <1>4, <1>5 DEF Keys

----------------------------------------------------------------------------
\* The inductive invariant

LEMMA InitInv == Init => IInv
<1> SUFFICES ASSUME Init PROVE IInv
  OBVIOUS
<1>1. Checking = {} /\ Keys = {}
  BY DEF Init, Checking, NoChecks, Keys, Absent
<1>2. Cardinality(Checking) = 0 /\ CacheLen = 0 /\ IsFiniteSet(Keys)
  BY <1>1, FS_EmptySet DEF CacheLen
<1>3. Len(lines) = 0 /\ next = 1
  BY DEF Init
<1>4. TypeOK
  <2>1. cache \in [Addrs -> Absent..TTL]
    BY BoundsAssumption DEF Init, Absent
  <2>2. lines \in Answers \cup {<<>>} /\ next \in 1..(MaxLines + 1)
    BY BoundsAssumption DEF Init
  <2>3. check \in [Index -> {"none", "queued", "checking", "done"}]
    BY DEF Init, NoChecks
  <2>4. Cardinality(Checking) <= Checkers
    BY <1>2, BoundsAssumption
  <2>5. loop = "refresh" /\ ~due /\ ~sweepDue /\ sweeper /\ ~stopped
    BY DEF Init
  <2>6. due \in BOOLEAN /\ sweepDue \in BOOLEAN /\ sweeper \in BOOLEAN /\ stopped \in BOOLEAN
    BY DEF Init
  <2> QED
    BY <2>1, <2>2, <2>3, <2>4, <2>5, <2>6 DEF TypeOK
<1>5. LinesInv
  BY <1>3 DEF LinesInv, Init, NoChecks
<1>6. RoomInv /\ PoolBounded
  BY <1>2, SizeAssumption, BoundsAssumption DEF RoomInv, PoolBounded, Init
<1>7. LoopInv
  BY DEF LoopInv, Init, NoChecks
<1> QED
  BY <1>4, <1>5, <1>6, <1>7 DEF IInv

\* A step that changes neither the cache nor the answer and its checks, and moves
\* the loop to where no room is claimed, or leaves it where it is.
LEMMA QuietStep ==
  ASSUME IInv, UNCHANGED <<cache, lines, next, check>>,
         \/ loop' = loop
         \/ loop \notin {"spawn", "wait"} /\ loop' \in {"refresh", "select", "stopped"}
         \/ loop = "spawn" /\ loop' = "wait"
         \/ loop \notin {"spawn", "wait"} /\ loop' = "fetch" /\ CacheLen < Size,
         due' \in BOOLEAN, sweepDue' \in BOOLEAN, sweeper' \in BOOLEAN, stopped' \in BOOLEAN
  PROVE  IInv'
<1>1. Checking' = Checking /\ Keys' = Keys /\ CacheLen' = CacheLen /\ Pending' = Pending
  BY DEF Checking, Keys, CacheLen, Pending
<1>2. TypeOK'
  BY <1>1 DEF IInv, TypeOK
<1>3. LinesInv'
  BY DEF IInv, LinesInv
<1>4. RoomInv' /\ PoolBounded'
  BY <1>1 DEF IInv, RoomInv, PoolBounded
<1>5. LoopInv'
  BY DEF IInv, LoopInv
<1> QED
  BY <1>2, <1>3, <1>4, <1>5 DEF IInv

\* A step that only takes entries of the cache down.
LEMMA ForgettingStep ==
  ASSUME IInv, UNCHANGED <<lines, next, check, loop>>, Keys' \subseteq Keys,
         cache' \in [Addrs -> Absent..TTL],
         due' \in BOOLEAN, sweepDue' \in BOOLEAN, sweeper' \in BOOLEAN, stopped' \in BOOLEAN
  PROVE  IInv'
<1>1. Checking' = Checking /\ Pending' = Pending
  BY DEF Checking, Pending
<1>2. IsFiniteSet(Keys') /\ CacheLen' \in Nat /\ CacheLen \in Nat /\ CacheLen' <= CacheLen
  BY FewerKeys DEF IInv, RoomInv
<1>3. Len(lines) \in Nat /\ Cardinality(Pending) \in Nat
  BY LineTyping DEF IInv
<1>4. TypeOK'
  BY <1>1 DEF IInv, TypeOK
<1>5. LinesInv'
  BY DEF IInv, LinesInv
<1>6. RoomInv' /\ PoolBounded'
  BY <1>1, <1>2, <1>3, SizeAssumption, BoundsAssumption DEF IInv, RoomInv, PoolBounded
<1>7. LoopInv'
  BY DEF IInv, LoopInv
<1> QED
  BY <1>4, <1>5, <1>6, <1>7 DEF IInv

LEMMA FetchedStep ==
  ASSUME IInv, NEW answer \in Answers, Fetched(answer)
  PROVE  IInv'
<1>1. /\ lines' = answer /\ next' = 1 /\ check' = NoChecks /\ loop' = "spawn"
      /\ cache' = cache /\ loop = "fetch"
      /\ UNCHANGED <<due, sweepDue, sweeper, stopped>>
  BY DEF Fetched
<1>2. Len(answer) \in 0..MaxLines
  BY AnswersAreSequences
<1>3. Checking' = {}
  BY <1>1 DEF Checking, NoChecks
<1>4. Cardinality(Checking') = 0
  BY <1>3, FS_EmptySet
<1>5. TypeOK'
  BY <1>1, <1>4, BoundsAssumption DEF IInv, TypeOK, NoChecks
<1>6. LinesInv'
  BY <1>1, <1>2 DEF LinesInv, NoChecks
<1>7. Keys' = Keys /\ CacheLen' = CacheLen /\ IsFiniteSet(Keys) /\ CacheLen < Size /\ CacheLen \in Nat
  BY <1>1, FS_CardinalityType DEF Keys, CacheLen, IInv, RoomInv
<1>8. Pending' \subseteq 1..Len(answer)
  BY <1>1 DEF Pending
<1>9. Cardinality(Pending') <= Len(answer) /\ Cardinality(Pending') \in Nat
  <2>1. IsFiniteSet(1..Len(answer)) /\ Cardinality(1..Len(answer)) = Len(answer)
    <3>1. Len(answer) \in Nat
      BY <1>2, BoundsAssumption
    <3>2. /\ IsFiniteSet(1..Len(answer))
          /\ Cardinality(1..Len(answer)) = IF 1 > Len(answer) THEN 0 ELSE Len(answer) - 1 + 1
      BY <3>1, FS_Interval
    <3> QED
      BY <3>1, <3>2
  <2> QED
    BY <1>8, <2>1, FS_Subset, FS_CardinalityType
<1>10. RoomInv'
  BY <1>1, <1>2, <1>7, <1>9, SizeAssumption DEF RoomInv
<1>11. PoolBounded'
  BY <1>7 DEF PoolBounded, IInv
<1>12. LoopInv'
  BY <1>1 DEF LoopInv
<1> QED
  BY <1>5, <1>6, <1>10, <1>11, <1>12 DEF IInv

LEMMA SpawnCheckStep ==
  ASSUME IInv, SpawnCheck
  PROVE  IInv'
<1>1. /\ loop = "spawn" /\ next <= Len(lines)
      /\ check' = [check EXCEPT ![next] = "queued"]
      /\ next' = next + 1
      /\ UNCHANGED <<cache, loop, lines, due, sweepDue, sweeper, stopped>>
  BY DEF SpawnCheck
<1>2. /\ Len(lines) \in 0..MaxLines /\ 1..Len(lines) \subseteq Index
      /\ IsFiniteSet(Checking) /\ Cardinality(Checking) \in Nat
  BY LineTyping DEF IInv
<1>3. /\ next \in 1..(MaxLines + 1) /\ MaxLines \in Nat /\ Checkers \in Nat
      /\ check \in [Index -> {"none", "queued", "checking", "done"}]
  BY BoundsAssumption DEF IInv, TypeOK
<1>4. next \in Index /\ next \in 1..Len(lines)
  BY <1>1, <1>2, <1>3
<1>5. Checking' \subseteq Checking
  BY <1>1, <1>3 DEF Checking
<1>6. Cardinality(Checking') <= Cardinality(Checking) /\ Cardinality(Checking') \in Nat
  BY <1>2, <1>5, FS_Subset, FS_CardinalityType
<1>7. TypeOK'
  <2>1. next' \in 1..(MaxLines + 1)
    BY <1>1, <1>2, <1>3
  <2>2. check' \in [Index -> {"none", "queued", "checking", "done"}]
    BY <1>1, <1>3
  <2>3. Cardinality(Checking') <= Checkers
    BY <1>2, <1>3, <1>6 DEF IInv, TypeOK
  <2> QED
    BY <1>1, <2>1, <2>2, <2>3 DEF IInv, TypeOK
<1>8. LinesInv'
  BY <1>1, <1>2, <1>3, <1>4 DEF IInv, LinesInv
<1>9. Keys' = Keys /\ CacheLen' = CacheLen /\ 1..Len(lines) = (1..Len(lines))'
  BY <1>1 DEF Keys, CacheLen
<1>10. check[next] = "none"
  BY <1>3, <1>4 DEF IInv, LinesInv
<1>11. Pending' = Pending
  BY <1>1, <1>2, <1>3, <1>4, <1>10 DEF Pending
<1>12. RoomInv' /\ PoolBounded'
  BY <1>1, <1>9, <1>11 DEF IInv, RoomInv, PoolBounded
<1>13. LoopInv'
  BY <1>1 DEF LoopInv
<1> QED
  BY <1>7, <1>8, <1>12, <1>13 DEF IInv

\* A goroutine takes its slot only while fewer than poolCheckConcurrency are taken.
LEMMA BeginCheckStep ==
  ASSUME IInv, NEW i \in Index, BeginCheck(i)
  PROVE  IInv'
<1>1. /\ check[i] = "queued" /\ Cardinality(Checking) < Checkers
      /\ check' = [check EXCEPT ![i] = "checking"]
      /\ UNCHANGED <<cache, loop, lines, next, due, sweepDue, sweeper, stopped>>
  BY DEF BeginCheck
<1>2. IsFiniteSet(Checking) /\ Cardinality(Checking) \in Nat
  BY LineTyping DEF IInv
<1>3. check \in [Index -> {"none", "queued", "checking", "done"}] /\ Checkers \in Nat
  BY BoundsAssumption DEF IInv, TypeOK
<1>4. Checking' = Checking \cup {i}
  BY <1>1, <1>3 DEF Checking
<1>5. Cardinality(Checking') <= Checkers
  <2>1. Cardinality(Checking') = IF i \in Checking THEN Cardinality(Checking)
                                 ELSE Cardinality(Checking) + 1
    BY <1>2, <1>4, FS_AddElement
  <2> QED
    BY <1>1, <1>2, <1>3, <2>1
<1>6. TypeOK'
  BY <1>1, <1>3, <1>5 DEF IInv, TypeOK
<1>7. LinesInv'
  BY <1>1, <1>3 DEF IInv, LinesInv
<1>8. Keys' = Keys /\ CacheLen' = CacheLen /\ Pending' = Pending
  <2>1. 1..Len(lines) \subseteq Index
    BY LineTyping DEF IInv
  <2> QED
    BY <1>1, <1>3, <2>1 DEF Keys, CacheLen, Pending
<1>9. RoomInv' /\ PoolBounded'
  BY <1>1, <1>8 DEF IInv, RoomInv, PoolBounded
<1>10. LoopInv'
  BY <1>1, <1>3 DEF IInv, LoopInv
<1> QED
  BY <1>6, <1>7, <1>9, <1>10 DEF IInv

\* A goroutine that is done adds one address at most and is no longer pending.
LEMMA CheckEnds ==
  ASSUME IInv, NEW i \in Index, CheckPasses(i) \/ CheckFails(i)
  PROVE  IInv'
<1>1. /\ check[i] = "checking"
      /\ check' = [check EXCEPT ![i] = "done"]
      /\ UNCHANGED <<loop, lines, next, due, sweepDue, sweeper, stopped>>
  BY DEF CheckPasses, CheckFails
<1>2. cache' = cache \/ cache' = [cache EXCEPT ![lines[i]] = TTL]
  BY DEF CheckPasses, CheckFails, SetEntry
<1>3. /\ Len(lines) \in 0..MaxLines /\ 1..Len(lines) \subseteq Index
      /\ \A j \in 1..Len(lines) : lines[j] \in Addrs
      /\ IsFiniteSet(Checking) /\ Cardinality(Checking) \in Nat
      /\ IsFiniteSet(Pending) /\ Cardinality(Pending) \in Nat
  BY LineTyping DEF IInv
<1>4. /\ check \in [Index -> {"none", "queued", "checking", "done"}]
      /\ cache \in [Addrs -> Absent..TTL]
      /\ TTL \in Nat /\ Checkers \in Nat /\ MaxLines \in Nat /\ Size \in Nat
      /\ next \in 1..(MaxLines + 1)
      /\ Cardinality(Checking) <= Checkers
  BY BoundsAssumption, SizeAssumption DEF IInv, TypeOK
<1>5. i \in 1..Len(lines)
  <2>1. i < next /\ next <= Len(lines) + 1
    BY <1>1 DEF IInv, LinesInv
  <2> QED
    BY <1>3, <1>4, <2>1 DEF Index
<1>6. lines[i] \in Addrs
  BY <1>3, <1>5
<1>7. cache' \in [Addrs -> Absent..TTL]
  BY <1>2, <1>4, <1>6 DEF Absent
<1>8. Checking' \subseteq Checking
  BY <1>1, <1>4 DEF Checking
<1>9. Cardinality(Checking') <= Checkers
  BY <1>3, <1>4, <1>8, FS_Subset, FS_CardinalityType
<1>10. TypeOK'
  BY <1>1, <1>4, <1>7, <1>9 DEF IInv, TypeOK
<1>11. LinesInv'
  BY <1>1, <1>4 DEF IInv, LinesInv
<1>12. Keys' \subseteq Keys \cup {lines[i]}
  BY <1>2, <1>4, <1>6 DEF Keys
<1>13. IsFiniteSet(Keys') /\ CacheLen' \in Nat /\ CacheLen \in Nat /\ CacheLen' <= CacheLen + 1
  BY <1>12, OneMoreKey DEF IInv, RoomInv
<1>14. Pending' = Pending \ {i} /\ i \in Pending
  BY <1>1, <1>3, <1>4, <1>5 DEF Pending
<1>15. Cardinality(Pending') = Cardinality(Pending) - 1
  BY <1>3, <1>14, FS_RemoveElement
<1>16. loop \in {"spawn", "wait"}
  BY <1>1 DEF IInv, LoopInv
<1>17. CacheLen + Cardinality(Pending) < Size + Len(lines)
  BY <1>16 DEF IInv, RoomInv
<1>18. Cardinality(Pending') \in Nat
  BY <1>3, <1>14, FS_RemoveElement, FS_CardinalityType
<1>19. RoomInv'
  BY <1>1, <1>3, <1>4, <1>13, <1>15, <1>16, <1>17 DEF RoomInv
<1>20. PoolBounded'
  BY <1>3, <1>4, <1>13, <1>15, <1>17, <1>18 DEF PoolBounded
<1>21. LoopInv'
  BY <1>1, <1>16 DEF LoopInv
<1> QED
  BY <1>10, <1>11, <1>19, <1>20, <1>21 DEF IInv

LEMMA ChecksDoneStep ==
  ASSUME IInv, ChecksDone
  PROVE  IInv'
<1>1. /\ lines' = <<>> /\ next' = 1 /\ check' = NoChecks /\ loop' = "select"
      /\ UNCHANGED <<cache, due, sweepDue, sweeper, stopped>>
  BY DEF ChecksDone
<1>2. Checking' = {}
  BY <1>1 DEF Checking, NoChecks
<1>3. Cardinality(Checking') = 0
  BY <1>2, FS_EmptySet
<1>4. TypeOK'
  BY <1>1, <1>3, BoundsAssumption DEF IInv, TypeOK, NoChecks
<1>5. LinesInv' /\ LoopInv'
  BY <1>1 DEF LinesInv, LoopInv, NoChecks
<1>6. Keys' = Keys /\ CacheLen' = CacheLen
  BY <1>1 DEF Keys, CacheLen
<1>7. RoomInv' /\ PoolBounded'
  BY <1>1, <1>6 DEF IInv, RoomInv, PoolBounded
<1> QED
  BY <1>4, <1>5, <1>7 DEF IInv

LEMMA NextInv == IInv /\ [Next]_vars => IInv'
<1> SUFFICES ASSUME IInv, [Next]_vars PROVE IInv'
  OBVIOUS
<1>1. due \in BOOLEAN /\ sweepDue \in BOOLEAN /\ sweeper \in BOOLEAN /\ stopped \in BOOLEAN
  BY DEF IInv, TypeOK
<1>2. CASE TakeTick
  BY <1>1, <1>2, QuietStep DEF TakeTick
<1>3. CASE SkipRefresh
  BY <1>1, <1>3, QuietStep DEF SkipRefresh
<1>4. CASE BeginFetch
  BY <1>1, <1>4, QuietStep DEF BeginFetch
<1>5. CASE FetchFails
  BY <1>1, <1>5, QuietStep DEF FetchFails
<1>6. CASE SpawnCheck
  BY <1>6, SpawnCheckStep
<1>7. CASE SpawnEnds
  BY <1>1, <1>7, QuietStep DEF SpawnEnds
<1>8. CASE ChecksDone
  BY <1>8, ChecksDoneStep
<1>9. ASSUME NEW answer \in Answers, Fetched(answer)
      PROVE  IInv'
  BY <1>9, FetchedStep
<1>10. CASE LoopStops
  BY <1>1, <1>10, QuietStep DEF LoopStops
<1>11. ASSUME NEW i \in Index, CheckStep(i)
       PROVE  IInv'
  BY <1>11, BeginCheckStep, CheckEnds DEF CheckStep
<1>12. CASE Sweep
  <2>1. TypeOK /\ Clean
    BY <1>12 DEF Sweep, IInv
  <2>2. cache' \in [Addrs -> Absent..TTL] /\ Keys' \subseteq Keys
    BY <2>1, CleanIsHarmless
  <2> QED
    BY <1>1, <1>12, <2>2, ForgettingStep DEF Sweep
<1>13. CASE SweeperStops
  BY <1>1, <1>13, QuietStep DEF SweeperStops
<1>14. CASE Stop
  BY <1>1, <1>14, QuietStep DEF Stop
<1>15. CASE Tick
  <2>1. cache' \in [Addrs -> Absent..TTL] /\ Keys' \subseteq Keys
    BY <1>15, TickLosesKeys DEF IInv
  <2> QED
    BY <1>1, <1>15, <2>1, ForgettingStep DEF Tick
<1>16. CASE UNCHANGED vars
  BY <1>1, <1>16, QuietStep DEF vars
<1> QED
  BY <1>2, <1>3, <1>4, <1>5, <1>6, <1>7, <1>8, <1>9, <1>10, <1>11, <1>12, <1>13, <1>14,
     <1>15, <1>16 DEF Next, LoopStep

----------------------------------------------------------------------------
\* The theorems

THEOREM Invariance == Spec => []IInv
  BY InitInv, NextInv, PTL DEF Spec

\* The types hold, and no more than poolCheckConcurrency addresses are checked at
\* once, for every length of an answer.
THEOREM TypeCorrectness == Spec => []TypeOK
<1>1. IInv => TypeOK
  BY DEF IInv
<1> QED
  BY Invariance, <1>1, PTL

\* The cleanup goroutine takes nothing from the cache that Get or the keys could
\* still return.
THEOREM NothingSeenIsSwept == Spec => SweepingIsHarmless
<1>1. IInv /\ [Next]_vars => [sweepDue /\ ~sweepDue' => Keys' = Keys /\ Gettable' = Gettable]_vars
  <2> SUFFICES ASSUME IInv, [Next]_vars, sweepDue, ~sweepDue'
               PROVE  Keys' = Keys /\ Gettable' = Gettable
    OBVIOUS
  <2>1. CASE Sweep
    BY <2>1, CleanIsHarmless DEF IInv, Sweep
  <2> QED
    BY <2>1 DEF Next, LoopStep, CheckStep, LoopStops, TakeTick, SkipRefresh, BeginFetch, FetchFails,
       Fetched, SpawnCheck, SpawnEnds, ChecksDone, BeginCheck, CheckPasses, CheckFails,
       SweeperStops, Stop, Tick, vars
<1> QED
  BY Invariance, <1>1, PTL DEF Spec, SweepingIsHarmless

\* How far the pool outgrows its size: validateAndAdd looks at the length before
\* it starts a goroutine and the goroutines add later, so a refresh that begins
\* one address short can add every line of its answer, and no more.
THEOREM PoolIsBounded == Spec => []PoolBounded
<1>1. IInv => PoolBounded
  BY DEF IInv
<1> QED
  BY Invariance, <1>1, PTL

============================================================================
