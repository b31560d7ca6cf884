------------------------- MODULE RateLimiterProofs -------------------------
(***************************************************************************)
(* Proofs about RateLimiter, for every number of calls, tools, permits and *)
(* quotas: its types, that the gate is never overrun, that no call waits   *)
(* at a gate that is not full, and that no minute sees more calls of a     *)
(* tool than its quota, cancelled reservations included.                   *)
(***************************************************************************)
EXTENDS RateLimiter, FunctionTheorems, FiniteSetTheorems, SequenceTheorems, TLAPS

\* The calls that hold a permit of the gate.
Busy == {c \in Calls : call[c] \in {"permit", "sleep", "handler"} /\ Tool[c] \in Restricted}

----------------------------------------------------------------------------
\* The inductive invariant, part by part

\* Only calls of restricted tools wait, each of them once.
QueueInv ==
  /\ \A c \in Calls : call[c] \in {"queued", "permit", "sleep"} => Tool[c] \in Restricted
  /\ \A i \in 1..Len(queue) : call[queue[i]] = "queued"
  /\ \A i, j \in 1..Len(queue) : queue[i] = queue[j] => i = j

\* The permits in use are those of the busy calls, and while calls wait none is
\* free.
GateInv ==
  /\ held = Cardinality(Busy)
  /\ queue # <<>> => held = MaxConcurrent

\* Reservations of one limiter that are not forgotten are a period apart, and
\* its next token comes at least a period after each of them. This is what makes
\* it safe to give a token back that no later reservation was made on top of.
SpacingInv ==
  \A c \in Calls : act[c] > Forgotten =>
    /\ Tool[c] \in Restricted
    /\ act[c] + Period(Tool[c]) <= token[Tool[c]]
    /\ \A d \in Calls \ {c} : act[d] > Forgotten /\ Tool[d] = Tool[c] =>
         act[c] + Period(Tool[c]) <= act[d] \/ act[d] + Period(Tool[c]) <= act[c]

IInv == TypeOK /\ QueueInv /\ GateInv /\ SpacingInv

----------------------------------------------------------------------------
\* Arithmetic of periods and slots

\* Division leaves a remainder below the divisor.
LEMMA DivisionWithRemainder ==
  ASSUME NEW P \in Int, P > 0, NEW x \in Nat
  PROVE  /\ x \div P \in Int
         /\ P * (x \div P) <= x /\ x < P * (x \div P) + P
         /\ x % P = 0 => x = P * (x \div P)
<1>1. x \div P \in Int /\ P * (x \div P) <= x
  OBVIOUS
<1>2. x - P * (x \div P) < P
  OBVIOUS
<1>3. x % P = x - P * (x \div P)
  OBVIOUS
<1>4. P * (x \div P) \in Int
  BY <1>1
<1> QED
  BY <1>1, <1>2, <1>3, <1>4

\* A product with a positive factor is ordered like the other factor.
LEMMA ProductOrder ==
  ASSUME NEW P \in Int, P > 0, NEW a \in Int, NEW b \in Int, a < b
  PROVE  P * a + P <= P * b
OBVIOUS

\* A minute is made of as many whole periods as the quota allows calls.
LEMMA PeriodDividesMinute ==
  ASSUME NEW t \in Restricted
  PROVE  /\ PerMin[t] \in 1..TicksPerMinute /\ Period(t) \in 1..TicksPerMinute
         /\ PerMin[t] * Period(t) = TicksPerMinute
<1> DEFINE n == PerMin[t]
           d == TicksPerMinute \div n
<1>1. TicksPerMinute \in Nat \ {0} /\ n \in 1..TicksPerMinute /\ TicksPerMinute % n = 0
  BY TicksAssumption, PerMinAssumption, PeriodAssumption
<1>2. d \in Int /\ n * d = TicksPerMinute
  BY <1>1, DivisionWithRemainder
<1>3. Period(t) = d
  BY DEF Period
<1> HIDE DEF n, d
<1>4. d > 0
  BY <1>1, <1>2
<1>5. d <= n * d
  BY <1>1, <1>2, <1>4
<1> QED
  BY <1>1, <1>2, <1>3, <1>4, <1>5 DEF n

\* An offset within n periods falls into one of n slots.
LEMMA SlotRange ==
  ASSUME NEW P \in Nat, P > 0, NEW n \in Nat, NEW x \in Nat, x < P * n
  PROVE  x \div P \in 0..(n - 1)
<1> DEFINE d == x \div P
<1>1. d \in Int /\ P * d <= x /\ x < P * d + P
  BY DivisionWithRemainder
<1> HIDE DEF d
<1>2. P * d \in Int /\ P * n \in Int /\ P * 0 = 0 /\ 0 \in Int
  BY <1>1
<1>3. d >= 0
  BY <1>1, <1>2, ProductOrder
<1>4. d < n
  <2>1. CASE n < d
    BY <1>1, <1>2, <2>1, ProductOrder
  <2> QED
    BY <1>1, <1>2, <2>1
<1> QED
  BY <1>1, <1>3, <1>4 DEF d

\* Two offsets a period apart fall into different slots.
LEMMA SlotsDiffer ==
  ASSUME NEW P \in Nat, P > 0, NEW x \in Nat, NEW y \in Nat, x + P <= y
  PROVE  x \div P # y \div P
<1> DEFINE d == x \div P
           e == y \div P
<1>1. d \in Int /\ P * d <= x /\ x < P * d + P
  BY DivisionWithRemainder
<1>2. e \in Int /\ P * e <= y /\ y < P * e + P
  BY DivisionWithRemainder
<1> HIDE DEF d, e
<1>3. d # e
  <2>1. SUFFICES ASSUME d = e PROVE FALSE
    OBVIOUS
  <2>2. P * d \in Int
    BY <1>1
  <2> QED
    BY <1>1, <1>2, <2>1, <2>2
<1> QED
  BY <1>3 DEF d, e

----------------------------------------------------------------------------
\* Sets of calls and the queue

\* The busy calls are finitely many; one more or one less counts for one.
LEMMA BusyCalls ==
  /\ IsFiniteSet(Busy) /\ Cardinality(Busy) \in Nat
  /\ \A c \in Calls \ Busy : Cardinality(Busy \cup {c}) = Cardinality(Busy) + 1
  /\ \A c \in Busy : Cardinality(Busy \ {c}) = Cardinality(Busy) - 1
<1>1. IsFiniteSet(Busy)
  BY CallsAssumption, FS_Subset DEF Busy
<1> QED
  BY <1>1, FS_CardinalityType, FS_AddElement, FS_RemoveElement

\* RemoveAt leaves the other elements in their order.
LEMMA RemoveAtElements ==
  ASSUME NEW s \in Seq(Calls), NEW i \in 1..Len(s)
  PROVE  /\ RemoveAt(s, i) \in Seq(Calls)
         /\ Len(RemoveAt(s, i)) = Len(s) - 1
         /\ \A j \in 1..(Len(s) - 1) :
              RemoveAt(s, i)[j] = IF j < i THEN s[j] ELSE s[j + 1]
<1>1. Len(s) \in Nat
  BY LenProperties
<1>2. /\ SubSeq(s, 1, i - 1) \in Seq(Calls)
      /\ Len(SubSeq(s, 1, i - 1)) = i - 1
      /\ \A j \in 1..(i - 1) : SubSeq(s, 1, i - 1)[j] = s[j]
  BY <1>1, SubSeqProperties
<1>3. /\ SubSeq(s, i + 1, Len(s)) \in Seq(Calls)
      /\ Len(SubSeq(s, i + 1, Len(s))) = Len(s) - i
      /\ \A j \in 1..(Len(s) - i) : SubSeq(s, i + 1, Len(s))[j] = s[i + j]
  BY <1>1, SubSeqProperties
<1> QED
  <2> DEFINE a == SubSeq(s, 1, i - 1)
             b == SubSeq(s, i + 1, Len(s))
  <2>1. /\ a \in Seq(Calls) /\ Len(a) = i - 1 /\ \A j \in 1..(i - 1) : a[j] = s[j]
        /\ b \in Seq(Calls) /\ Len(b) = Len(s) - i /\ \A j \in 1..(Len(s) - i) : b[j] = s[i + j]
    BY <1>2, <1>3
  <2>2. RemoveAt(s, i) = a \o b
    BY DEF RemoveAt
  <2> HIDE DEF a, b
  <2>3. /\ a \o b \in Seq(Calls) /\ Len(a \o b) = Len(a) + Len(b)
        /\ \A j \in 1..(Len(a) + Len(b)) :
             (a \o b)[j] = IF j <= Len(a) THEN a[j] ELSE b[j - Len(a)]
    BY <2>1, ConcatProperties
  <2> QED
    BY <1>1, <2>1, <2>2, <2>3

----------------------------------------------------------------------------
\* The initial states

\* An idle middleware satisfies the invariant.
LEMMA InitInvariant == Init => IInv
<1> SUFFICES ASSUME Init PROVE IInv
  OBVIOUS
<1>1. /\ TicksPerMinute \in Nat \ {0} /\ MaxBacklog \in Nat /\ MaxConcurrent \in Nat
      /\ Forgotten = -TicksPerMinute
  BY TicksAssumption, MaxConcurrentAssumption DEF Forgotten
<1>2. TypeOK
  <2>1. queue \in Seq(Calls)
    BY DEF Init
  <2>2. act \in [Calls -> Forgotten..MaxBacklog]
    BY <1>1 DEF Init
  <2>3. token \in [Restricted -> 0..(MaxBacklog + TicksPerMinute)] /\ held \in 0..MaxConcurrent
    BY <1>1 DEF Init
  <2> QED
    BY <2>1, <2>2, <2>3 DEF Init, TypeOK
<1>3. QueueInv
  BY EmptySeq DEF Init, QueueInv
<1>4. GateInv
  <2>1. Busy = {}
    BY DEF Init, Busy
  <2> QED
    BY <2>1, FS_EmptySet DEF Init, GateInv
<1>5. SpacingInv
  BY <1>1 DEF Init, SpacingInv
<1> QED
  BY <1>2, <1>3, <1>4, <1>5 DEF IInv

----------------------------------------------------------------------------
\* The gate

\* What the deferred Release does to the gate. The call that ends loses its
\* permit; the first of the queue gets it, or nobody waits and it is free.
LEMMA EndKeepsGate ==
  ASSUME TypeOK, QueueInv, GateInv, NEW c \in Busy, NEW how \in {"answered", "failed"},
         End(c, how)
  PROVE  /\ call' \in [Calls -> {"idle", "queued", "permit", "sleep", "handler",
                                 "answered", "failed"}]
         /\ queue' \in Seq(Calls) /\ held' \in 0..MaxConcurrent
         /\ QueueInv' /\ GateInv'
<1>1. c \in Calls /\ call[c] \in {"permit", "sleep", "handler"} /\ Tool[c] \in Restricted
  BY DEF Busy
<1>2. /\ call \in [Calls -> {"idle", "queued", "permit", "sleep", "handler",
                             "answered", "failed"}]
      /\ queue \in Seq(Calls) /\ held \in 0..MaxConcurrent
      /\ MaxConcurrent \in Nat
  BY MaxConcurrentAssumption DEF TypeOK
<1>3. CASE queue = <<>>
  <2>1. call' = [call EXCEPT ![c] = how] /\ held' = held - 1 /\ queue' = <<>>
    BY <1>3 DEF End
  <2>2. Busy' = Busy \ {c}
    BY <1>1, <1>2, <2>1 DEF Busy
  <2>3. held' = Cardinality(Busy')
    BY <2>1, <2>2, BusyCalls DEF GateInv
  <2>4. held' \in 0..MaxConcurrent
    <3>1. IsFiniteSet(Busy')
      BY <2>2, BusyCalls, FS_Subset
    <3>2. held' \in Nat
      BY <2>3, <3>1, FS_CardinalityType
    <3> QED
      BY <1>2, <2>1, <3>2
  <2>5. QueueInv'
    BY <1>1, <1>2, <2>1, EmptySeq DEF QueueInv
  <2>6. call' \in [Calls -> {"idle", "queued", "permit", "sleep", "handler",
                             "answered", "failed"}]
    BY <1>2, <2>1
  <2>7. queue' \in Seq(Calls)
    BY <1>2, <1>3, <2>1
  <2> QED
    BY <2>1, <2>3, <2>4, <2>5, <2>6, <2>7 DEF GateInv
<1>4. CASE queue # <<>>
  <2> DEFINE h == Head(queue)
  <2>1. /\ call' = [call EXCEPT ![c] = how, ![h] = "permit"]
        /\ queue' = Tail(queue) /\ held' = held
    BY <1>4 DEF End
  <2>2. /\ h \in Calls /\ queue' \in Seq(Calls) /\ Len(queue') = Len(queue) - 1
        /\ \A i \in 1..(Len(queue) - 1) : queue'[i] = queue[i + 1]
        /\ Len(queue) \in Nat /\ Len(queue) >= 1
    BY <1>2, <1>4, <2>1, HeadTailProperties, LenProperties, EmptySeq
  <2>3. h = queue[1]
    BY <1>2, <1>4
  <2>4. call[h] = "queued" /\ Tool[h] \in Restricted /\ h # c
    BY <1>1, <2>2, <2>3 DEF QueueInv
  <2> HIDE DEF h
  <2>5. Busy' = (Busy \ {c}) \cup {h} /\ h \notin Busy
    BY <1>1, <1>2, <2>1, <2>2, <2>4 DEF Busy
  <2>6. Cardinality(Busy') = Cardinality(Busy)
    <3>1. /\ IsFiniteSet(Busy \ {c}) /\ Cardinality(Busy \ {c}) = Cardinality(Busy) - 1
          /\ Cardinality(Busy) \in Nat
      BY BusyCalls, FS_Subset
    <3>2. Cardinality((Busy \ {c}) \cup {h}) = Cardinality(Busy \ {c}) + 1
      BY <2>5, <3>1, FS_AddElement
    <3> QED
      BY <2>5, <3>1, <3>2
  <2>7. \A i \in 1..Len(queue') : i + 1 \in 1..Len(queue) /\ queue'[i] = queue[i + 1]
                                  /\ queue'[i] \notin {c, h} /\ queue'[i] \in Calls
    <3>1. ASSUME NEW i \in 1..Len(queue')
          PROVE  i + 1 \in 1..Len(queue) /\ queue'[i] = queue[i + 1] /\ i + 1 # 1
                 /\ 1 \in 1..Len(queue)
      BY <2>2, <3>1
    <3>2. \A j \in 1..Len(queue) : queue[j] \in Calls /\ queue[j] # c
      BY <1>1, <1>2, ElementOfSeq DEF QueueInv
    <3> QED
      BY <2>3, <3>1, <3>2 DEF QueueInv
  <2>8. QueueInv'
    <3>1. \A d \in Calls : call'[d] \in {"queued", "permit", "sleep"} => Tool[d] \in Restricted
      BY <1>2, <2>1, <2>2, <2>4 DEF QueueInv
    <3>2. \A i \in 1..Len(queue') : call'[queue'[i]] = "queued"
      BY <1>2, <2>1, <2>7 DEF QueueInv
    <3>3. \A i, j \in 1..Len(queue') : queue'[i] = queue'[j] => i = j
      <4>1. ASSUME NEW i \in 1..Len(queue'), NEW j \in 1..Len(queue'), queue'[i] = queue'[j]
            PROVE  i = j
        <5>1. i + 1 = j + 1
          BY <2>7, <4>1 DEF QueueInv
        <5> QED
          BY <2>2, <5>1
      <4> QED
        BY <4>1
    <3> QED
      BY <3>1, <3>2, <3>3 DEF QueueInv
  <2>9. GateInv'
    BY <1>4, <2>1, <2>6 DEF GateInv
  <2>10. call' \in [Calls -> {"idle", "queued", "permit", "sleep", "handler",
                              "answered", "failed"}]
    BY <1>1, <1>2, <2>1, <2>2
  <2> QED
    BY <1>2, <2>1, <2>2, <2>8, <2>9, <2>10
<1> QED
  BY <1>3, <1>4

\* Every step keeps the gate: a permit is taken only while one is free, a call
\* queues only while none is, and a call that gives up waiting leaves the others
\* in their order.
LEMMA GateStep ==
  IInv /\ [Next]_vars =>
    /\ call' \in [Calls -> {"idle", "queued", "permit", "sleep", "handler",
                            "answered", "failed"}]
    /\ queue' \in Seq(Calls) /\ held' \in 0..MaxConcurrent
    /\ QueueInv' /\ GateInv'
<1> SUFFICES ASSUME IInv, [Next]_vars
             PROVE  /\ call' \in [Calls -> {"idle", "queued", "permit", "sleep", "handler",
                                            "answered", "failed"}]
                    /\ queue' \in Seq(Calls) /\ held' \in 0..MaxConcurrent
                    /\ QueueInv' /\ GateInv'
  OBVIOUS
<1> DEFINE Goal == /\ call' \in [Calls -> {"idle", "queued", "permit", "sleep", "handler",
                                           "answered", "failed"}]
                   /\ queue' \in Seq(Calls) /\ held' \in 0..MaxConcurrent
                   /\ QueueInv' /\ GateInv'
<1>1. /\ call \in [Calls -> {"idle", "queued", "permit", "sleep", "handler",
                             "answered", "failed"}]
      /\ queue \in Seq(Calls) /\ held \in 0..MaxConcurrent
      /\ MaxConcurrent \in Nat \ {0}
      /\ TypeOK /\ QueueInv /\ GateInv
  BY MaxConcurrentAssumption DEF IInv, TypeOK
<1>2. Len(queue) \in Nat /\ \A i \in 1..Len(queue) : queue[i] \in Calls
  BY <1>1, LenProperties, ElementOfSeq
<1>3. ASSUME NEW c \in Calls, NEW stage \in {"idle", "sleep", "handler", "answered", "failed"},
             call' = [call EXCEPT ![c] = stage], queue' = queue, held' = held,
             call[c] # "queued", c \in Busy <=> stage \in {"sleep", "handler"} /\ Tool[c] \in Restricted,
             stage = "sleep" => c \in Busy
      PROVE  Goal
  <2>1. Busy' = Busy
    BY <1>1, <1>3 DEF Busy
  <2>2. GateInv'
    BY <1>1, <1>3, <2>1 DEF GateInv
  <2>3. QueueInv'
    <3>1. \A d \in Calls : call'[d] \in {"queued", "permit", "sleep"} => Tool[d] \in Restricted
      BY <1>1, <1>3 DEF QueueInv, Busy
    <3>2. \A i \in 1..Len(queue) : call'[queue[i]] = "queued"
      BY <1>1, <1>2, <1>3 DEF QueueInv
    <3> QED
      BY <1>1, <1>3, <3>1, <3>2 DEF QueueInv
  <2>4. call' \in [Calls -> {"idle", "queued", "permit", "sleep", "handler",
                             "answered", "failed"}]
    BY <1>1, <1>3
  <2> QED
    BY <1>1, <1>3, <2>2, <2>3, <2>4
<1>4. ASSUME NEW c \in Calls, Pass(c) PROVE Goal
  <2>1. /\ call' = [call EXCEPT ![c] = "handler"] /\ queue' = queue /\ held' = held
        /\ call[c] = "idle" /\ Tool[c] \notin Restricted
    BY <1>4 DEF Pass
  <2>2. c \notin Busy
    BY <2>1 DEF Busy
  <2> QED
    BY <1>3, <2>1, <2>2
<1>5. ASSUME NEW c \in Calls, Enter(c) PROVE Goal
  <2>1. call[c] = "idle" /\ Tool[c] \in Restricted
    BY <1>5 DEF Enter
  <2>2. \A i \in 1..Len(queue) : queue[i] # c
    BY <1>1, <2>1 DEF QueueInv
  <2>3. CASE held < MaxConcurrent
    <3>1. held' = held + 1 /\ call' = [call EXCEPT ![c] = "permit"] /\ queue' = queue
      BY <1>5, <2>3 DEF Enter
    <3>2. Busy' = Busy \cup {c} /\ c \notin Busy
      BY <1>1, <2>1, <3>1 DEF Busy
    <3>3. GateInv'
      BY <1>1, <2>3, <3>1, <3>2, BusyCalls DEF GateInv
    <3>4. QueueInv'
      BY <1>1, <1>2, <2>1, <2>2, <3>1 DEF QueueInv
    <3> QED
      BY <1>1, <2>3, <3>1, <3>3, <3>4
  <2>4. CASE ~(held < MaxConcurrent)
    <3>1. queue' = Append(queue, c) /\ call' = [call EXCEPT ![c] = "queued"] /\ held' = held
      BY <1>5, <2>4 DEF Enter
    <3>2. Busy' = Busy
      BY <1>1, <2>1, <3>1 DEF Busy
    <3>3. GateInv'
      BY <1>1, <2>4, <3>1, <3>2 DEF GateInv
    <3>4. /\ queue' \in Seq(Calls) /\ Len(queue') = Len(queue) + 1
          /\ \A i \in 1..Len(queue) : queue'[i] = queue[i]
          /\ queue'[Len(queue) + 1] = c
      BY <1>1, <3>1, AppendProperties
    <3>5. \A i \in 1..Len(queue') : i \in 1..Len(queue) \/ i = Len(queue) + 1
      BY <1>2, <3>4
    <3>6. \A d \in Calls : call'[d] = IF d = c THEN "queued" ELSE call[d]
      BY <1>1, <3>1
    <3>7. \A i \in 1..Len(queue') : call'[queue'[i]] = "queued"
      BY <1>1, <1>2, <2>2, <3>4, <3>5, <3>6 DEF QueueInv
    <3>8. \A i, j \in 1..Len(queue') : queue'[i] = queue'[j] => i = j
      BY <1>1, <2>2, <3>4, <3>5 DEF QueueInv
    <3>9. QueueInv'
      BY <1>1, <2>1, <3>6, <3>7, <3>8 DEF QueueInv
    <3>10. call' \in [Calls -> {"idle", "queued", "permit", "sleep", "handler",
                                "answered", "failed"}]
      BY <1>1, <3>1
    <3> QED
      BY <1>1, <3>1, <3>3, <3>4, <3>9, <3>10
  <2> QED
    BY <2>3, <2>4
<1>6. ASSUME NEW c \in Calls, LeaveQueue(c) PROVE Goal
  <2>1. PICK i \in 1..Len(queue) : queue[i] = c /\ queue' = RemoveAt(queue, i)
    BY <1>6 DEF LeaveQueue
  <2>2. call[c] = "queued" /\ call' = [call EXCEPT ![c] = "failed"] /\ held' = held
    BY <1>6 DEF LeaveQueue
  <2>3. Busy' = Busy
    BY <1>1, <2>2 DEF Busy
  <2>4. GateInv'
    <3>1. queue # <<>>
      BY <1>1, <2>1, EmptySeq
    <3> QED
      BY <1>1, <2>2, <2>3, <3>1 DEF GateInv
  <2>5. /\ queue' \in Seq(Calls) /\ Len(queue') = Len(queue) - 1
        /\ \A j \in 1..(Len(queue) - 1) : queue'[j] = IF j < i THEN queue[j] ELSE queue[j + 1]
    BY <1>1, <2>1, RemoveAtElements
  <2> DEFINE old(j) == IF j < i THEN j ELSE j + 1
  <2>6. ASSUME NEW j \in 1..Len(queue')
        PROVE  old(j) \in 1..Len(queue) /\ old(j) # i /\ queue'[j] = queue[old(j)]
    BY <1>2, <2>5, <2>6
  <2>7. \A j, k \in 1..Len(queue') : old(j) = old(k) => j = k
    BY <1>2, <2>5
  <2> HIDE DEF old
  <2>8. ASSUME NEW j \in 1..Len(queue') PROVE call'[queue'[j]] = "queued"
    <3>1. queue[old(j)] # c /\ queue[old(j)] \in Calls /\ call[queue[old(j)]] = "queued"
      BY <1>1, <1>2, <2>1, <2>6, <2>8 DEF QueueInv
    <3> QED
      BY <1>1, <2>2, <2>6, <2>8, <3>1
  <2>9. \A j, k \in 1..Len(queue') : queue'[j] = queue'[k] => j = k
    BY <1>1, <2>6, <2>7 DEF QueueInv
  <2>10. QueueInv'
    BY <1>1, <2>2, <2>8, <2>9 DEF QueueInv
  <2>11. call' \in [Calls -> {"idle", "queued", "permit", "sleep", "handler",
                              "answered", "failed"}]
    BY <1>1, <2>2
  <2> QED
    BY <1>1, <2>2, <2>4, <2>5, <2>10, <2>11
<1>7. ASSUME NEW c \in Calls, Reserve(c) PROVE Goal
  <2>1. /\ call' = [call EXCEPT ![c] = "sleep"] /\ queue' = queue /\ held' = held
        /\ call[c] = "permit"
    BY <1>7 DEF Reserve
  <2>2. c \in Busy
    BY <1>1, <2>1 DEF QueueInv, Busy
  <2>3. Tool[c] \in Restricted
    BY <2>2 DEF Busy
  <2> QED
    BY <1>3, <2>1, <2>2, <2>3
<1>8. ASSUME NEW c \in Calls, Refuse(c) \/ CancelWait(c) PROVE Goal
  <2>1. call[c] \in {"permit", "sleep"} /\ End(c, "failed")
    BY <1>8 DEF Refuse, CancelWait
  <2>2. c \in Busy
    BY <1>1, <2>1 DEF QueueInv, Busy
  <2> QED
    BY <1>1, <2>1, <2>2, EndKeepsGate
<1>9. ASSUME NEW c \in Calls, WakeUp(c) PROVE Goal
  <2>1. /\ call' = [call EXCEPT ![c] = "handler"] /\ queue' = queue /\ held' = held
        /\ call[c] = "sleep"
    BY <1>9 DEF WakeUp
  <2>2. c \in Busy /\ Tool[c] \in Restricted
    BY <1>1, <2>1 DEF QueueInv, Busy
  <2> QED
    BY <1>3, <2>1, <2>2
<1>10. ASSUME NEW c \in Calls, Answer(c) PROVE Goal
  <2>1. CASE Tool[c] \in Restricted
    <3>1. call[c] = "handler" /\ End(c, "answered")
      BY <1>10, <2>1 DEF Answer
    <3>2. c \in Busy
      BY <2>1, <3>1 DEF Busy
    <3> QED
      BY <1>1, <3>1, <3>2, EndKeepsGate
  <2>2. CASE Tool[c] \notin Restricted
    <3>1. /\ call' = [call EXCEPT ![c] = "answered"] /\ queue' = queue /\ held' = held
          /\ call[c] = "handler"
      BY <1>10, <2>2 DEF Answer
    <3>2. c \notin Busy
      BY <2>2 DEF Busy
    <3> QED
      BY <1>3, <3>1, <3>2
  <2> QED
    BY <2>1, <2>2
<1>11. ASSUME NEW c \in Calls, Reuse(c) PROVE Goal
  <2>1. /\ call' = [call EXCEPT ![c] = "idle"] /\ queue' = queue /\ held' = held
        /\ call[c] \in {"answered", "failed"}
    BY <1>11 DEF Reuse
  <2>2. c \notin Busy
    BY <2>1 DEF Busy
  <2> QED
    BY <1>3, <2>1, <2>2
<1>12. CASE Tick \/ UNCHANGED vars
  <2>1. UNCHANGED <<call, queue, held>>
    BY <1>12 DEF Tick, vars
  <2>2. Busy' = Busy
    BY <2>1 DEF Busy
  <2> QED
    BY <1>1, <2>1, <2>2 DEF QueueInv, GateInv
<1> QED
  BY <1>4, <1>5, <1>6, <1>7, <1>8, <1>9, <1>10, <1>11, <1>12 DEF Next, Middleware

----------------------------------------------------------------------------
\* The limiters

\* Every step keeps the reservations apart. Reserve takes the place the token was
\* at, which is a period after all others; CancelWait moves the token back only
\* to the reservation it gives up, which all others precede by a period.
LEMMA LimiterStep ==
  IInv /\ [Next]_vars =>
    /\ token' \in [Restricted -> 0..(MaxBacklog + TicksPerMinute)]
    /\ act' \in [Calls -> Forgotten..MaxBacklog]
    /\ SpacingInv'
<1> SUFFICES ASSUME IInv, [Next]_vars
             PROVE  /\ token' \in [Restricted -> 0..(MaxBacklog + TicksPerMinute)]
                    /\ act' \in [Calls -> Forgotten..MaxBacklog]
                    /\ SpacingInv'
  OBVIOUS
<1> DEFINE Goal == /\ token' \in [Restricted -> 0..(MaxBacklog + TicksPerMinute)]
                   /\ act' \in [Calls -> Forgotten..MaxBacklog]
                   /\ SpacingInv'
<1>1. /\ TicksPerMinute \in Nat \ {0} /\ MaxBacklog \in Nat
      /\ Forgotten = -TicksPerMinute
  BY TicksAssumption DEF Forgotten
<1>2. /\ token \in [Restricted -> 0..(MaxBacklog + TicksPerMinute)]
      /\ act \in [Calls -> Forgotten..MaxBacklog]
      /\ QueueInv /\ SpacingInv
  BY DEF IInv, TypeOK
<1>3. \A t \in Restricted : Period(t) \in 1..TicksPerMinute
  BY PeriodDividesMinute
<1>4. ASSUME NEW c \in Calls, Reserve(c) PROVE Goal
  <2> DEFINE t == Tool[c]
             P == Period(t)
  <2>1. /\ call[c] = "permit" /\ token[t] <= MaxBacklog
        /\ act' = [act EXCEPT ![c] = token[t]]
        /\ token' = [token EXCEPT ![t] = token[t] + P]
    BY <1>4 DEF Reserve
  <2>2. t \in Restricted /\ P \in 1..TicksPerMinute /\ token[t] \in 0..MaxBacklog
    BY <1>2, <1>3, <2>1 DEF QueueInv
  <2> HIDE DEF P, t
  <2>3. token' \in [Restricted -> 0..(MaxBacklog + TicksPerMinute)]
    BY <1>1, <1>2, <2>1, <2>2
  <2>4. act' \in [Calls -> Forgotten..MaxBacklog]
    BY <1>1, <1>2, <2>1, <2>2
  <2>5. /\ act'[c] = token[t] /\ \A d \in Calls \ {c} : act'[d] = act[d]
        /\ token'[t] = token[t] + P /\ \A u \in Restricted \ {t} : token'[u] = token[u]
    BY <1>2, <2>1, <2>2
  <2>6. ASSUME NEW d \in Calls, d # c, act[d] > Forgotten, Tool[d] = t
        PROVE  act[d] + P <= token[t] /\ act[d] \in Int /\ P \in Int /\ token[t] \in Int
    BY <1>1, <1>2, <2>2, <2>6 DEF SpacingInv, P
  <2>7. ASSUME NEW d \in Calls, act'[d] > Forgotten
        PROVE  /\ Tool[d] \in Restricted
               /\ act'[d] + Period(Tool[d]) <= token'[Tool[d]]
               /\ \A e \in Calls \ {d} : act'[e] > Forgotten /\ Tool[e] = Tool[d] =>
                    \/ act'[d] + Period(Tool[d]) <= act'[e]
                    \/ act'[e] + Period(Tool[d]) <= act'[d]
    <3>1. CASE d = c
      BY <2>2, <2>5, <2>6, <3>1 DEF P, t
    <3>2. CASE d # c
      <4>1. act[d] > Forgotten /\ act'[d] = act[d]
        BY <2>5, <2>7, <3>2
      <4>2. /\ Tool[d] \in Restricted
            /\ act[d] + Period(Tool[d]) <= token[Tool[d]]
            /\ \A e \in Calls \ {d} : act[e] > Forgotten /\ Tool[e] = Tool[d] =>
                 \/ act[d] + Period(Tool[d]) <= act[e]
                 \/ act[e] + Period(Tool[d]) <= act[d]
        BY <1>2, <4>1 DEF SpacingInv
      <4>3. act[d] \in Int /\ Period(Tool[d]) \in Int /\ token[Tool[d]] \in Int
        BY <1>1, <1>2, <1>3, <4>2
      <4>4. act'[d] + Period(Tool[d]) <= token'[Tool[d]]
        BY <2>2, <2>5, <4>1, <4>2, <4>3
      <4>5. ASSUME NEW e \in Calls \ {d}, act'[e] > Forgotten, Tool[e] = Tool[d]
            PROVE  \/ act'[d] + Period(Tool[d]) <= act'[e]
                   \/ act'[e] + Period(Tool[d]) <= act'[d]
        <5>1. CASE e = c
          BY <2>5, <2>6, <3>2, <4>1, <4>5, <5>1 DEF P, t
        <5>2. CASE e # c
          BY <2>5, <4>1, <4>2, <4>5, <5>2
        <5> QED
          BY <5>1, <5>2
      <4> QED
        BY <4>2, <4>4, <4>5
    <3> QED
      BY <3>1, <3>2
  <2> QED
    BY <2>3, <2>4, <2>7 DEF SpacingInv
<1>5. ASSUME NEW c \in Calls, CancelWait(c) PROVE Goal
  <2> DEFINE t == Tool[c]
             P == Period(t)
             back == act[c] >= 0 /\ token[t] = act[c] + P
  <2>1. /\ call[c] = "sleep"
        /\ token' = IF back THEN [token EXCEPT ![t] = act[c]] ELSE token
        /\ act' = [act EXCEPT ![c] = Forgotten]
    BY <1>5 DEF CancelWait
  <2>2. /\ t \in Restricted /\ P \in 1..TicksPerMinute
        /\ token[t] \in 0..(MaxBacklog + TicksPerMinute) /\ act[c] \in Forgotten..MaxBacklog
    BY <1>2, <1>3, <2>1 DEF QueueInv
  <2> HIDE DEF P, t
  <2>3. token' \in [Restricted -> 0..(MaxBacklog + TicksPerMinute)]
    BY <1>1, <1>2, <2>1, <2>2
  <2>4. act' \in [Calls -> Forgotten..MaxBacklog]
    BY <1>1, <1>2, <2>1, <2>2
  <2>5. /\ act'[c] = Forgotten /\ \A d \in Calls \ {c} : act'[d] = act[d]
        /\ \A u \in Restricted \ {t} : token'[u] = token[u]
        /\ token'[t] = IF back THEN act[c] ELSE token[t]
    BY <1>2, <2>1, <2>2
  <2>6. ASSUME NEW d \in Calls, d # c, act[d] > Forgotten, Tool[d] = t
        PROVE  act[d] + P <= token'[t]
    <3>1. act[d] + P <= token[t] /\ act[d] \in Int /\ P \in 1..TicksPerMinute
      BY <1>1, <1>2, <2>2, <2>6 DEF SpacingInv, P
    <3>2. CASE back
      <4>1. act[c] > Forgotten
        BY <1>1, <2>2, <3>2
      <4>2. act[c] + P <= act[d] \/ act[d] + P <= act[c]
        BY <1>2, <2>6, <4>1 DEF SpacingInv, P, t
      <4> QED
        BY <1>1, <2>2, <2>5, <3>1, <3>2, <4>2
    <3>3. CASE ~back
      BY <2>5, <3>1, <3>3
    <3> QED
      BY <3>2, <3>3
  <2>7. ASSUME NEW d \in Calls, act'[d] > Forgotten
        PROVE  /\ Tool[d] \in Restricted
               /\ act'[d] + Period(Tool[d]) <= token'[Tool[d]]
               /\ \A e \in Calls \ {d} : act'[e] > Forgotten /\ Tool[e] = Tool[d] =>
                    \/ act'[d] + Period(Tool[d]) <= act'[e]
                    \/ act'[e] + Period(Tool[d]) <= act'[d]
    <3>1. d # c /\ act'[d] = act[d] /\ act[d] > Forgotten
      BY <1>1, <2>5, <2>7
    <3>2. /\ Tool[d] \in Restricted
          /\ act[d] + Period(Tool[d]) <= token[Tool[d]]
          /\ \A e \in Calls \ {d} : act[e] > Forgotten /\ Tool[e] = Tool[d] =>
               \/ act[d] + Period(Tool[d]) <= act[e]
               \/ act[e] + Period(Tool[d]) <= act[d]
      BY <1>2, <3>1 DEF SpacingInv
    <3>3. act'[d] + Period(Tool[d]) <= token'[Tool[d]]
      BY <2>5, <2>6, <3>1, <3>2 DEF P
    <3>4. \A e \in Calls : act'[e] > Forgotten => act'[e] = act[e]
      BY <1>1, <2>5
    <3> QED
      BY <3>1, <3>2, <3>3, <3>4
  <2> QED
    BY <2>3, <2>4, <2>7 DEF SpacingInv
<1>6. CASE Tick
  <2>1. /\ \A t \in Restricted : token'[t] = IF token[t] = 0 THEN 0 ELSE token[t] - 1
        /\ \A c \in Calls : act'[c] = IF act[c] = Forgotten THEN Forgotten ELSE act[c] - 1
    BY <1>6 DEF Tick
  <2>2. token' \in [Restricted -> 0..(MaxBacklog + TicksPerMinute)]
    BY <1>1, <1>2, <1>6 DEF Tick
  <2>3. act' \in [Calls -> Forgotten..MaxBacklog]
    BY <1>1, <1>2, <1>6 DEF Tick
  <2>4. \A c \in Calls : act'[c] > Forgotten => act[c] > Forgotten /\ act'[c] = act[c] - 1
    BY <1>1, <1>2, <2>1
  <2>5. ASSUME NEW d \in Calls, act'[d] > Forgotten
        PROVE  /\ Tool[d] \in Restricted
               /\ act'[d] + Period(Tool[d]) <= token'[Tool[d]]
               /\ \A e \in Calls \ {d} : act'[e] > Forgotten /\ Tool[e] = Tool[d] =>
                    \/ act'[d] + Period(Tool[d]) <= act'[e]
                    \/ act'[e] + Period(Tool[d]) <= act'[d]
    <3>1. act[d] > Forgotten /\ act'[d] = act[d] - 1 /\ act[d] \in Int
      BY <1>1, <1>2, <2>4, <2>5
    <3>2. /\ Tool[d] \in Restricted
          /\ act[d] + Period(Tool[d]) <= token[Tool[d]]
          /\ \A e \in Calls \ {d} : act[e] > Forgotten /\ Tool[e] = Tool[d] =>
               \/ act[d] + Period(Tool[d]) <= act[e]
               \/ act[e] + Period(Tool[d]) <= act[d]
      BY <1>2, <3>1 DEF SpacingInv
    <3>3. token[Tool[d]] \in Nat /\ Period(Tool[d]) \in Int
      BY <1>1, <1>2, <1>3, <3>2
    <3>4. act'[d] + Period(Tool[d]) <= token'[Tool[d]]
      BY <2>1, <3>1, <3>2, <3>3
    <3>5. ASSUME NEW e \in Calls \ {d}, act'[e] > Forgotten, Tool[e] = Tool[d]
          PROVE  \/ act'[d] + Period(Tool[d]) <= act'[e]
                 \/ act'[e] + Period(Tool[d]) <= act'[d]
      <4>1. act'[e] = act[e] - 1 /\ act[e] > Forgotten /\ act[e] \in Int
        BY <1>1, <1>2, <2>4, <3>5
      <4> QED
        BY <3>1, <3>2, <3>3, <3>5, <4>1
    <3> QED
      BY <3>2, <3>4, <3>5
  <2> QED
    BY <2>2, <2>3, <2>5 DEF SpacingInv
<1>7. CASE UNCHANGED <<token, act>>
  BY <1>2, <1>7 DEF SpacingInv
<1>8. CASE \E c \in Calls : Pass(c) \/ Enter(c) \/ LeaveQueue(c) \/ Reuse(c) \/ Refuse(c)
                            \/ WakeUp(c) \/ Answer(c)
  BY <1>7, <1>8 DEF Pass, Enter, LeaveQueue, Reuse, Refuse, WakeUp, Answer
<1>9. CASE UNCHANGED vars
  BY <1>7, <1>9 DEF vars
<1> QED
  BY <1>4, <1>5, <1>6, <1>8, <1>9 DEF Next, Middleware

----------------------------------------------------------------------------
\* The theorems

\* The inductive invariant holds of every behaviour.
THEOREM Invariance == Spec => []IInv
<1>1. Init => IInv
  BY InitInvariant
<1>2. IInv /\ [Next]_vars => IInv'
  BY GateStep, LimiterStep DEF IInv, TypeOK
<1> QED
  BY <1>1, <1>2, PTL DEF Spec

\* Stages, queue, permits, tokens and reservations keep their types.
THEOREM TypeCorrectness == Spec => []TypeOK
<1>1. IInv => TypeOK
  BY DEF IInv
<1> QED
  BY <1>1, Invariance, PTL

\* No more handlers of restricted tools run at once than max_concurrent allows,
\* whichever calls are cancelled at whichever point.
THEOREM GateIsNeverOverrun == Spec => []ConcurrencyKept
<1>1. IInv => ConcurrencyKept
  <2> SUFFICES ASSUME IInv PROVE ConcurrencyKept
    OBVIOUS
  <2> DEFINE handling == {c \in Calls : call[c] = "handler" /\ Tool[c] \in Restricted}
  <2>1. handling \subseteq Busy
    BY DEF Busy
  <2>2. Cardinality(handling) <= Cardinality(Busy) /\ IsFiniteSet(handling)
    BY <2>1, BusyCalls, FS_Subset
  <2>3. Cardinality(Busy) <= MaxConcurrent /\ MaxConcurrent \in Nat
    BY MaxConcurrentAssumption DEF IInv, TypeOK, GateInv
  <2>4. Cardinality(handling) \in Nat /\ Cardinality(Busy) \in Nat
    BY <2>2, BusyCalls, FS_CardinalityType
  <2>5. Cardinality(handling) <= MaxConcurrent
    <3> HIDE DEF handling
    <3> QED
      BY <2>2, <2>3, <2>4
  <2> QED
    BY <2>5 DEF ConcurrencyKept
<1> QED
  BY <1>1, Invariance, PTL

\* While a call queues, every permit is held by a call that is under way: nobody
\* waits for a permit that a failed or cancelled call took with it.
THEOREM PermitsAreHandedOn == Spec => []NobodyWaitsForNothing
<1>1. IInv => NobodyWaitsForNothing
  BY DEF IInv, GateInv, NobodyWaitsForNothing, Busy
<1> QED
  BY <1>1, Invariance, PTL

\* The calls that a limiter lets go are a period apart, so that no minute that
\* starts with one of them holds more than the quota.
LEMMA SpacedCallsFitTheQuota == IInv => QuotaKept
<1> SUFFICES ASSUME IInv, NEW c \in Calls, act[c] > Forgotten
             PROVE  Cardinality({d \in Calls :
                       /\ Tool[d] = Tool[c]
                       /\ act[d] \in act[c] .. (act[c] + TicksPerMinute - 1)})
                      <= PerMin[Tool[c]]
  BY DEF QuotaKept
<1> DEFINE P == Period(Tool[c])
           n == PerMin[Tool[c]]
           S == {d \in Calls : /\ Tool[d] = Tool[c]
                               /\ act[d] \in act[c] .. (act[c] + TicksPerMinute - 1)}
           slot == [d \in S |-> (act[d] - act[c]) \div P]
<1>1. /\ TicksPerMinute \in Nat \ {0} /\ MaxBacklog \in Nat /\ Forgotten = -TicksPerMinute
      /\ act \in [Calls -> Forgotten..MaxBacklog] /\ SpacingInv
  BY TicksAssumption DEF IInv, TypeOK, Forgotten
<1>2. Tool[c] \in Restricted /\ act[c] \in Int
  BY <1>1 DEF SpacingInv
<1>3. P \in Nat /\ P > 0 /\ n \in Nat /\ P * n = TicksPerMinute
  BY <1>1, <1>2, PeriodDividesMinute
<1>4. ASSUME NEW d \in S
      PROVE  d \in Calls /\ Tool[d] = Tool[c] /\ act[d] > Forgotten
             /\ act[d] \in Int /\ act[d] - act[c] \in Nat /\ act[d] - act[c] < P * n
  BY <1>1, <1>2, <1>3, <1>4
<1>5. slot \in [S -> 0..(n - 1)]
  BY <1>3, <1>4, SlotRange
<1>6. ASSUME NEW d \in S, NEW e \in S, slot[d] = slot[e] PROVE d = e
  <2>1. SUFFICES ASSUME d # e PROVE FALSE
    OBVIOUS
  <2>2. act[d] + P <= act[e] \/ act[e] + P <= act[d]
    BY <1>1, <1>4, <2>1 DEF SpacingInv
  <2> DEFINE x == act[d] - act[c]
             y == act[e] - act[c]
  <2>3. x \in Nat /\ y \in Nat /\ x \div P = y \div P
    BY <1>4, <1>6
  <2>4. x + P <= y \/ y + P <= x
    BY <1>2, <1>3, <1>4, <2>2
  <2> HIDE DEF x, y, P
  <2> QED
    BY <1>3, <2>3, <2>4, SlotsDiffer
<1>7. slot \in Injection(S, 0..(n - 1))
  BY <1>5, <1>6, Fun_IsInj
<1>8. IsFiniteSet(0..(n - 1)) /\ Cardinality(0..(n - 1)) = n
  <2>1. n \in Nat /\ 0 \in Int /\ n - 1 \in Int
    BY <1>3
  <2> HIDE DEF n
  <2>2. /\ IsFiniteSet(0..(n - 1))
        /\ Cardinality(0..(n - 1)) = IF 0 > n - 1 THEN 0 ELSE (n - 1) - 0 + 1
    BY <2>1, FS_Interval
  <2> QED
    BY <2>1, <2>2
<1>9. Cardinality(S) <= n
  BY <1>7, <1>8, FS_Injection
<1> QED
  BY <1>9

\* No minute has more calls of a tool than its quota, also when reservations are
\* given back by cancelled calls and taken again.
THEOREM QuotaIsNeverExceeded == Spec => []QuotaKept
BY Invariance, SpacedCallsFitTheQuota, PTL

============================================================================
