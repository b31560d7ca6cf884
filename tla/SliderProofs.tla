---------------------------- MODULE SliderProofs ----------------------------
(***************************************************************************)
(* Proofs about Slider, for every picture and piece: that the result is    *)
(* the largest nearly square region of the most frequent colours but those *)
(* at the top, and that the gap of a textured picture is what is found.    *)
(*                                                                         *)
(* The loops are recursive functions. Each is first shown to have a        *)
(* solution; what it computes then follows by induction.                   *)
(***************************************************************************)
EXTENDS Slider, WellFoundedInduction, FiniteSetTheorems, SequenceTheorems, TLAPS

----------------------------------------------------------------------------
\* Induction and recursion over an interval

LEMMA LeastNumber ==
  ASSUME NEW T \in SUBSET Nat, T # {}
  PROVE  \E x \in T : \A y \in T : x <= y
<1> DEFINE R == {ss \in Nat \X Nat : ss[1] < ss[2]}
<1>1. IsWellFoundedOn(R, Nat)
  BY NatLessThanWellFounded DEF OpToRel
<1>2. \A x, y \in Nat : <<y, x>> \in R <=> y < x
  OBVIOUS
<1> HIDE DEF R
<1>3. PICK x \in T : \A y \in T : <<y, x>> \notin R
  BY <1>1, WFMin
<1>4. \A y \in T : ~(y < x)
  BY <1>2, <1>3
<1>5. \A y \in T : x <= y
  BY <1>4
<1> QED
  BY <1>5

LEMMA StepByStep ==
  ASSUME NEW N \in Nat, NEW T, 0 \in T, \A n \in 1..N : n - 1 \in T => n \in T
  PROVE  \A n \in 0..N : n \in T
<1> DEFINE Bad == {n \in 0..N : n \notin T}
<1> SUFFICES ASSUME Bad # {} PROVE FALSE
  OBVIOUS
<1>1. Bad \in SUBSET Nat
  OBVIOUS
<1>2. PICK n \in Bad : \A k \in Bad : n <= k
  <2> HIDE DEF Bad
  <2> QED
    BY <1>1, LeastNumber
<1>3. n \in 1..N
  BY <1>2
<1>4. n - 1 \in 0..N /\ n - 1 \notin Bad
  BY <1>2, <1>3
<1> QED
  BY <1>2, <1>3, <1>4

\* A loop whose step is a function of the values it may have has a solution.
Solvable(N, D, base, step) ==
  \E f \in [0..N -> D] : f[0] = base /\ \A n \in 1..N : f[n] = step[n][f[n - 1]]

LEMMA RecursionSolved ==
  ASSUME NEW N \in Nat, NEW D, NEW base \in D, NEW step \in [1..N -> [D -> D]]
  PROVE  Solvable(N, D, base, step)
<1> DEFINE Solves(f, m) == /\ f \in [0..m -> D] /\ f[0] = base
                           /\ \A n \in 1..m : f[n] = step[n][f[n - 1]]
<1>1. \E f : Solves(f, 0)
  <2> DEFINE g == [n \in 0..0 |-> base]
  <2>1. Solves(g, 0)
    OBVIOUS
  <2> HIDE DEF Solves
  <2> QED
    BY <2>1
<1>2. ASSUME NEW m \in 1..N, \E f : Solves(f, m - 1)
      PROVE  \E f : Solves(f, m)
  <2>1. PICK f : Solves(f, m - 1)
    BY <1>2
  <2>2. f \in [0..(m - 1) -> D] /\ f[0] = base /\ \A n \in 1..(m - 1) : f[n] = step[n][f[n - 1]]
    BY <2>1
  <2> DEFINE g == [n \in 0..m |-> IF n = m THEN step[m][f[m - 1]] ELSE f[n]]
  <2>3. f[m - 1] \in D /\ step[m][f[m - 1]] \in D
    BY <2>2
  <2>4. g \in [0..m -> D] /\ g[m] = step[m][f[m - 1]] /\ \A n \in 0..(m - 1) : g[n] = f[n]
    <3>1. \A n \in 0..m : n = m \/ n \in 0..(m - 1)
      OBVIOUS
    <3>2. m \in 0..m /\ \A n \in 0..(m - 1) : n \in 0..m /\ n # m
      OBVIOUS
    <3> QED
      BY <2>2, <2>3, <3>1, <3>2
  <2> HIDE DEF g
  <2>5. ASSUME NEW n \in 1..m PROVE g[n] = step[n][g[n - 1]]
    <3>1. n - 1 \in 0..(m - 1)
      OBVIOUS
    <3>2. CASE n = m
      BY <2>4, <3>1, <3>2
    <3>3. CASE n \in 1..(m - 1)
      BY <2>2, <2>4, <3>1, <3>3
    <3> QED
      BY <3>2, <3>3
  <2>6. g[0] = base
    BY <2>2, <2>4
  <2>7. Solves(g, m)
    BY <2>4, <2>5, <2>6
  <2> HIDE DEF Solves
  <2> QED
    BY <2>7
<1>3. \E f : Solves(f, N)
  <2> DEFINE T == {m \in 0..N : \E f : Solves(f, m)}
  <2> HIDE DEF Solves
  <2>1. 0 \in T /\ \A m \in 1..N : m - 1 \in T => m \in T
    BY <1>1, <1>2
  <2> HIDE DEF T
  <2>2. \A m \in 0..N : m \in T
    BY <2>1, StepByStep
  <2>3. N \in T
    BY <2>2
  <2> QED
    BY <2>3 DEF T
<1>4. PICK f : Solves(f, N)
  BY <1>3
<1>5. f \in [0..N -> D] /\ f[0] = base /\ \A n \in 1..N : f[n] = step[n][f[n - 1]]
  BY <1>4 DEF Solves
<1> QED
  BY <1>5 DEF Solvable

----------------------------------------------------------------------------
\* findTrueRuns

\* The columns a to b-1 of a row of w columns are high, and those beside are not.
Stretch(high, w, a, b) ==
  /\ a \in Nat /\ b \in Nat /\ a < b /\ b <= w
  /\ \A x \in a..(b - 1) : high[x]
  /\ a = 0 \/ ~high[a - 1]
  /\ b = w \/ ~high[b]

Segments == [start : Nat, end : Nat]
Seens == [segs : Seq(Segments), in : BOOLEAN, start : Nat]

\* What the loop knows after n columns: the stretches that ended before the last
\* one, and whether a stretch with that one has begun and where.
SeenInv(s, high, w, n) ==
  /\ \A i \in 1..Len(s.segs) : Stretch(high, w, s.segs[i].start, s.segs[i].end)
  /\ \A a, b \in Nat : Stretch(high, w, a, b) /\ b < n =>
       \E i \in 1..Len(s.segs) : s.segs[i].start = a /\ s.segs[i].end = b
  /\ s.in => /\ s.start < n /\ \A x \in s.start..(n - 1) : high[x]
             /\ s.start = 0 \/ ~high[s.start - 1]
  /\ ~s.in => n = 0 \/ ~high[n - 1]

\* The stretches that end at a column are one at most.
LEMMA OneStretch ==
  ASSUME NEW n \in Nat, NEW a \in Nat, NEW c \in Nat, NEW high, a < n, c < n,
         \A x \in a..(n - 1) : high[x], \A x \in c..(n - 1) : high[x],
         a = 0 \/ ~high[a - 1], c = 0 \/ ~high[c - 1]
  PROVE  a = c
<1>1. CASE a < c
  <2>1. c - 1 \in a..(n - 1)
    BY <1>1
  <2> QED
    BY <1>1, <2>1
<1>2. CASE c < a
  <2>1. a - 1 \in c..(n - 1)
    BY <1>2
  <2> QED
    BY <1>2, <2>1
<1> QED
  BY <1>1, <1>2

Extends(t, segs, a, b) ==
  /\ t \in Seq(Segments) /\ Len(t) = Len(segs) + 1 /\ Len(segs) \in Nat
  /\ \A i \in 1..Len(segs) : t[i] = segs[i]
  /\ t[Len(segs) + 1].start = a /\ t[Len(segs) + 1].end = b

LEMMA AppendStretch ==
  ASSUME NEW segs \in Seq(Segments), NEW a \in Nat, NEW b \in Nat,
         NEW t, t = Append(segs, [start |-> a, end |-> b])
  PROVE  Extends(t, segs, a, b)
<1>1. [start |-> a, end |-> b] \in Segments
  BY DEF Segments
<1> QED
  BY <1>1, AppendProperties DEF Extends

\* One more column.
LEMMA SeenStep ==
  ASSUME NEW w \in Nat, NEW high \in [0..(w - 1) -> BOOLEAN], NEW n \in 1..w,
         NEW s \in Seens, SeenInv(s, high, w, n - 1)
  PROVE  LET t == RunsNext(s, n - 1, high[n - 1]) IN
         t \in Seens /\ SeenInv(t, high, w, n)
<1> DEFINE t == RunsNext(s, n - 1, high[n - 1])
           segs == s.segs
<1> SUFFICES t \in Seens /\ SeenInv(t, high, w, n)
  OBVIOUS
<1>1. /\ segs \in Seq(Segments) /\ s.in \in BOOLEAN /\ s.start \in Nat /\ Len(segs) \in Nat
      /\ n \in Nat /\ n >= 1 /\ n <= w /\ high[n - 1] \in BOOLEAN
  BY DEF Seens
<1>2. /\ \A i \in 1..Len(segs) : Stretch(high, w, segs[i].start, segs[i].end)
      /\ \A a, b \in Nat : Stretch(high, w, a, b) /\ b < n - 1 =>
           \E i \in 1..Len(segs) : segs[i].start = a /\ segs[i].end = b
      /\ s.in => /\ s.start < n - 1 /\ \A x \in s.start..(n - 2) : high[x]
                 /\ s.start = 0 \/ ~high[s.start - 1]
      /\ ~s.in => n - 1 = 0 \/ ~high[n - 2]
  <2>1. (n - 1) - 1 = n - 2
    BY <1>1
  <2> QED
    BY <2>1 DEF SeenInv
<1> HIDE DEF segs
<1>3. CASE high[n - 1]
  <2>1. /\ t.segs = segs /\ t.in = TRUE /\ t.start = IF s.in THEN s.start ELSE n - 1
        /\ t \in Seens
    <3>1. CASE s.in
      BY <1>1, <1>3, <3>1 DEF RunsNext, Seens, segs
    <3>2. CASE ~s.in
      BY <1>1, <1>3, <3>2 DEF RunsNext, Seens, segs
    <3> QED
      BY <3>1, <3>2
  <2> HIDE DEF t
  <2>2. \A a, b \in Nat : Stretch(high, w, a, b) /\ b < n => b < n - 1
    <3> SUFFICES ASSUME NEW a \in Nat, NEW b \in Nat, Stretch(high, w, a, b), b < n PROVE b # n - 1
      BY <1>1
    <3> QED
      BY <1>1, <1>3 DEF Stretch
  <2>3. /\ t.start < n /\ \A x \in t.start..(n - 1) : high[x]
        /\ t.start = 0 \/ ~high[t.start - 1]
    <3>1. CASE s.in
      <4>1. \A x \in s.start..(n - 1) : x \in s.start..(n - 2) \/ x = n - 1
        BY <1>1
      <4> QED
        BY <1>1, <1>2, <1>3, <2>1, <3>1, <4>1
    <3>2. CASE ~s.in
      <4>1. t.start = n - 1 /\ (n - 1) - 1 = n - 2 /\ \A x \in (n - 1)..(n - 1) : x = n - 1
        BY <1>1, <2>1, <3>2
      <4> QED
        BY <1>1, <1>2, <1>3, <3>2, <4>1
    <3> QED
      BY <3>1, <3>2
  <2> QED
    BY <1>1, <1>2, <2>1, <2>2, <2>3 DEF SeenInv
<1>4. CASE ~high[n - 1] /\ ~s.in
  <2>1. t = s
    BY <1>4 DEF RunsNext
  <2> HIDE DEF t
  <2>2. \A a, b \in Nat : Stretch(high, w, a, b) /\ b < n => b < n - 1
    <3> SUFFICES ASSUME NEW a \in Nat, NEW b \in Nat, Stretch(high, w, a, b), b = n - 1 PROVE FALSE
      BY <1>1
    <3>1. n - 2 \in a..(b - 1) /\ n - 1 # 0
      BY <1>1 DEF Stretch
    <3> QED
      BY <1>2, <1>4, <3>1 DEF Stretch
  <2> QED
    BY <1>1, <1>2, <1>4, <2>1, <2>2 DEF SeenInv, segs
<1>5. CASE ~high[n - 1] /\ s.in
  <2> DEFINE q == Append(segs, [start |-> s.start, end |-> n - 1])
  <2>1. t = [segs |-> q, in |-> FALSE, start |-> s.start]
    BY <1>5 DEF RunsNext, segs
  <2> HIDE DEF t
  <2>2. /\ t.in = FALSE /\ t.start = s.start /\ t.segs \in Seq(Segments) /\ Len(t.segs) = Len(segs) + 1
        /\ \A i \in 1..Len(segs) : t.segs[i] = segs[i]
        /\ t.segs[Len(segs) + 1].start = s.start /\ t.segs[Len(segs) + 1].end = n - 1
    <3>1. n - 1 \in Nat
      BY <1>1
    <3>2. Extends(q, segs, s.start, n - 1)
      BY <1>1, <3>1, AppendStretch, Zenon
    <3> HIDE DEF q
    <3> QED
      BY <2>1, <3>2 DEF Extends
  <2>3. t \in Seens
    <3> HIDE DEF q
    <3> QED
      BY <1>1, <2>2, <2>1 DEF Seens
  <2>4. Stretch(high, w, s.start, n - 1)
    <3>1. (n - 1) - 1 = n - 2
      BY <1>1
    <3> QED
      BY <1>1, <1>2, <1>5, <3>1 DEF Stretch
  <2>5. \A i \in 1..Len(t.segs) : Stretch(high, w, t.segs[i].start, t.segs[i].end)
    <3>1. \A i \in 1..Len(t.segs) : i \in 1..Len(segs) \/ i = Len(segs) + 1
      BY <1>1, <2>2
    <3> QED
      BY <1>2, <2>2, <2>4, <3>1
  <2>6. ASSUME NEW a \in Nat, NEW b \in Nat, Stretch(high, w, a, b), b < n
        PROVE  \E i \in 1..Len(t.segs) : t.segs[i].start = a /\ t.segs[i].end = b
    <3>1. CASE b < n - 1
      <4>1. PICK i \in 1..Len(segs) : segs[i].start = a /\ segs[i].end = b
        BY <1>2, <2>6, <3>1
      <4>2. i \in 1..Len(t.segs) /\ t.segs[i] = segs[i]
        BY <1>1, <2>2
      <4> QED
        BY <4>1, <4>2
    <3>2. CASE b = n - 1
      <4>1. /\ a < n - 1 /\ (\A x \in a..((n - 1) - 1) : high[x]) /\ (a = 0 \/ ~high[a - 1])
        BY <2>6, <3>2 DEF Stretch
      <4>2. /\ s.start < n - 1 /\ (\A x \in s.start..((n - 1) - 1) : high[x])
            /\ (s.start = 0 \/ ~high[s.start - 1])
        BY <2>4 DEF Stretch
      <4>3. n - 1 \in Nat
        BY <1>1
      <4>4. a = s.start
        BY <1>1, <4>1, <4>2, <4>3, OneStretch
      <4>5. Len(segs) + 1 \in 1..Len(t.segs)
        BY <1>1, <2>2
      <4> QED
        BY <2>2, <3>2, <4>4, <4>5
    <3> QED
      BY <1>1, <2>6, <3>1, <3>2
  <2> QED
    BY <1>1, <1>5, <2>2, <2>3, <2>5, <2>6 DEF SeenInv
<1> QED
  BY <1>1, <1>3, <1>4, <1>5

LEMMA RunsNextTyped ==
  ASSUME NEW s \in Seens, NEW x \in Nat, NEW isHigh \in BOOLEAN
  PROVE  RunsNext(s, x, isHigh) \in Seens
<1>1. s.segs \in Seq(Segments) /\ s.in \in BOOLEAN /\ s.start \in Nat
  BY DEF Seens
<1>2. Append(s.segs, [start |-> s.start, end |-> x]) \in Seq(Segments)
  BY <1>1, AppendStretch DEF Extends
<1> QED
  BY <1>1, <1>2 DEF RunsNext, Seens

\* The loop of findTrueRuns, after each column.
LEMMA SeenInvariant ==
  ASSUME NEW w \in Nat, NEW high \in [0..(w - 1) -> BOOLEAN]
  PROVE  Width(high) = w /\ RunsSeen(high) \in Seens /\ SeenInv(RunsSeen(high), high, w, w)
<1> DEFINE base == [segs |-> <<>>, in |-> FALSE, start |-> 0]
           step == [n \in 1..w |-> [s \in Seens |-> RunsNext(s, n - 1, high[n - 1])]]
           F(f) == [n \in 0..w |-> IF n = 0 THEN base ELSE RunsNext(f[n - 1], n - 1, high[n - 1])]
           seen == CHOOSE f : f = F(f)
           T == {n \in 0..w : seen[n] \in Seens /\ SeenInv(seen[n], high, w, n)}
<1>1. Width(high) = w
  <2>1. DOMAIN high = 0..(w - 1)
    OBVIOUS
  <2>2. Cardinality(0..(w - 1)) = w
    BY FS_Interval
  <2> QED
    BY <2>1, <2>2 DEF Width
<1>2. base \in Seens /\ base.in = FALSE /\ base.segs = <<>>
  BY DEF Seens
<1>3. \A n \in 1..w : n - 1 \in Nat /\ n - 1 \in 0..w /\ n - 1 \in 0..(w - 1) /\ high[n - 1] \in BOOLEAN
  OBVIOUS
<1>4. step \in [1..w -> [Seens -> Seens]]
  <2>1. \A n \in 1..w, s \in Seens : RunsNext(s, n - 1, high[n - 1]) \in Seens
    BY <1>3, RunsNextTyped
  <2> QED
    BY <2>1
<1>5. RunsSeen(high) = seen[w]
  BY <1>1 DEF RunsSeen
<1> HIDE DEF base
<1>6. seen = F(seen)
  <2>1. PICK f \in [0..w -> Seens] : f[0] = base /\ \A n \in 1..w : f[n] = step[n][f[n - 1]]
    <3>1. base \in Seens
      BY <1>2
    <3> HIDE DEF step
    <3> QED
      <4>1. Solvable(w, Seens, base, step)
        BY <1>4, <3>1, RecursionSolved, Zenon
      <4> QED
        BY <4>1 DEF Solvable
  <2>2. \A n \in 1..w : step[n][f[n - 1]] = RunsNext(f[n - 1], n - 1, high[n - 1])
    BY <1>3
  <2> HIDE DEF step
  <2>3. \A n \in 0..w : n = 0 \/ n \in 1..w
    OBVIOUS
  <2>4. f = F(f)
    BY <2>1, <2>2, <2>3
  <2> HIDE DEF F
  <2> QED
    BY <2>4
<1> HIDE DEF seen, step
<1>7. seen[0] = base /\ \A n \in 1..w : seen[n] = RunsNext(seen[n - 1], n - 1, high[n - 1])
  <2>1. 0 \in 0..w /\ \A n \in 1..w : n \in 0..w /\ n # 0
    OBVIOUS
  <2> QED
    BY <1>6, <2>1
<1>8. 0 \in T
  <2>1. Len(base.segs) = 0
    BY <1>2
  <2>2. SeenInv(base, high, w, 0)
    <3>1. \A a, b \in Nat : ~(Stretch(high, w, a, b) /\ b < 0)
      OBVIOUS
    <3>2. \A i \in 1..0 : FALSE
      OBVIOUS
    <3> QED
      BY <1>2, <2>1, <3>1, <3>2 DEF SeenInv
  <2> QED
    BY <1>2, <1>7, <2>2
<1>9. \A n \in 1..w : n - 1 \in T => n \in T
  <2> SUFFICES ASSUME NEW n \in 1..w, n - 1 \in T PROVE n \in T
    OBVIOUS
  <2>1. seen[n - 1] \in Seens /\ SeenInv(seen[n - 1], high, w, n - 1)
    OBVIOUS
  <2>2. RunsNext(seen[n - 1], n - 1, high[n - 1]) \in Seens
        /\ SeenInv(RunsNext(seen[n - 1], n - 1, high[n - 1]), high, w, n)
    BY <2>1, SeenStep
  <2> QED
    BY <1>7, <2>2
<1>10. w \in T
  <2> HIDE DEF T
  <2>1. \A n \in 0..w : n \in T
    BY <1>8, <1>9, StepByStep
  <2> QED
    BY <2>1
<1> QED
  BY <1>1, <1>5, <1>10

\* findTrueRuns returns the stretches, all of them and nothing else.
AreStretches(segs, high, w) ==
  /\ segs \in Seq(Segments)
  /\ \A i \in 1..Len(segs) : Stretch(high, w, segs[i].start, segs[i].end)
  /\ \A a, b \in Nat : Stretch(high, w, a, b) =>
       \E i \in 1..Len(segs) : segs[i].start = a /\ segs[i].end = b

LEMMA RunsFound ==
  ASSUME NEW w \in Nat, NEW high \in [0..(w - 1) -> BOOLEAN],
         NEW segs, segs = FindTrueRuns(high)
  PROVE  AreStretches(segs, high, w)
<1> DEFINE s == RunsSeen(high)
<1>1. Width(high) = w /\ s \in Seens /\ SeenInv(s, high, w, w)
  BY SeenInvariant
<1>2. segs = IF s.in THEN Append(s.segs, [start |-> s.start, end |-> w]) ELSE s.segs
  BY <1>1 DEF FindTrueRuns
<1> HIDE DEF s
<1>3. /\ s.segs \in Seq(Segments) /\ s.in \in BOOLEAN /\ s.start \in Nat /\ Len(s.segs) \in Nat
  BY <1>1 DEF Seens
<1>4. /\ \A i \in 1..Len(s.segs) : Stretch(high, w, s.segs[i].start, s.segs[i].end)
      /\ \A a, b \in Nat : Stretch(high, w, a, b) /\ b < w =>
           \E i \in 1..Len(s.segs) : s.segs[i].start = a /\ s.segs[i].end = b
      /\ s.in => /\ s.start < w /\ \A x \in s.start..(w - 1) : high[x]
                 /\ s.start = 0 \/ ~high[s.start - 1]
      /\ ~s.in => w = 0 \/ ~high[w - 1]
  BY <1>1 DEF SeenInv
<1>5. CASE ~s.in
  <2>1. \A a, b \in Nat : Stretch(high, w, a, b) => b < w
    <3> SUFFICES ASSUME NEW a \in Nat, NEW b \in Nat, Stretch(high, w, a, b), b = w PROVE FALSE
      BY DEF Stretch
    <3>1. w - 1 \in a..(b - 1) /\ w # 0
      BY DEF Stretch
    <3> QED
      BY <1>4, <1>5, <3>1 DEF Stretch
  <2>2. segs = s.segs
    BY <1>2, <1>5
  <2> QED
    BY <1>3, <1>4, <2>1, <2>2 DEF AreStretches
<1>6. CASE s.in
  <2> DEFINE q == Append(s.segs, [start |-> s.start, end |-> w])
  <2>1. segs = q
    BY <1>2, <1>6
  <2> HIDE DEF q
  <2>2. /\ segs \in Seq(Segments) /\ Len(segs) = Len(s.segs) + 1
        /\ \A i \in 1..Len(s.segs) : segs[i] = s.segs[i]
        /\ segs[Len(s.segs) + 1].start = s.start /\ segs[Len(s.segs) + 1].end = w
    <3>1. Extends(q, s.segs, s.start, w)
      BY <1>3, AppendStretch, Zenon DEF q
    <3> QED
      BY <2>1, <3>1 DEF Extends
  <2>3. Stretch(high, w, s.start, w)
    BY <1>3, <1>4, <1>6 DEF Stretch
  <2>4. \A i \in 1..Len(segs) : Stretch(high, w, segs[i].start, segs[i].end)
    <3>1. \A i \in 1..Len(segs) : i \in 1..Len(s.segs) \/ i = Len(s.segs) + 1
      BY <1>3, <2>2
    <3> QED
      BY <1>4, <2>2, <2>3, <3>1
  <2>5. ASSUME NEW a \in Nat, NEW b \in Nat, Stretch(high, w, a, b)
        PROVE  \E i \in 1..Len(segs) : segs[i].start = a /\ segs[i].end = b
    <3>1. CASE b < w
      <4>1. PICK i \in 1..Len(s.segs) : s.segs[i].start = a /\ s.segs[i].end = b
        BY <1>4, <2>5, <3>1
      <4>2. i \in 1..Len(segs) /\ segs[i] = s.segs[i]
        BY <1>3, <2>2
      <4> QED
        BY <4>1, <4>2
    <3>2. CASE b = w
      <4>1. /\ a < w /\ (\A x \in a..(w - 1) : high[x]) /\ (a = 0 \/ ~high[a - 1])
        BY <2>5, <3>2 DEF Stretch
      <4>2. a = s.start
        BY <1>3, <1>4, <1>6, <4>1, OneStretch
      <4>3. Len(s.segs) + 1 \in 1..Len(segs)
        BY <1>3, <2>2
      <4> QED
        BY <2>2, <3>2, <4>2, <4>3
    <3> QED
      BY <2>5, <3>1, <3>2 DEF Stretch
  <2> QED
    BY <2>2, <2>4, <2>5 DEF AreStretches
<1> QED
  BY <1>3, <1>5, <1>6

----------------------------------------------------------------------------
\* colRun

\* The downsampled picture is a rectangle of h rows and w columns.
Rectangle(h, w) ==
  /\ h \in Nat /\ w \in Nat /\ Rows = 0..(h - 1) /\ Columns = 0..(w - 1)
  /\ \A y \in Rows : grid[y] \in [Columns -> Nat]

LEMMA SolidStep ==
  ASSUME NEW c, NEW x, NEW y \in Nat, NEW n \in Nat, n # 0
  PROVE  Solid(c, x, y, n) <=> grid[y][x] = c /\ Solid(c, x, y - 1, n - 1)
<1> DEFINE low == y - n + 1
<1>1. ((y - 1) - (n - 1)) + 1 = low /\ (n <= y + 1 <=> n - 1 <= (y - 1) + 1)
  OBVIOUS
<1>2. n <= y + 1 => y \in low..y
  OBVIOUS
<1>3. \A j \in low..y : j = y \/ j \in low..(y - 1)
  OBVIOUS
<1>4. \A j \in low..(y - 1) : j \in low..y
  OBVIOUS
<1> HIDE DEF low
<1>5. Solid(c, x, y, n) <=> n <= y + 1 /\ \A j \in low..y : grid[j][x] = c
  BY DEF Solid, low
<1>6. Solid(c, x, y - 1, n - 1) <=> n <= y + 1 /\ \A j \in low..(y - 1) : grid[j][x] = c
  BY <1>1 DEF Solid
<1> QED
  BY <1>2, <1>3, <1>4, <1>5, <1>6

\* The row above row y, or zeros.
Above(y, x) == IF y = 0 THEN 0 ELSE ColRun[y - 1][x]

\* colRun, row after row.
LEMMA ColRunStep ==
  ASSUME NEW h, NEW w, Rectangle(h, w), NEW y \in Rows, NEW x \in Columns
  PROVE  ColRun[y][x] = IF grid[y][x] = color THEN Above(y, x) + 1 ELSE 0
<1> DEFINE D == [Columns -> Nat]
           base == [xx \in Columns |-> 0]
           step == [n \in 1..h |-> [a \in D |->
                     [xx \in Columns |-> IF grid[n - 1][xx] = color THEN a[xx] + 1 ELSE 0]]]
           F(f) == [yy \in Rows |->
                     LET above == IF yy = 0 THEN [xx \in Columns |-> 0] ELSE f[yy - 1]
                     IN [xx \in Columns |-> IF grid[yy][xx] = color THEN above[xx] + 1 ELSE 0]]
           run == CHOOSE f : f = F(f)
<1>1. ColRun = run
  BY DEF ColRun
<1>2. h \in Nat /\ Rows = 0..(h - 1)
  BY DEF Rectangle
<1>3. run = F(run)
  <2>1. base \in D
    OBVIOUS
  <2>2. step \in [1..h -> [D -> D]]
    OBVIOUS
  <2>3. PICK f \in [0..h -> D] : f[0] = base /\ \A n \in 1..h : f[n] = step[n][f[n - 1]]
    <3> HIDE DEF D, base, step
    <3>1. Solvable(h, D, base, step)
      BY <1>2, <2>1, <2>2, RecursionSolved, Zenon
    <3> QED
      BY <3>1 DEF Solvable
  <2> DEFINE g == [yy \in Rows |-> f[yy + 1]]
  <2>4. ASSUME NEW yy \in Rows
        PROVE  g[yy] = LET above == IF yy = 0 THEN [xx \in Columns |-> 0] ELSE g[yy - 1]
                       IN [xx \in Columns |-> IF grid[yy][xx] = color THEN above[xx] + 1 ELSE 0]
    <3>1. yy \in Nat /\ yy + 1 \in 1..h /\ (yy + 1) - 1 = yy /\ yy \in 0..h
      BY <1>2
    <3>2. g[yy] = step[yy + 1][f[yy]]
      BY <2>3, <3>1
    <3>3. f[yy] \in D
      BY <2>3, <3>1
    <3>4. step[yy + 1][f[yy]]
            = [xx \in Columns |-> IF grid[yy][xx] = color THEN f[yy][xx] + 1 ELSE 0]
      <4> HIDE DEF D
      <4> QED
        BY <3>1, <3>3
    <3>5. yy = 0 => f[yy] = [xx \in Columns |-> 0]
      BY <2>3
    <3>6. yy # 0 => g[yy - 1] = f[yy]
      <4>1. yy # 0 => yy - 1 \in Rows /\ (yy - 1) + 1 = yy
        BY <1>2
      <4> QED
        BY <4>1
    <3> HIDE DEF g, step, D, base
    <3> QED
      BY <3>2, <3>4, <3>5, <3>6
  <2>5. g = F(g)
    <3>1. g = [yy \in Rows |-> g[yy]]
      OBVIOUS
    <3> HIDE DEF g
    <3> QED
      BY <2>4, <3>1
  <2> HIDE DEF F, g
  <2> QED
    BY <2>5
<1> HIDE DEF run
<1>4. run[y] = LET above == IF y = 0 THEN [xx \in Columns |-> 0] ELSE run[y - 1]
               IN [xx \in Columns |-> IF grid[y][xx] = color THEN above[xx] + 1 ELSE 0]
  BY <1>3
<1> QED
  BY <1>1, <1>4 DEF Above

\* What colRun says of a cell: how many cells upwards from it have the colour.
LEMMA RunIsSolid ==
  ASSUME NEW h, NEW w, Rectangle(h, w), NEW y \in Rows, NEW x \in Columns
  PROVE  /\ ColRun[y][x] \in Nat
         /\ \A n \in Nat : n <= ColRun[y][x] <=> Solid(color, x, y, n)
<1> DEFINE T == {k \in 0..h : /\ Above(k, x) \in Nat
                              /\ \A n \in Nat : n <= Above(k, x) <=> Solid(color, x, k - 1, n)}
<1>1. h \in Nat /\ Rows = 0..(h - 1)
  BY DEF Rectangle
<1>2. 0 \in T
  <2>1. Above(0, x) = 0 /\ 0 - 1 = -1
    BY DEF Above
  <2>2. \A n \in Nat : n <= 0 <=> Solid(color, x, -1, n)
    <3>1. \A n \in Nat : n <= 0 <=> n <= -1 + 1
      OBVIOUS
    <3>2. \A n \in Nat : n <= 0 => \A j \in ((-1 - n) + 1)..(-1) : FALSE
      OBVIOUS
    <3> QED
      BY <3>1, <3>2 DEF Solid
  <2>3. 0 \in 0..h
    BY <1>1
  <2> QED
    BY <2>1, <2>2, <2>3
<1>3. \A k \in 1..h : k - 1 \in T => k \in T
  <2> SUFFICES ASSUME NEW k \in 1..h, k - 1 \in T PROVE k \in T
    OBVIOUS
  <2>1. k - 1 \in Rows /\ k - 1 \in Nat /\ k # 0
    BY <1>1
  <2>2. /\ Above(k - 1, x) \in Nat
        /\ \A n \in Nat : n <= Above(k - 1, x) <=> Solid(color, x, (k - 1) - 1, n)
    OBVIOUS
  <2>3. Above(k, x) = IF grid[k - 1][x] = color THEN Above(k - 1, x) + 1 ELSE 0
    <3>1. Above(k, x) = ColRun[k - 1][x]
      BY <2>1 DEF Above
    <3> QED
      BY <2>1, <3>1, ColRunStep
  <2>4. Above(k, x) \in Nat
    BY <2>2, <2>3
  <2>5. ASSUME NEW n \in Nat PROVE n <= Above(k, x) <=> Solid(color, x, k - 1, n)
    <3>1. CASE n = 0
      <4>1. Solid(color, x, k - 1, 0)
        <5>1. 0 <= (k - 1) + 1 /\ \A j \in (((k - 1) - 0) + 1)..(k - 1) : FALSE
          BY <2>1
        <5> QED
          BY <5>1 DEF Solid
      <4> QED
        BY <2>4, <3>1, <4>1
    <3>2. CASE n # 0
      <4>1. n - 1 \in Nat /\ (n - 1) + 1 = n
        BY <3>2
      <4>2. Solid(color, x, k - 1, n) <=> grid[k - 1][x] = color /\ Solid(color, x, (k - 1) - 1, n - 1)
        BY <2>1, <3>2, SolidStep
      <4>3. n - 1 <= Above(k - 1, x) <=> Solid(color, x, (k - 1) - 1, n - 1)
        BY <2>2, <4>1, Zenon
      <4>4. n <= Above(k, x) <=> grid[k - 1][x] = color /\ n - 1 <= Above(k - 1, x)
        BY <2>2, <2>3, <3>2
      <4> QED
        BY <4>2, <4>3, <4>4, Zenon
    <3> QED
      BY <3>1, <3>2
  <2> QED
    BY <2>4, <2>5
<1>4. y \in Nat /\ y + 1 \in 0..h /\ y + 1 # 0 /\ (y + 1) - 1 = y
  BY <1>1
<1>5. y + 1 \in T
  <2> HIDE DEF T
  <2>1. \A k \in 0..h : k \in T
    BY <1>1, <1>2, <1>3, StepByStep
  <2> QED
    BY <1>4, <2>1
<1>6. Above(y + 1, x) = ColRun[y][x]
  BY <1>4 DEF Above
<1> QED
  BY <1>4, <1>5, <1>6

----------------------------------------------------------------------------
\* The scan of a row

Bests == [area : Nat, x : Nat]

\* A stretch of the row that passes every test but that of its size.
Height(seg) == ColRun[row][seg.start]
Fits(seg) == ~IsPiece(seg.start) /\ NearSquare(seg.end - seg.start, Height(seg))
Area(seg) == (seg.end - seg.start) * Height(seg)

\* b is what is best of base and the stretches segs[1] .. segs[k].
BestSoFar(b, base, segs, k) ==
  /\ b \in Bests /\ base.area <= b.area
  /\ \A i \in 1..k : Fits(segs[i]) => Area(segs[i]) <= b.area
  /\ b = base \/ \E i \in 1..k : Fits(segs[i]) /\ b.area = Area(segs[i]) /\ b.x = segs[i].start

LEMMA BetterIsBest ==
  ASSUME NEW b, NEW base \in Bests, NEW segs, NEW k \in Nat, k # 0,
         BestSoFar(b, base, segs, k - 1), \A i \in 1..k : Area(segs[i]) \in Nat,
         segs[k].start \in Nat
  PROVE  BestSoFar(Better(b, segs[k]), base, segs, k)
<1> DEFINE a == Better(b, segs[k])
<1>1. a = IF Fits(segs[k]) /\ Area(segs[k]) > b.area
          THEN [area |-> Area(segs[k]), x |-> segs[k].start] ELSE b
  BY DEF Better, Fits, Area, Height
<1>2. b.area \in Nat /\ base.area \in Nat /\ b \in Bests /\ base.area <= b.area
  BY DEF BestSoFar, Bests
<1>3. a \in Bests /\ base.area <= a.area /\ b.area <= a.area
  BY <1>1, <1>2 DEF Bests
<1>4. \A i \in 1..k : i = k \/ i \in 1..(k - 1)
  OBVIOUS
<1>5. k \in 1..k /\ \A i \in 1..(k - 1) : i \in 1..k
  OBVIOUS
<1>6. a.area \in Nat
  BY <1>3 DEF Bests
<1>7. ASSUME NEW i \in 1..k, Fits(segs[i]) PROVE Area(segs[i]) <= a.area
  <2>1. CASE i = k
    BY <1>1, <1>2, <1>7, <2>1
  <2>2. CASE i \in 1..(k - 1)
    <3>2. Area(segs[i]) <= b.area
      BY <1>7, <2>2 DEF BestSoFar
    <3>3. CASE a = b
      BY <3>2, <3>3
    <3>4. CASE a # b
      <4>1. a.area > b.area
        BY <1>1, <3>4
      <4>2. Area(segs[i]) \in Nat
        OBVIOUS
      <4> QED
        BY <1>2, <1>6, <3>2, <4>1, <4>2
    <3> QED
      BY <3>3, <3>4
  <2> QED
    BY <1>4, <2>1, <2>2
<1>8. a = base \/ \E i \in 1..k : Fits(segs[i]) /\ a.area = Area(segs[i]) /\ a.x = segs[i].start
  BY <1>1, <1>5 DEF BestSoFar
<1> QED
  BY <1>3, <1>7, <1>8 DEF BestSoFar

\* The loop over the stretches of a row.
LEMMA BestOfIsBest ==
  ASSUME NEW segs \in Seq(Segments), best \in Bests,
         \A i \in 1..Len(segs) : Area(segs[i]) \in Nat
  PROVE  BestSoFar(BestOf(segs), best, segs, Len(segs))
<1> DEFINE N == Len(segs)
           step == [k \in 1..N |-> [b \in Bests |-> Better(b, segs[k])]]
           F(f) == [k \in 0..N |-> IF k = 0 THEN best ELSE Better(f[k - 1], segs[k])]
           after == CHOOSE f : f = F(f)
           T == {k \in 0..N : BestSoFar(after[k], best, segs, k)}
<1>1. N \in Nat /\ \A k \in 1..N : segs[k].start \in Nat /\ Area(segs[k]) \in Nat
  <2>1. \A k \in 1..N : segs[k] \in Segments
    OBVIOUS
  <2> QED
    BY <2>1 DEF Segments
<1>2. BestOf(segs) = after[N]
  BY DEF BestOf
<1>3. step \in [1..N -> [Bests -> Bests]]
  <2>1. \A b \in Bests, k \in 1..N : Better(b, segs[k]) \in Bests
    <3> SUFFICES ASSUME NEW b \in Bests, NEW k \in 1..N PROVE Better(b, segs[k]) \in Bests
      OBVIOUS
    <3>1. Better(b, segs[k]) = IF Fits(segs[k]) /\ Area(segs[k]) > b.area
                               THEN [area |-> Area(segs[k]), x |-> segs[k].start] ELSE b
      BY DEF Better, Fits, Area, Height
    <3> QED
      BY <1>1, <3>1 DEF Bests
  <2> HIDE DEF N
  <2> QED
    BY <2>1
<1> HIDE DEF N
<1>4. after = F(after)
  <2>1. PICK f \in [0..N -> Bests] : f[0] = best /\ \A k \in 1..N : f[k] = step[k][f[k - 1]]
    <3> HIDE DEF step
    <3>1. Solvable(N, Bests, best, step)
      BY <1>1, <1>3, RecursionSolved, Zenon
    <3> QED
      BY <3>1 DEF Solvable
  <2>2. ASSUME NEW k \in 1..N PROVE step[k][f[k - 1]] = Better(f[k - 1], segs[k])
    <3>1. k - 1 \in 0..N
      BY <1>1
    <3> QED
      BY <3>1
  <2> HIDE DEF step
  <2>3. \A k \in 0..N : k = 0 \/ k \in 1..N
    BY <1>1
  <2>4. f = F(f)
    BY <2>1, <2>2, <2>3
  <2> HIDE DEF F
  <2> QED
    BY <2>4
<1> HIDE DEF after
<1>5. after[0] = best /\ \A k \in 1..N : after[k] = Better(after[k - 1], segs[k])
  <2>1. 0 \in 0..N /\ \A k \in 1..N : k \in 0..N /\ k # 0
    BY <1>1
  <2> QED
    BY <1>4, <2>1
<1>6. 0 \in T
  <2>1. 0 \in 0..N /\ best.area \in Nat /\ \A i \in 1..0 : FALSE
    BY <1>1 DEF Bests
  <2> QED
    BY <1>5, <2>1 DEF BestSoFar
<1>7. \A k \in 1..N : k - 1 \in T => k \in T
  <2> SUFFICES ASSUME NEW k \in 1..N, k - 1 \in T PROVE k \in T
    OBVIOUS
  <2>1. BestSoFar(after[k - 1], best, segs, k - 1) /\ k \in Nat /\ k # 0 /\ k \in 0..N
    BY <1>1
  <2>2. BestSoFar(Better(after[k - 1], segs[k]), best, segs, k)
    <3>1. \A i \in 1..k : Area(segs[i]) \in Nat
      BY <1>1
    <3> QED
      BY <1>1, <2>1, <3>1, BetterIsBest, Zenon
  <2> QED
    BY <1>5, <2>1, <2>2
<1>8. N \in T
  <2> HIDE DEF T
  <2>1. \A k \in 0..N : k \in T
    BY <1>1, <1>6, <1>7, StepByStep
  <2> QED
    BY <1>1, <2>1
<1> QED
  BY <1>2, <1>8 DEF N

\* The columns of a row in which the colour goes up far enough.
HighColumns(c, y) == {x \in Columns : Solid(c, x, y, MinSide)}

LEMMA RegionMember ==
  ASSUME NEW c, NEW y, NEW r
  PROVE  r \in RegionsAt(c, y) <=>
           /\ r \in [x : HighColumns(c, y), w : 1..Cardinality(HighColumns(c, y)), h : MinSide..(y + 1)]
           /\ r.x >= (picture.sw \div 4) + 1 /\ NearSquare(r.w, r.h)
           /\ r.x..(r.x + r.w - 1) \subseteq HighColumns(c, y)
           /\ {r.x - 1, r.x + r.w} \cap HighColumns(c, y) = {}
           /\ Solid(c, r.x, y, r.h) /\ ~Solid(c, r.x, y, r.h + 1)
<1> DEFINE high == HighColumns(c, y)
<1>1. RegionsAt(c, y) = {q \in [x : high, w : 1..Cardinality(high), h : MinSide..(y + 1)] :
         /\ q.x >= (picture.sw \div 4) + 1 /\ NearSquare(q.w, q.h)
         /\ q.x..(q.x + q.w - 1) \subseteq high
         /\ {q.x - 1, q.x + q.w} \cap high = {}
         /\ Solid(c, q.x, y, q.h) /\ ~Solid(c, q.x, y, q.h + 1)}
  BY Zenon DEF RegionsAt, HighColumns
<1> HIDE DEF high
<1>2. r \in RegionsAt(c, y) <=>
           /\ r \in [x : high, w : 1..Cardinality(high), h : MinSide..(y + 1)]
           /\ r.x >= (picture.sw \div 4) + 1 /\ NearSquare(r.w, r.h)
           /\ r.x..(r.x + r.w - 1) \subseteq high
           /\ {r.x - 1, r.x + r.w} \cap high = {}
           /\ Solid(c, r.x, y, r.h) /\ ~Solid(c, r.x, y, r.h + 1)
  BY <1>1, Zenon
<1> QED
  BY <1>2 DEF high

\* The columns of a picture are so few that a range of high ones is no longer
\* than their number.
LEMMA RangeFits ==
  ASSUME NEW h, NEW n, Rectangle(h, n), NEW c, NEW y, NEW a \in Nat, NEW w \in Nat, w # 0,
         a..(a + w - 1) \subseteq HighColumns(c, y)
  PROVE  w \in 1..Cardinality(HighColumns(c, y))
<1>1. HighColumns(c, y) \subseteq 0..(n - 1) /\ n \in Nat
  BY DEF HighColumns, Rectangle
<1>2. IsFiniteSet(HighColumns(c, y))
  <2>1. IsFiniteSet(0..(n - 1))
    BY <1>1, FS_Interval
  <2> QED
    BY <1>1, <2>1, FS_Subset
<1>3. Cardinality(a..(a + w - 1)) = w
  BY FS_Interval
<1>4. Cardinality(a..(a + w - 1)) <= Cardinality(HighColumns(c, y))
  BY <1>2, FS_Subset
<1>5. Cardinality(HighColumns(c, y)) \in Nat
  BY <1>2, FS_CardinalityType
<1> QED
  BY <1>3, <1>4, <1>5

\* The regions of a row are the stretches that fit, and best becomes the largest
\* of them, if it is larger.
LEMMA RowScanned ==
  ASSUME NEW h, NEW n, Rectangle(h, n), row \in Rows, MinSide \in Nat, MinSide # 0,
         picture.sw \in Nat, best \in Bests, NEW b, b = BestOf(FindTrueRuns(High))
  PROVE  /\ b \in Bests /\ best.area <= b.area
         /\ \A r \in RegionsAt(color, row) : r.w * r.h <= b.area
         /\ b = best \/ \E r \in RegionsAt(color, row) : r.w * r.h = b.area /\ r.x = b.x
<1> DEFINE high == HighColumns(color, row)
           segs == FindTrueRuns(High)
<1>1. n \in Nat /\ Columns = 0..(n - 1) /\ row \in Nat
  BY DEF Rectangle
<1>2. \A x \in Columns : ColRun[row][x] \in Nat
                         /\ \A k \in Nat : k <= ColRun[row][x] <=> Solid(color, x, row, k)
  BY RunIsSolid
<1>3. High \in [0..(n - 1) -> BOOLEAN] /\ \A x \in Columns : High[x] <=> x \in high
  <2>1. High = [x \in Columns |-> ColRun[row][x] >= MinSide]
    BY DEF High
  <2>2. \A x \in Columns : (ColRun[row][x] >= MinSide) <=> x \in high
    BY <1>2 DEF HighColumns
  <2>3. High \in [0..(n - 1) -> BOOLEAN]
    BY <1>1, <2>1
  <2> HIDE DEF high
  <2> QED
    BY <2>1, <2>2, <2>3
<1>4. /\ segs \in Seq(Segments)
      /\ \A i \in 1..Len(segs) : Stretch(High, n, segs[i].start, segs[i].end)
      /\ \A p, q \in Nat : Stretch(High, n, p, q) =>
           \E i \in 1..Len(segs) : segs[i].start = p /\ segs[i].end = q
  <2>1. n \in Nat /\ High \in [0..(n - 1) -> BOOLEAN]
    BY <1>1, <1>3
  <2> HIDE DEF segs
  <2>2. segs = FindTrueRuns(High)
    BY DEF segs
  <2>3. AreStretches(segs, High, n)
    BY <2>1, <2>2, RunsFound
  <2> QED
    BY <2>3 DEF AreStretches
<1>5. b = BestOf(segs)
  OBVIOUS
<1> HIDE DEF segs
<1>6. ASSUME NEW i \in 1..Len(segs)
      PROVE  /\ segs[i].start \in Nat /\ segs[i].end \in Nat /\ segs[i].start < segs[i].end
             /\ segs[i].end <= n /\ segs[i].start \in Columns /\ Height(segs[i]) \in Nat
             /\ Area(segs[i]) \in Nat
  <2>1. Stretch(High, n, segs[i].start, segs[i].end)
    BY <1>4
  <2>2. /\ segs[i].start \in Nat /\ segs[i].end \in Nat /\ segs[i].start < segs[i].end
        /\ segs[i].end <= n
    BY <2>1 DEF Stretch
  <2>3. segs[i].start \in Columns
    BY <1>1, <2>2
  <2>4. Height(segs[i]) \in Nat
    BY <1>2, <2>3 DEF Height
  <2>5. segs[i].end - segs[i].start \in Nat
    BY <2>2
  <2>6. \A p, q \in Nat : p * q \in Nat
    OBVIOUS
  <2>7. Area(segs[i]) \in Nat
    BY <2>4, <2>5, <2>6, Zenon DEF Area
  <2> QED
    BY <2>2, <2>3, <2>4, <2>7
<1>7. BestSoFar(b, best, segs, Len(segs))
  BY <1>4, <1>5, <1>6, BestOfIsBest
<1>8. ASSUME NEW r \in RegionsAt(color, row)
      PROVE  \E i \in 1..Len(segs) : Fits(segs[i]) /\ Area(segs[i]) = r.w * r.h
  <2>1. /\ r \in [x : high, w : 1..Cardinality(high), h : MinSide..(row + 1)]
        /\ r.x >= (picture.sw \div 4) + 1 /\ NearSquare(r.w, r.h)
        /\ r.x..(r.x + r.w - 1) \subseteq high
        /\ {r.x - 1, r.x + r.w} \cap high = {}
        /\ Solid(color, r.x, row, r.h) /\ ~Solid(color, r.x, row, r.h + 1)
    BY <1>8, RegionMember
  <2>2. r.x \in Columns /\ high \subseteq Columns
    BY <2>1 DEF HighColumns
  <2>3. r.w \in Nat /\ r.w # 0 /\ r.h \in Nat /\ r.x \in Nat
    <3>1. r.w \in 1..Cardinality(high) /\ r.h \in MinSide..(row + 1)
      BY <2>1
    <3>2. r.w \in Nat /\ r.w # 0
      <4>1. IsFiniteSet(high)
        <5>1. high \subseteq 0..(n - 1)
          BY <1>1, <2>2
        <5>2. IsFiniteSet(0..(n - 1))
          BY <1>1, FS_Interval
        <5> HIDE DEF high
        <5> QED
          BY <5>1, <5>2, FS_Subset
      <4>2. Cardinality(high) \in Nat
        BY <4>1, FS_CardinalityType
      <4> HIDE DEF high
      <4> QED
        BY <3>1, <4>2
    <3> QED
      BY <1>1, <2>2, <3>1, <3>2
  <2> HIDE DEF high
  <2>4. Stretch(High, n, r.x, r.x + r.w)
    <3>1. r.x + r.w - 1 \in high
      BY <2>1, <2>3
    <3>2. r.x + r.w <= n
      BY <1>1, <2>2, <2>3, <3>1
    <3>3. \A x \in r.x..((r.x + r.w) - 1) : High[x]
      <4> SUFFICES ASSUME NEW x \in r.x..((r.x + r.w) - 1) PROVE High[x]
        OBVIOUS
      <4>1. (r.x + r.w) - 1 = r.x + r.w - 1
        BY <2>3
      <4>2. x \in high
        BY <2>1, <4>1
      <4> QED
        BY <1>3, <2>2, <4>2
    <3>4. r.x = 0 \/ ~High[r.x - 1]
      <4>1. r.x = 0 \/ r.x - 1 \in Columns
        BY <1>1, <2>2
      <4> QED
        BY <1>3, <2>1, <4>1
    <3>5. r.x + r.w = n \/ ~High[r.x + r.w]
      <4>1. r.x + r.w = n \/ r.x + r.w \in Columns
        BY <1>1, <2>3, <3>2
      <4> QED
        BY <1>3, <2>1, <4>1
    <3>6. r.x < r.x + r.w /\ r.x + r.w \in Nat
      BY <2>3
    <3> QED
      BY <2>3, <3>2, <3>3, <3>4, <3>5, <3>6 DEF Stretch
  <2>5. PICK i \in 1..Len(segs) : segs[i].start = r.x /\ segs[i].end = r.x + r.w
    BY <1>4, <2>3, <2>4
  <2>6. Height(segs[i]) = r.h
    <3>1. r.h <= ColRun[row][r.x] /\ ~(r.h + 1 <= ColRun[row][r.x]) /\ ColRun[row][r.x] \in Nat
      BY <1>2, <2>1, <2>2, <2>3
    <3> QED
      BY <2>3, <2>5, <3>1 DEF Height
  <2>7. segs[i].end - segs[i].start = r.w
    BY <2>3, <2>5
  <2>8. ~IsPiece(segs[i].start)
    <3>1. picture.sw \div 4 \in Nat
      OBVIOUS
    <3>2. ~(r.x <= picture.sw \div 4)
      BY <2>1, <2>3, <3>1
    <3> QED
      BY <2>5, <3>2 DEF IsPiece
  <2>9. Fits(segs[i]) /\ Area(segs[i]) = r.w * r.h
    BY <2>1, <2>6, <2>7, <2>8 DEF Fits, Area
  <2> QED
    BY <2>9
<1>9. ASSUME NEW i \in 1..Len(segs), Fits(segs[i])
      PROVE  \E r \in RegionsAt(color, row) : r.w * r.h = Area(segs[i]) /\ r.x = segs[i].start
  <2> DEFINE start == segs[i].start
             w == segs[i].end - start
             t == Height(segs[i])
             r == [x |-> start, w |-> w, h |-> t]
  <2>1. start \in Nat /\ start \in Columns /\ w \in Nat /\ w # 0 /\ t \in Nat /\ start + w <= n
    BY <1>6
  <2>2. t = ColRun[row][start]
    BY DEF Height
  <2>3. segs[i].end = start + w
    BY <1>6
  <2>4. Area(segs[i]) = w * t
    BY DEF Area
  <2>5. ~IsPiece(start) /\ NearSquare(w, t)
    BY <1>9 DEF Fits
  <2> HIDE DEF start, w, t
  <2>6. Stretch(High, n, start, start + w)
    BY <1>4, <2>3 DEF start
  <2>7. start..(start + w - 1) \subseteq high /\ {start - 1, start + w} \cap high = {}
    <3>1. high \subseteq Columns
      BY DEF HighColumns
    <3> HIDE DEF high
    <3>2. \A x \in start..(start + w - 1) : x \in Columns
      BY <1>1, <2>1
    <3>3. (start - 1 \in Columns => start # 0) /\ (start + w \in Columns => start + w # n)
      BY <1>1, <2>1
    <3> QED
      <4>1. /\ \A x \in start..((start + w) - 1) : High[x]
            /\ start = 0 \/ ~High[start - 1]
            /\ start + w = n \/ ~High[start + w]
        BY <2>6 DEF Stretch
      <4>2. \A x \in start..(start + w - 1) : x \in high
        <5> SUFFICES ASSUME NEW x \in start..(start + w - 1) PROVE x \in high
          OBVIOUS
        <5>1. x \in Columns
          BY <3>2
        <5>2. High[x]
          BY <2>1, <2>6 DEF Stretch
        <5> QED
          BY <1>3, <5>1, <5>2
      <4>3. start - 1 \notin high
        BY <1>3, <3>1, <3>3, <4>1
      <4>4. start + w \notin high
        BY <1>3, <3>1, <3>3, <4>1
      <4> QED
        BY <4>2, <4>3, <4>4
  <2>8. w \in 1..Cardinality(high)
    BY <2>1, <2>7, RangeFits
  <2>9. start \in high
    <3>1. start \in start..(start + w - 1)
      BY <2>1
    <3> HIDE DEF high
    <3> QED
      BY <2>7, <3>1
  <2>10. t \in MinSide..(row + 1) /\ Solid(color, start, row, t) /\ ~Solid(color, start, row, t + 1)
    <3>1. Solid(color, start, row, MinSide)
      BY <2>9 DEF HighColumns
    <3>2. MinSide <= t
      BY <1>2, <2>1, <2>2, <3>1
    <3>3. t <= t /\ ~(t + 1 <= t) /\ t + 1 \in Nat
      BY <2>1
    <3>4. Solid(color, start, row, t) /\ ~Solid(color, start, row, t + 1)
      BY <1>2, <2>1, <2>2, <3>3
    <3>5. t <= row + 1
      BY <3>4 DEF Solid
    <3> QED
      BY <1>1, <2>1, <3>2, <3>4, <3>5
  <2>11. start >= (picture.sw \div 4) + 1
    <3>1. picture.sw \div 4 \in Nat /\ ~(start <= picture.sw \div 4)
      BY <2>5 DEF IsPiece
    <3> QED
      BY <2>1, <3>1
  <2>12. r.x = start /\ r.w = w /\ r.h = t
    OBVIOUS
  <2>13. r \in [x : high, w : 1..Cardinality(high), h : MinSide..(row + 1)]
    <3> HIDE DEF high
    <3> QED
      BY <2>8, <2>9, <2>10
  <2> HIDE DEF r
  <2>14. r \in RegionsAt(color, row)
    <3>1. /\ r.x >= (picture.sw \div 4) + 1 /\ NearSquare(r.w, r.h)
          /\ r.x..(r.x + r.w - 1) \subseteq high
          /\ {r.x - 1, r.x + r.w} \cap high = {}
          /\ Solid(color, r.x, row, r.h) /\ ~Solid(color, r.x, row, r.h + 1)
      BY <2>5, <2>7, <2>10, <2>11, <2>12
    <3> QED
      BY <2>13, <3>1, RegionMember
  <2>15. r.w * r.h = Area(segs[i]) /\ r.x = segs[i].start
    BY <2>4, <2>12 DEF start
  <2> QED
    BY <2>14, <2>15
<1>10. /\ b \in Bests /\ best.area <= b.area
       /\ \A i \in 1..Len(segs) : Fits(segs[i]) => Area(segs[i]) <= b.area
       /\ b = best \/ \E i \in 1..Len(segs) : Fits(segs[i]) /\ b.area = Area(segs[i])
                                              /\ b.x = segs[i].start
  BY <1>7 DEF BestSoFar
<1>11. \A r \in RegionsAt(color, row) : r.w * r.h <= b.area
  <2> SUFFICES ASSUME NEW r \in RegionsAt(color, row) PROVE r.w * r.h <= b.area
    OBVIOUS
  <2>1. PICK i \in 1..Len(segs) : Fits(segs[i]) /\ Area(segs[i]) = r.w * r.h
    BY <1>8
  <2>2. Area(segs[i]) <= b.area
    BY <1>10, <2>1
  <2> QED
    BY <2>1, <2>2
<1>12. ASSUME b # best PROVE \E r \in RegionsAt(color, row) : r.w * r.h = b.area /\ r.x = b.x
  <2>1. PICK i \in 1..Len(segs) : Fits(segs[i]) /\ b.area = Area(segs[i]) /\ b.x = segs[i].start
    BY <1>10, <1>12
  <2>2. PICK r \in RegionsAt(color, row) : r.w * r.h = Area(segs[i]) /\ r.x = segs[i].start
    BY <1>9, <2>1
  <2> QED
    BY <2>1, <2>2
<1> QED
  BY <1>10, <1>11, <1>12

----------------------------------------------------------------------------
\* The inductive invariant

\* The regions that end in a row of the scan, which is all but those at the top.
LowRegions(c) == UNION {RegionsAt(c, y) : y \in {y \in Rows : y >= MinSide}}

\* The regions that have been looked at: all those of the colours that have been
\* scanned, and of the one that is being scanned those above the row.
SeenRegions(done, c, k) ==
  (UNION {LowRegions(d) : d \in done})
    \cup (UNION {RegionsAt(c, y) : y \in {y \in Rows : MinSide <= y /\ y < k}})

Scanned == IF at = "rows" THEN SeenRegions(tried, color, row) ELSE SeenRegions(tried, color, 0)

TypeInv ==
  /\ picture \in Pictures /\ at \in {"decode", "colors", "rows", "done"}
  /\ Rectangle(Cardinality(Rows), Cardinality(Columns))
  /\ tried \subseteq Colors /\ row \in Nat /\ best \in Bests

\* No colour that is left is more frequent than one that was taken.
ColorInv ==
  /\ at = "decode" => tried = {}
  /\ \A c \in tried, d \in Colors \ tried : Count(d) <= Count(c)
  /\ at = "rows" => /\ color \in Colors \ tried /\ MinSide <= row
                    /\ \A d \in Colors \ tried : Count(d) <= Count(color)

BestInv ==
  /\ \A r \in Scanned : r.w * r.h <= best.area
  /\ best.area = 0 \/ \E r \in Scanned : r.w * r.h = best.area /\ r.x = best.x

ResultInv ==
  at = "done" /\ result # "error" =>
    /\ Cardinality(tried) = 5 \/ tried = Colors
    /\ result = IF best.area = 0 THEN "no gap" ELSE "offset"

IInv == TypeInv /\ ColorInv /\ BestInv /\ ResultInv

LEMMA SideIsPositive ==
  ASSUME picture \in Pictures
  PROVE  MinSide \in Nat /\ MinSide # 0 /\ picture.sw \in Nat
<1>1. picture.sw \in Nat \ {0} /\ picture.sh \in Nat \ {0}
  BY PicturesAssumption
<1> QED
  BY <1>1 DEF MinSide

LEMMA RegionTyped ==
  ASSUME NEW h, NEW n, Rectangle(h, n), picture \in Pictures, NEW c, NEW y \in Nat,
         NEW r \in RegionsAt(c, y)
  PROVE  /\ r.x \in Columns /\ r.x \in Nat /\ r.w \in Nat /\ r.w # 0 /\ r.h \in Nat /\ r.h # 0
         /\ r.w * r.h \in Nat /\ r.w * r.h # 0
<1> DEFINE high == HighColumns(c, y)
<1>1. /\ r.x \in high /\ r.w \in 1..Cardinality(high) /\ r.h \in MinSide..(y + 1)
  BY RegionMember
<1>2. high \subseteq Columns /\ Columns = 0..(n - 1) /\ n \in Nat
  BY DEF HighColumns, Rectangle
<1> HIDE DEF high
<1>3. r.x \in Columns /\ r.x \in Nat
  <2>1. r.x \in Columns
    BY <1>1, <1>2
  <2>2. r.x \in 0..(n - 1)
    BY <1>2, <2>1
  <2> QED
    BY <1>2, <2>1, <2>2
<1>4. Cardinality(high) \in Nat
  <2>1. IsFiniteSet(0..(n - 1))
    BY <1>2, FS_Interval
  <2>2. IsFiniteSet(high)
    BY <1>2, <2>1, FS_Subset
  <2> QED
    BY <2>2, FS_CardinalityType
<1>5. r.w \in Nat /\ r.w # 0
  BY <1>1, <1>4
<1>6. r.h \in Nat /\ r.h # 0
  BY <1>1, SideIsPositive
<1>7. \A a, b \in Nat : a # 0 /\ b # 0 => a * b \in Nat /\ a * b # 0
  OBVIOUS
<1> QED
  BY <1>3, <1>5, <1>6, <1>7

LEMMA SamePicture ==
  ASSUME grid' = grid, picture' = picture
  PROVE  /\ Rows' = Rows /\ Columns' = Columns /\ Colors' = Colors /\ MinSide' = MinSide
         /\ \A c : Count(c)' = Count(c)
         /\ \A c, y : RegionsAt(c, y)' = RegionsAt(c, y)
         /\ \A c : LowRegions(c)' = LowRegions(c)
         /\ \A h, w : Rectangle(h, w)' <=> Rectangle(h, w)
         /\ \A s, c, k : SeenRegions(s, c, k)' = SeenRegions(s, c, k)
<1>1. Rows' = Rows
  BY DEF Rows
<1>2. Columns' = Columns
  BY <1>1 DEF Columns
<1>3. Colors' = Colors
  BY <1>1, <1>2 DEF Colors
<1>4. MinSide' = MinSide
  BY DEF MinSide
<1>5. \A c : Count(c)' = Count(c)
  BY <1>1, <1>2 DEF Count
<1>6. \A c, y : RegionsAt(c, y)' = RegionsAt(c, y)
  BY <1>2, <1>4 DEF RegionsAt, Solid
<1>7. \A c : LowRegions(c)' = LowRegions(c)
  BY <1>1, <1>4, <1>6 DEF LowRegions
<1>8. \A h, w : Rectangle(h, w)' <=> Rectangle(h, w)
  BY <1>1, <1>2 DEF Rectangle
<1>9. \A s, c, k : SeenRegions(s, c, k)' = SeenRegions(s, c, k)
  BY <1>1, <1>4, <1>6, <1>7 DEF SeenRegions
<1> QED
  BY <1>1, <1>2, <1>3, <1>4, <1>5, <1>6, <1>7, <1>8, <1>9

\* The picture is downsampled to a rectangle of half its sides.
LEMMA DownsampledIsRectangle ==
  ASSUME NEW p \in Pictures, grid' = Downsampled(p.pixel)
  PROVE  Rectangle(Cardinality(Rows), Cardinality(Columns))'
<1> DEFINE q == p.pixel
           h == Len(q) \div 2
           n == Len(q[1]) \div 2
<1>1. q \in Seq(Seq(Nat)) /\ \A j \in 1..Len(q) : Len(q[j]) = Len(q[1])
  BY PicturesAssumption
<1> HIDE DEF q
<1>2. h \in Nat /\ \A y \in 0..(h - 1) : 2 * y + 1 \in 1..Len(q)
  BY <1>1
<1>3. grid' = [y \in 0..(h - 1) |-> [x \in 0..(n - 1) |-> Quantize(q[2 * y + 1][2 * x + 1])]]
  BY DEF Downsampled, q
<1>4. Rows' = 0..(h - 1)
  <2> HIDE DEF h, n
  <2> QED
    BY <1>3 DEF Rows
<1>5. ASSUME h # 0
      PROVE  n \in Nat /\ \A y \in 0..(h - 1), x \in 0..(n - 1) : Quantize(q[2 * y + 1][2 * x + 1]) \in Nat
  <2>1. 1 \in 1..Len(q)
    BY <1>1, <1>5
  <2>2. q[1] \in Seq(Nat)
    BY <1>1, <2>1
  <2>3. n \in Nat /\ \A x \in 0..(n - 1) : 2 * x + 1 \in 1..Len(q[1])
    <3>1. Len(q[1]) \in Nat
      BY <2>2
    <3>2. \A k \in Nat : k \div 2 \in Nat /\ \A x \in 0..(k \div 2 - 1) : 2 * x + 1 \in 1..k
      OBVIOUS
    <3> QED
      BY <3>1, <3>2
  <2>4. \A y \in 0..(h - 1) : q[2 * y + 1] \in Seq(Nat) /\ Len(q[2 * y + 1]) = Len(q[1])
    BY <1>1, <1>2
  <2>5. \A y \in 0..(h - 1), x \in 0..(n - 1) : q[2 * y + 1][2 * x + 1] \in Nat
    <3> HIDE DEF h, n
    <3> QED
      BY <2>3, <2>4
  <2>6. \A v \in Nat : Quantize(v) \in Nat
    BY DEF Quantize
  <2> HIDE DEF h, n
  <2> QED
    BY <2>3, <2>5, <2>6
<1> HIDE DEF h, n
<1>6. Cardinality(Rows') = h
  BY <1>2, <1>4, FS_Interval
<1>7. CASE h = 0
  <2>1. Rows' = {}
    BY <1>4, <1>7
  <2>2. Columns' = {} /\ {} = 0..(0 - 1)
    BY <2>1 DEF Columns
  <2>3. Cardinality(Columns') = 0
    BY <2>2, FS_EmptySet
  <2>4. Rectangle(0, 0)'
    BY <2>1, <2>2 DEF Rectangle
  <2> QED
    BY <1>6, <1>7, <2>3, <2>4
<1>8. CASE h # 0
  <2>1. 0 \in 0..(h - 1)
    BY <1>2, <1>8
  <2>2. Columns' = 0..(n - 1)
    <3>1. DOMAIN grid'[0] = 0..(n - 1)
      BY <1>3, <2>1
    <3> QED
      BY <1>4, <2>1, <3>1 DEF Columns
  <2>3. n \in Nat
    BY <1>5, <1>8
  <2>4. Cardinality(Columns') = n
    BY <2>2, <2>3, FS_Interval
  <2>5. \A y \in Rows' : grid'[y] \in [Columns' -> Nat]
    BY <1>3, <1>4, <1>5, <1>8, <2>2
  <2>6. Rectangle(h, n)'
    BY <1>2, <1>4, <2>2, <2>3, <2>5 DEF Rectangle
  <2> QED
    BY <1>6, <2>4, <2>6
<1> QED
  BY <1>7, <1>8

LEMMA SeenMember ==
  ASSUME NEW done, NEW c, NEW k, NEW r
  PROVE  r \in SeenRegions(done, c, k) <=>
           \/ \E d \in done : r \in LowRegions(d)
           \/ \E y \in Rows : MinSide <= y /\ y < k /\ r \in RegionsAt(c, y)
<1> DEFINE Y == {y \in Rows : MinSide <= y /\ y < k}
           A == UNION {LowRegions(d) : d \in done}
           B == UNION {RegionsAt(c, y) : y \in Y}
<1>1. SeenRegions(done, c, k) = A \cup B
  BY DEF SeenRegions
<1>2. r \in A <=> \E d \in done : r \in LowRegions(d)
  BY Zenon
<1>3. r \in B <=> \E y \in Y : r \in RegionsAt(c, y)
  BY Zenon
<1>4. \A y : y \in Y <=> y \in Rows /\ MinSide <= y /\ y < k
  OBVIOUS
<1> HIDE DEF Y, A, B
<1>5. (\E y \in Y : r \in RegionsAt(c, y))
        <=> \E y \in Rows : MinSide <= y /\ y < k /\ r \in RegionsAt(c, y)
  BY <1>4, Zenon
<1> QED
  BY <1>1, <1>2, <1>3, <1>5

LEMMA LowRegionsMember ==
  ASSUME NEW c, NEW r
  PROVE  r \in LowRegions(c) <=> \E y \in Rows : y >= MinSide /\ r \in RegionsAt(c, y)
  BY Zenon DEF LowRegions

LEMMA RowIsSeen ==
  ASSUME NEW done, NEW c, NEW k \in Nat, k \in Rows, MinSide <= k, Rows \subseteq Nat
  PROVE  SeenRegions(done, c, k + 1) = SeenRegions(done, c, k) \cup RegionsAt(c, k)
<1>1. \A y \in Rows : y < k + 1 <=> y < k \/ y = k
  OBVIOUS
<1>2. ASSUME NEW r
      PROVE  r \in SeenRegions(done, c, k + 1) <=>
               r \in SeenRegions(done, c, k) \/ r \in RegionsAt(c, k)
  BY <1>1, SeenMember
<1> QED
  BY <1>2

\* Nothing of a colour is seen before its first row, all of it after the last.
LEMMA ColorIsSeen ==
  ASSUME NEW done, NEW c, NEW k \in Nat, MinSide \in Nat, Rows \subseteq Nat
  PROVE  /\ k <= MinSide => SeenRegions(done, c, k) = UNION {LowRegions(d) : d \in done}
         /\ (\A y \in Rows : y < k) =>
              SeenRegions(done, c, k) = UNION {LowRegions(d) : d \in done \cup {c}}
<1>1. ASSUME k <= MinSide PROVE SeenRegions(done, c, k) = UNION {LowRegions(d) : d \in done}
  <2>1. \A y \in Rows : ~(MinSide <= y /\ y < k)
    BY <1>1
  <2>2. ASSUME NEW r
        PROVE  r \in SeenRegions(done, c, k) <=> r \in UNION {LowRegions(d) : d \in done}
    BY <2>1, SeenMember
  <2> QED
    BY <2>2
<1>2. ASSUME \A y \in Rows : y < k
      PROVE  SeenRegions(done, c, k) = UNION {LowRegions(d) : d \in done \cup {c}}
  <2>1. ASSUME NEW r
        PROVE  r \in SeenRegions(done, c, k) <=> r \in UNION {LowRegions(d) : d \in done \cup {c}}
    <3>1. (\E y \in Rows : MinSide <= y /\ y < k /\ r \in RegionsAt(c, y)) <=> r \in LowRegions(c)
      BY <1>2, LowRegionsMember
    <3> QED
      BY <3>1, SeenMember
  <2> QED
    BY <2>1
<1> QED
  BY <1>1, <1>2

LEMMA Start == Init => IInv
<1> SUFFICES ASSUME Init PROVE IInv
  OBVIOUS
<1>1. Rows = {} /\ Columns = {}
  BY DEF Init, Rows, Columns
<1>2. Cardinality(Rows) = 0 /\ Cardinality(Columns) = 0 /\ {} = 0..(0 - 1)
  BY <1>1, FS_EmptySet
<1>3. Rectangle(Cardinality(Rows), Cardinality(Columns))
  BY <1>1, <1>2 DEF Rectangle
<1>4. TypeInv
  BY <1>3 DEF TypeInv, Init, Bests
<1>5. Scanned = {}
  BY <1>1 DEF Scanned, SeenRegions, Init
<1> QED
  BY <1>4, <1>5 DEF IInv, ColorInv, BestInv, ResultInv, Init

LEMMA Step == IInv /\ [Next]_vars => IInv'
<1> SUFFICES ASSUME IInv, [Next]_vars PROVE IInv'
  OBVIOUS
<1> DEFINE h == Cardinality(Rows)
           n == Cardinality(Columns)
<1>1. /\ picture \in Pictures /\ at \in {"decode", "colors", "rows", "done"} /\ Rectangle(h, n)
      /\ tried \subseteq Colors /\ row \in Nat /\ best \in Bests
  BY DEF IInv, TypeInv
<1> HIDE DEF h, n
<1>2. MinSide \in Nat /\ MinSide # 0 /\ picture.sw \in Nat
  BY <1>1, SideIsPositive
<1>3. Rows \subseteq Nat /\ h \in Nat /\ Rows = 0..(h - 1)
  BY <1>1 DEF Rectangle
<1>4. ColorInv /\ BestInv /\ ResultInv
  BY DEF IInv
<1>5. at # "rows" => Scanned = UNION {LowRegions(d) : d \in tried}
  <2>1. SeenRegions(tried, color, 0) = UNION {LowRegions(d) : d \in tried}
    BY <1>2, <1>3, ColorIsSeen
  <2> QED
    BY <2>1 DEF Scanned
\* The steps that leave the picture alone.
<1>6. ASSUME UNCHANGED <<picture, grid>>
      PROVE  /\ Rectangle(Cardinality(Rows), Cardinality(Columns))'
             /\ Colors' = Colors /\ MinSide' = MinSide /\ \A c : Count(c)' = Count(c)
             /\ Scanned' = IF at' = "rows" THEN SeenRegions(tried', color', row')
                           ELSE UNION {LowRegions(d) : d \in tried'}
  <2>1. SeenRegions(tried, color, 0)' = SeenRegions(tried', color', 0)
    BY <1>6, SamePicture
  <2>2. SeenRegions(tried, color, row)' = SeenRegions(tried', color', row')
    BY <1>6, SamePicture
  <2>3. SeenRegions(tried', color', 0) = UNION {LowRegions(d) : d \in tried'}
    BY <1>2, <1>3, ColorIsSeen
  <2>4. Rows' = Rows /\ Columns' = Columns
    BY <1>6, SamePicture
  <2>5. Rectangle(Cardinality(Rows), Cardinality(Columns))'
    BY <1>1, <1>6, <2>4 DEF Rectangle, h, n
  <2>6. Colors' = Colors /\ MinSide' = MinSide /\ \A c : Count(c)' = Count(c)
    BY <1>6, SamePicture
  <2> QED
    BY <2>1, <2>2, <2>3, <2>5, <2>6 DEF Scanned
<1>7. CASE DecodeFails
  <2>1. UNCHANGED <<picture, grid, tried, color, row, best>> /\ at = "decode" /\ at' = "done" /\ result' = "error"
    BY <1>7 DEF DecodeFails
  <2>2. Scanned' = Scanned
    BY <1>5, <1>6, <2>1
  <2> QED
    BY <1>1, <1>4, <1>6, <2>1, <2>2 DEF IInv, TypeInv, ColorInv, BestInv, ResultInv
<1>8. CASE Decode
  <2>1. /\ UNCHANGED <<picture, tried, color, row, best, result>> /\ at = "decode" /\ at' = "colors"
        /\ grid' = Downsampled(picture.pixel) /\ tried = {}
    BY <1>4, <1>8 DEF Decode, ColorInv
  <2>2. Rectangle(Cardinality(Rows), Cardinality(Columns))'
    BY <1>1, <2>1, DownsampledIsRectangle
  <2>3. Scanned' = {} /\ Scanned = {}
    <3>1. Scanned' = SeenRegions(tried, color, 0)'
      BY <2>1 DEF Scanned
    <3>2. MinSide' = MinSide
      BY <2>1 DEF MinSide
    <3>3. Rows' \subseteq Nat
      BY <2>2 DEF Rectangle
    <3>4. {y \in Rows' : MinSide' <= y /\ y < 0} = {}
      <4>1. \A y \in Rows' : ~(y < 0)
        BY <3>3
      <4> QED
        BY <4>1
    <3>5. SeenRegions(tried, color, 0)' = {}
      BY <2>1, <3>4 DEF SeenRegions
    <3> QED
      BY <1>5, <2>1, <3>1, <3>5
  <2> QED
    BY <1>1, <1>4, <2>1, <2>2, <2>3 DEF IInv, TypeInv, ColorInv, BestInv, ResultInv
<1>9. CASE NextColor
  <2>1. PICK c \in Colors \ tried : (\A d \in Colors \ tried : Count(d) <= Count(c)) /\ color' = c
    BY <1>9 DEF NextColor
  <2>2. /\ UNCHANGED <<picture, grid, tried, best, result>> /\ at = "colors" /\ at' = "rows"
        /\ row' = MinSide
    BY <1>9 DEF NextColor
  <2>3. Scanned' = Scanned
    <3>1. Scanned' = SeenRegions(tried, color', MinSide)
      BY <1>6, <2>2
    <3>2. SeenRegions(tried, color', MinSide) = UNION {LowRegions(d) : d \in tried}
      BY <1>2, <1>3, ColorIsSeen
    <3> QED
      BY <1>5, <2>2, <3>1, <3>2
  <2>4. TypeInv'
    BY <1>1, <1>2, <1>6, <2>2 DEF TypeInv
  <2>5. ColorInv'
    BY <1>2, <1>4, <1>6, <2>1, <2>2 DEF ColorInv
  <2> QED
    BY <1>4, <2>2, <2>3, <2>4, <2>5 DEF IInv, BestInv, ResultInv
<1>10. CASE ScanRow
  <2>1. /\ UNCHANGED <<picture, at, grid, tried, color, result>> /\ at = "rows" /\ row \in Rows
        /\ best' = BestOf(FindTrueRuns(High)) /\ row' = row + 1 /\ MinSide <= row
    BY <1>4, <1>10 DEF ScanRow, ColorInv
  <2>2. /\ best' \in Bests /\ best.area <= best'.area
        /\ \A r \in RegionsAt(color, row) : r.w * r.h <= best'.area
        /\ best' = best \/ \E r \in RegionsAt(color, row) : r.w * r.h = best'.area /\ r.x = best'.x
    BY <1>1, <1>2, <2>1, RowScanned
  <2>3. Scanned' = Scanned \cup RegionsAt(color, row)
    <3>1. Scanned' = SeenRegions(tried, color, row + 1) /\ Scanned = SeenRegions(tried, color, row)
      BY <1>6, <2>1 DEF Scanned
    <3> QED
      BY <1>1, <1>3, <2>1, <3>1, RowIsSeen
  <2>4. BestInv'
    <3>1. \A r \in Scanned : r.w * r.h <= best.area
      BY <1>4 DEF BestInv
    <3>2. ASSUME NEW r \in Scanned PROVE r.w * r.h <= best'.area
      <4>1. r.w * r.h \in Nat
        <5>1. \E c : \E y \in Rows : r \in RegionsAt(c, y)
          <6>1. r \in SeenRegions(tried, color, row)
            BY <2>1 DEF Scanned
          <6> QED
            BY <6>1, SeenMember, LowRegionsMember, Zenon
        <5>2. PICK c : \E y \in Rows : r \in RegionsAt(c, y)
          BY <5>1
        <5>3. PICK y \in Rows : r \in RegionsAt(c, y)
          BY <5>2
        <5>4. y \in Nat
          BY <1>3
        <5> QED
          BY <1>1, <5>3, <5>4, RegionTyped
      <4>2. r.w * r.h <= best.area /\ best.area \in Nat /\ best'.area \in Nat
        BY <1>1, <2>2, <3>1 DEF Bests
      <4> DEFINE a == r.w * r.h
      <4> HIDE DEF a
      <4>3. a \in Nat /\ a <= best.area
        BY <4>1, <4>2 DEF a
      <4>4. a <= best'.area
        BY <2>2, <4>2, <4>3
      <4> QED
        BY <4>4 DEF a
    <3>3. \A r \in Scanned' : r.w * r.h <= best'.area
      BY <2>2, <2>3, <3>2
    <3>4. CASE best' = best
      <4>1. best.area = 0 \/ \E r \in Scanned : r.w * r.h = best.area /\ r.x = best.x
        BY <1>4 DEF BestInv
      <4> QED
        BY <2>3, <3>3, <3>4, <4>1 DEF BestInv
    <3>5. CASE best' # best
      <4>1. \E r \in RegionsAt(color, row) : r.w * r.h = best'.area /\ r.x = best'.x
        BY <2>2, <3>5
      <4> QED
        BY <2>3, <3>3, <4>1 DEF BestInv
    <3> QED
      BY <3>4, <3>5
  <2>5. TypeInv'
    BY <1>1, <1>6, <2>1, <2>2 DEF TypeInv
  <2>6. ColorInv'
    BY <1>1, <1>2, <1>4, <1>6, <2>1 DEF ColorInv
  <2> QED
    BY <1>4, <2>1, <2>4, <2>5, <2>6 DEF IInv, ResultInv
<1>11. CASE ColorScanned
  <2>1. /\ UNCHANGED <<picture, grid, best, result>> /\ at = "rows" /\ at' = "colors" /\ row \notin Rows
        /\ tried' = tried \cup {color} /\ row' = 0 /\ MinSide <= row /\ color \in Colors \ tried
        /\ \A d \in Colors \ tried : Count(d) <= Count(color)
    BY <1>4, <1>11 DEF ColorScanned, ColorInv
  <2>2. Scanned' = Scanned
    <3>1. Scanned' = UNION {LowRegions(d) : d \in tried \cup {color}} /\ Scanned = SeenRegions(tried, color, row)
      BY <1>6, <2>1 DEF Scanned
    <3>2. \A y \in Rows : y < row
      BY <1>1, <1>3, <2>1
    <3> QED
      BY <1>1, <1>2, <1>3, <3>1, <3>2, ColorIsSeen
  <2>3. TypeInv'
    BY <1>1, <1>6, <2>1 DEF TypeInv
  <2>4. ColorInv'
    BY <1>4, <1>6, <2>1 DEF ColorInv
  <2> QED
    BY <1>4, <2>1, <2>2, <2>3, <2>4 DEF IInv, BestInv, ResultInv
<1>12. CASE Return
  <2>1. /\ UNCHANGED <<picture, grid, tried, color, row, best>> /\ at = "colors" /\ at' = "done"
        /\ result' = (IF best.area = 0 THEN "no gap" ELSE "offset")
        /\ Cardinality(tried) = 5 \/ tried = Colors
    BY <1>12 DEF Return
  <2>2. Scanned' = Scanned
    BY <1>5, <1>6, <2>1
  <2>3. TypeInv' /\ ColorInv'
    BY <1>1, <1>4, <1>6, <2>1 DEF TypeInv, ColorInv
  <2>4. BestInv'
    BY <1>4, <2>1, <2>2 DEF BestInv
  <2>5. ResultInv'
    BY <1>6, <2>1 DEF ResultInv
  <2> QED
    BY <2>3, <2>4, <2>5 DEF IInv
<1>13. CASE UNCHANGED vars
  <2>1. UNCHANGED <<picture, at, grid, tried, color, row, best, result>>
    BY <1>13 DEF vars
  <2>2. Scanned' = Scanned
    BY <1>5, <1>6, <2>1 DEF Scanned
  <2>3. TypeInv' /\ ColorInv'
    BY <1>1, <1>4, <1>6, <2>1 DEF TypeInv, ColorInv
  <2>4. BestInv' /\ ResultInv'
    BY <1>4, <1>6, <2>1, <2>2 DEF BestInv, ResultInv
  <2> QED
    BY <2>3, <2>4 DEF IInv
<1> QED
  BY <1>7, <1>8, <1>9, <1>10, <1>11, <1>12, <1>13 DEF Next, Done

\* While a picture is scanned, the colours are taken by their frequency and best
\* is the largest of the regions that the rows so far have shown.
THEOREM Invariance == Spec => []IInv
<1> QED
  BY Start, Step, PTL DEF Spec

----------------------------------------------------------------------------
\* The result

\* When the scan has ended, best is the largest of the regions of the colours.
LEMMA ScanEnded ==
  ASSUME IInv, at = "done", result # "error"
  PROVE  LET regions == UNION {LowRegions(c) : c \in tried} IN
         /\ \A c \in tried, d \in Colors \ tried : Count(d) <= Count(c)
         /\ Cardinality(tried) = 5 \/ tried = Colors
         /\ (result = "no gap") <=> (regions = {})
         /\ result # "no gap" => result = "offset"
         /\ \A r \in regions : r.w * r.h <= best.area
         /\ result = "offset" => \E r \in regions : r.x = best.x /\ r.w * r.h = best.area
<1> DEFINE regions == UNION {LowRegions(c) : c \in tried}
<1>1. TypeInv /\ ColorInv /\ BestInv /\ ResultInv
  BY DEF IInv
<1>2. picture \in Pictures /\ Rectangle(Cardinality(Rows), Cardinality(Columns)) /\ best.area \in Nat
  BY <1>1 DEF TypeInv, Bests
<1>3. MinSide \in Nat /\ Rows \subseteq Nat
  BY <1>2, SideIsPositive DEF Rectangle
<1>4. Scanned = regions
  <2>1. SeenRegions(tried, color, 0) = regions
    BY <1>3, ColorIsSeen
  <2> QED
    BY <2>1 DEF Scanned
<1>5. /\ \A r \in regions : r.w * r.h <= best.area
      /\ best.area = 0 \/ \E r \in regions : r.w * r.h = best.area /\ r.x = best.x
  BY <1>1, <1>4 DEF BestInv
<1>6. /\ Cardinality(tried) = 5 \/ tried = Colors
      /\ result = IF best.area = 0 THEN "no gap" ELSE "offset"
  BY <1>1 DEF ResultInv
<1>7. \A r \in regions : r.w * r.h \in Nat /\ r.w * r.h # 0
  <2> SUFFICES ASSUME NEW c \in tried, NEW r \in LowRegions(c) PROVE r.w * r.h \in Nat /\ r.w * r.h # 0
    OBVIOUS
  <2>1. PICK y \in Rows : r \in RegionsAt(c, y)
    BY LowRegionsMember
  <2>2. y \in Nat
    BY <1>3
  <2> QED
    BY <1>2, <2>1, <2>2, RegionTyped
<1>8. \A c \in tried, d \in Colors \ tried : Count(d) <= Count(c)
  BY <1>1 DEF ColorInv
<1> HIDE DEF regions
<1>9. best.area = 0 <=> regions = {}
  <2>1. ASSUME best.area = 0, NEW r \in regions PROVE FALSE
    <3> DEFINE a == r.w * r.h
    <3>1. a \in Nat /\ a # 0
      BY <1>7
    <3>2. a <= 0
      BY <1>5, <2>1
    <3> HIDE DEF a
    <3> QED
      BY <3>1, <3>2
  <2> QED
    BY <1>5, <2>1
<1>10. (result = "no gap") <=> (regions = {})
  BY <1>6, <1>9
<1>11. result # "no gap" => result = "offset"
  BY <1>6
<1>12. result = "offset" => \E r \in regions : r.x = best.x /\ r.w * r.h = best.area
  BY <1>5, <1>6
<1> QED
  BY <1>5, <1>6, <1>8, <1>10, <1>11, <1>12 DEF regions

\* A region that is not at the top ends in a row that is scanned.
LEMMA TopOrLow ==
  ASSUME picture \in Pictures, Rows \subseteq Nat,
         NEW c, NEW y \in Rows, NEW r \in RegionsAt(c, y), ~AtTop(r, y)
  PROVE  r \in LowRegions(c)
<1>1. MinSide \in Nat /\ y \in Nat
  BY SideIsPositive
<1>2. r.h \in MinSide..(y + 1)
  BY RegionMember
<1>3. y >= MinSide
  BY <1>1, <1>2 DEF AtTop
<1> QED
  BY <1>3, LowRegionsMember

\* MatchSliderOffset returns the left edge of the largest nearly square region of
\* the most frequent colours that is not at the top, in whatever order they come,
\* whatever the picture.
THEOREM LargestIsReturned == Spec => []ResultIsLargestBelowTop
<1>1. IInv => ResultIsLargestBelowTop
  <2> SUFFICES ASSUME IInv, at = "done", result # "error" PROVE ResultIsLargestBelowTop
    BY DEF ResultIsLargestBelowTop
  <2> DEFINE regions == UNION {LowRegions(c) : c \in tried}
  <2>1. /\ \A c \in tried, d \in Colors \ tried : Count(d) <= Count(c)
        /\ (result = "no gap") <=> (regions = {})
        /\ result # "no gap" => result = "offset"
        /\ \A r \in regions : r.w * r.h <= best.area
        /\ result = "offset" => \E r \in regions : r.x = best.x /\ r.w * r.h = best.area
    BY ScanEnded
  <2>2. picture \in Pictures /\ Rows \subseteq Nat
    BY DEF IInv, TypeInv, Rectangle
  <2>3. ASSUME NEW c \in tried, NEW y \in Rows, NEW r \in RegionsAt(c, y)
        PROVE  AtTop(r, y) \/ (result = "offset" /\ r.w * r.h <= best.area)
    <3> SUFFICES ASSUME ~AtTop(r, y) PROVE result = "offset" /\ r.w * r.h <= best.area
      OBVIOUS
    <3>1. r \in regions
      BY <2>2, TopOrLow
    <3> HIDE DEF regions
    <3> QED
      BY <2>1, <3>1
  <2>4. ASSUME result = "offset"
        PROVE  \E c \in tried : \E r \in Regions(c) : r.x = best.x /\ r.w * r.h = best.area
    <3>1. PICK r \in regions : r.x = best.x /\ r.w * r.h = best.area
      BY <2>1, <2>4
    <3>2. PICK c \in tried : r \in LowRegions(c)
      BY <3>1
    <3>3. r \in Regions(c)
      BY <3>2, Zenon DEF LowRegions, Regions
    <3> QED
      BY <3>1, <3>2, <3>3
  <2> HIDE DEF regions
  <2> QED
    BY <2>1, <2>3, <2>4 DEF ResultIsLargestBelowTop
<1> QED
  BY <1>1, Invariance, PTL

----------------------------------------------------------------------------
\* The gap

LEMMA Frequencies ==
  ASSUME NEW h, NEW n, Rectangle(h, n)
  PROVE  IsFiniteSet(Colors) /\ \A c : Count(c) \in Nat
<1> DEFINE Cells == Rows \X Columns
<1>1. Rows = 0..(h - 1) /\ Columns = 0..(n - 1) /\ h \in Nat /\ n \in Nat
  BY DEF Rectangle
<1>2. IsFiniteSet(Rows) /\ IsFiniteSet(Columns)
  BY <1>1, FS_Interval
<1>3. IsFiniteSet(Cells)
  BY <1>2, FS_Product
<1>4. ASSUME NEW c PROVE Count(c) \in Nat
  <2> DEFINE S == {p \in Cells : grid[p[1]][p[2]] = c}
  <2>1. Count(c) = Cardinality(S) /\ S \subseteq Cells
    BY DEF Count
  <2> HIDE DEF S
  <2>2. IsFiniteSet(S)
    BY <1>3, <2>1, FS_Subset
  <2> QED
    BY <2>1, <2>2, FS_CardinalityType
<1>5. IsFiniteSet(Colors)
  <2> DEFINE f == [p \in Cells |-> grid[p[1]][p[2]]]
  <2>1. \A c \in Colors : \E p \in Cells : f[p] = c
    <3> SUFFICES ASSUME NEW c \in Colors PROVE \E p \in Cells : f[p] = c
      OBVIOUS
    <3>1. PICK y \in Rows, x \in Columns : c = grid[y][x]
      BY DEF Colors
    <3>2. <<y, x>> \in Cells /\ f[<<y, x>>] = grid[y][x]
      OBVIOUS
    <3> QED
      BY <3>1, <3>2
  <2>2. \A p \in Cells : f[p] \in Colors
    BY DEF Colors
  <2>3. f \in Surjection(Cells, Colors)
    <3>1. f \in [Cells -> Colors]
      BY <2>2
    <3> HIDE DEF f
    <3> QED
      BY <2>1, <3>1 DEF Surjection
  <2> QED
    BY <1>3, <2>3, FS_Surjection
<1> QED
  BY <1>4, <1>5

\* If at most five colours are as frequent as a colour, it is scanned.
LEMMA FrequentIsTried ==
  ASSUME IInv, NEW g \in Colors, Cardinality(tried) = 5 \/ tried = Colors,
         Cardinality({c \in Colors : Count(c) >= Count(g)}) <= 5
  PROVE  g \in tried
<1> DEFINE S == {c \in Colors : Count(c) >= Count(g)}
<1>1. /\ Rectangle(Cardinality(Rows), Cardinality(Columns)) /\ tried \subseteq Colors
      /\ \A c \in tried, d \in Colors \ tried : Count(d) <= Count(c)
  BY DEF IInv, TypeInv, ColorInv
<1>2. IsFiniteSet(Colors) /\ \A c : Count(c) \in Nat
  BY <1>1, Frequencies
<1> SUFFICES ASSUME g \notin tried PROVE FALSE
  OBVIOUS
<1>3. Cardinality(tried) = 5
  OBVIOUS
<1>4. tried \cup {g} \subseteq S
  BY <1>1, <1>2
<1>5. S \subseteq Colors
  OBVIOUS
<1>6. Cardinality(S) <= 5
  OBVIOUS
<1> HIDE DEF S
<1>7. IsFiniteSet(S) /\ IsFiniteSet(tried)
  BY <1>1, <1>2, <1>5, FS_Subset
<1>8. Cardinality(tried \cup {g}) = 6
  <2>1. IsFiniteSet(tried) /\ g \notin tried
    BY <1>7
  <2>2. Cardinality(tried \cup {g}) = Cardinality(tried) + 1
    BY <2>1, FS_AddElement
  <2> QED
    BY <1>3, <2>2
<1>9. Cardinality(tried \cup {g}) <= Cardinality(S)
  BY <1>4, <1>7, FS_Subset
<1>10. Cardinality(S) \in Nat
  BY <1>7, FS_CardinalityType
<1> QED
  BY <1>6, <1>8, <1>9, <1>10

\* The cells from x0 to x1-1 and y0 to y1-1 have the colour c, and besides theirs
\* no two cells that are side by side or one above the other have the same.
Block(c, x0, x1, y0, y1) ==
  /\ x0 \in Nat /\ x1 \in Nat /\ y0 \in Nat /\ y1 \in Nat /\ x0 < x1 /\ y0 < y1
  /\ y1 - 1 \in Rows /\ x1 - 1 \in Columns
  /\ \A y \in y0..(y1 - 1), x \in x0..(x1 - 1) : grid[y][x] = c
  /\ \A y \in Rows, x \in Columns :
       y + 1 \in Rows /\ grid[y][x] = grid[y + 1][x]
         => y \in y0..(y1 - 1) /\ y + 1 \in y0..(y1 - 1) /\ x \in x0..(x1 - 1)
  /\ \A y \in Rows, x \in Columns :
       x + 1 \in Columns /\ grid[y][x] = grid[y][x + 1]
         => y \in y0..(y1 - 1) /\ x \in x0..(x1 - 1) /\ x + 1 \in x0..(x1 - 1)

LEMMA TexturedIsBlock ==
  ASSUME NEW g \in [x : Nat, y : Nat, w : Nat, h : Nat], Textured(g),
         NEW s, s = Shown(g), s.x < s.xEnd, s.y < s.yEnd
  PROVE  Block(grid[s.y][s.x], s.x, s.xEnd, s.y, s.yEnd)
<1>1. s.x \in Nat /\ s.xEnd \in Nat /\ s.y \in Nat /\ s.yEnd \in Nat
  BY DEF Shown
<1>2. /\ s.yEnd - 1 \in Rows /\ s.xEnd - 1 \in Columns
      /\ \A y \in s.y..(s.yEnd - 1), x \in s.x..(s.xEnd - 1) : grid[y][x] = grid[s.y][s.x]
      /\ \A y \in Rows, x \in Columns :
           /\ y + 1 \in Rows /\ grid[y][x] = grid[y + 1][x]
                => /\ y \in s.y..(s.yEnd - 1) /\ x \in s.x..(s.xEnd - 1)
                   /\ y + 1 \in s.y..(s.yEnd - 1) /\ x \in s.x..(s.xEnd - 1)
           /\ x + 1 \in Columns /\ grid[y][x] = grid[y][x + 1]
                => /\ y \in s.y..(s.yEnd - 1) /\ x \in s.x..(s.xEnd - 1)
                   /\ y \in s.y..(s.yEnd - 1) /\ x + 1 \in s.x..(s.xEnd - 1)
  BY Zenon DEF Textured
<1> QED
  BY <1>1, <1>2 DEF Block

\* A block that is nearly square and far enough right and down is a region.
LEMMA BlockIsRegion ==
  ASSUME NEW h, NEW n, Rectangle(h, n), picture \in Pictures,
         NEW c, NEW x0, NEW x1, NEW y0, NEW y1, Block(c, x0, x1, y0, y1),
         NearSquare(x1 - x0, y1 - y0), MinSide <= y1 - y0, 4 * x0 > picture.sw
  PROVE  [x |-> x0, w |-> x1 - x0, h |-> y1 - y0] \in RegionsAt(c, y1 - 1)
<1> DEFINE high == HighColumns(c, y1 - 1)
           r == [x |-> x0, w |-> x1 - x0, h |-> y1 - y0]
<1>1. /\ x0 \in Nat /\ x1 \in Nat /\ y0 \in Nat /\ y1 \in Nat /\ x0 < x1 /\ y0 < y1
      /\ y1 - 1 \in Rows /\ x1 - 1 \in Columns
      /\ Rows = 0..(h - 1) /\ Columns = 0..(n - 1) /\ h \in Nat /\ n \in Nat
      /\ MinSide \in Nat /\ MinSide # 0 /\ picture.sw \in Nat
  BY SideIsPositive DEF Block, Rectangle
<1>2. ASSUME NEW x \in x0..(x1 - 1), NEW k \in Nat, k <= y1 - y0 PROVE Solid(c, x, y1 - 1, k)
  <2>1. k <= (y1 - 1) + 1
    BY <1>1, <1>2
  <2>2. ASSUME NEW j \in ((y1 - 1) - k + 1)..(y1 - 1) PROVE grid[j][x] = c
    <3>1. j \in y0..(y1 - 1)
      BY <1>1, <1>2
    <3> QED
      BY <3>1 DEF Block
  <2> QED
    BY <2>1, <2>2 DEF Solid
<1>3. ASSUME NEW x, Solid(c, x, y1 - 1, MinSide) PROVE grid[y1 - 1][x] = c
  <2>1. y1 - 1 \in ((y1 - 1) - MinSide + 1)..(y1 - 1)
    BY <1>1
  <2> QED
    BY <1>3, <2>1 DEF Solid
<1>4. \A x \in x0..(x1 - 1) : x \in Columns
  BY <1>1
<1>5. x0..(x1 - 1) \subseteq high
  BY <1>1, <1>2, <1>4 DEF HighColumns
<1>6. x0 - 1 \notin high
  <2> SUFFICES ASSUME x0 - 1 \in high PROVE FALSE
    OBVIOUS
  <2>1. x0 - 1 \in Columns /\ grid[y1 - 1][x0 - 1] = c
    BY <1>3 DEF HighColumns
  <2>2. x0 \in Columns /\ x0 \in x0..(x1 - 1) /\ y1 - 1 \in y0..(y1 - 1) /\ (x0 - 1) + 1 = x0
    BY <1>1, <1>4
  <2>3. grid[y1 - 1][x0] = c
    BY <2>2 DEF Block
  <2>4. x0 - 1 \in x0..(x1 - 1)
    BY <1>1, <2>1, <2>2, <2>3 DEF Block
  <2> QED
    BY <1>1, <2>4
<1>7. x1 \notin high
  <2> SUFFICES ASSUME x1 \in high PROVE FALSE
    OBVIOUS
  <2>1. x1 \in Columns /\ grid[y1 - 1][x1] = c
    BY <1>3 DEF HighColumns
  <2>2. x1 - 1 \in x0..(x1 - 1) /\ y1 - 1 \in y0..(y1 - 1) /\ (x1 - 1) + 1 = x1
    BY <1>1
  <2>3. grid[y1 - 1][x1 - 1] = c
    BY <2>2 DEF Block
  <2>4. x1 \in x0..(x1 - 1)
    BY <1>1, <2>1, <2>2, <2>3 DEF Block
  <2> QED
    BY <1>1, <2>4
<1>8. ~Solid(c, x0, y1 - 1, (y1 - y0) + 1)
  <2> SUFFICES ASSUME Solid(c, x0, y1 - 1, (y1 - y0) + 1) PROVE FALSE
    OBVIOUS
  <2>1. y0 # 0
    BY <1>1 DEF Solid
  <2>2. y0 - 1 \in ((y1 - 1) - ((y1 - y0) + 1) + 1)..(y1 - 1) /\ (y0 - 1) + 1 = y0
    BY <1>1
  <2>3. grid[y0 - 1][x0] = c
    BY <2>2 DEF Solid
  <2>4. y0 - 1 \in Rows /\ y0 \in Rows /\ y0 \in y0..(y1 - 1) /\ x0 \in x0..(x1 - 1) /\ x0 \in Columns
    BY <1>1, <1>4, <2>1
  <2>5. grid[y0][x0] = c
    BY <2>4 DEF Block
  <2>6. y0 - 1 \in y0..(y1 - 1)
    BY <2>2, <2>3, <2>4, <2>5 DEF Block
  <2> QED
    BY <1>1, <2>6
<1>9. r.x = x0 /\ r.w = x1 - x0 /\ r.h = y1 - y0
  OBVIOUS
<1>10. r \in [x : high, w : 1..Cardinality(high), h : MinSide..((y1 - 1) + 1)]
  <2>1. x0 \in high
    <3>1. x0 \in x0..(x1 - 1)
      BY <1>1
    <3> HIDE DEF high
    <3> QED
      BY <1>5, <3>1
  <2>2. x1 - x0 \in Nat /\ x1 - x0 # 0 /\ x0 + (x1 - x0) - 1 = x1 - 1
    BY <1>1
  <2>3. x1 - x0 \in 1..Cardinality(high)
    BY <1>1, <1>5, <2>2, RangeFits
  <2>4. y1 - y0 \in MinSide..((y1 - 1) + 1)
    BY <1>1
  <2> HIDE DEF high
  <2> QED
    BY <2>1, <2>3, <2>4
<1>11. r.x >= (picture.sw \div 4) + 1
  BY <1>1
<1> HIDE DEF r
<1>12. /\ NearSquare(r.w, r.h)
       /\ r.x..(r.x + r.w - 1) \subseteq high
       /\ {r.x - 1, r.x + r.w} \cap high = {}
       /\ Solid(c, r.x, y1 - 1, r.h) /\ ~Solid(c, r.x, y1 - 1, r.h + 1)
  <2>1. r.x + r.w = x1 /\ r.x + r.w - 1 = x1 - 1
    BY <1>1, <1>9
  <2>2. Solid(c, x0, y1 - 1, y1 - y0)
    <3>1. x0 \in x0..(x1 - 1) /\ y1 - y0 \in Nat /\ y1 - y0 <= y1 - y0
      BY <1>1
    <3> QED
      BY <1>2, <3>1
  <2> HIDE DEF high
  <2>3. {r.x - 1, r.x + r.w} \cap high = {}
    BY <1>6, <1>7, <1>9, <2>1
  <2>4. r.x..(r.x + r.w - 1) \subseteq high
    BY <1>5, <1>9, <2>1
  <2> QED
    BY <1>8, <1>9, <2>2, <2>3, <2>4
<1> QED
  BY <1>10, <1>11, <1>12, RegionMember DEF r

\* A region of more than one row and column lies in the block: elsewhere no two
\* neighbours have one colour.
LEMMA RegionInBlock ==
  ASSUME NEW h, NEW n, Rectangle(h, n), picture \in Pictures,
         NEW c, NEW x0, NEW x1, NEW y0, NEW y1, Block(c, x0, x1, y0, y1),
         NEW d, NEW y \in Rows, NEW r \in RegionsAt(d, y), r.w > 1, r.h > 1
  PROVE  x0 <= r.x /\ r.x + r.w <= x1 /\ r.h <= y1 - y0
<1>1. /\ x0 \in Nat /\ x1 \in Nat /\ y0 \in Nat /\ y1 \in Nat
      /\ Rows = 0..(h - 1) /\ Columns = 0..(n - 1) /\ h \in Nat /\ n \in Nat
      /\ MinSide \in Nat /\ MinSide # 0 /\ y \in Nat
  BY SideIsPositive DEF Block, Rectangle
<1>2. r.x \in Columns /\ r.x \in Nat /\ r.w \in Nat /\ r.h \in Nat
  BY <1>1, RegionTyped
<1> DEFINE left == r.x
           w == r.w
           t == r.h
<1>3. left \in Columns /\ left \in Nat /\ w \in Nat /\ w > 1 /\ t \in Nat /\ t > 1
  BY <1>2
<1> SUFFICES x0 <= left /\ left + w <= x1 /\ t <= y1 - y0
  OBVIOUS
<1>4. left..(left + w - 1) \subseteq HighColumns(d, y) /\ Solid(d, left, y, t)
  BY RegionMember
<1> HIDE DEF left, w, t
<1>5. t <= y + 1 /\ \A j \in (y - t + 1)..y : grid[j][left] = d
  BY <1>4 DEF Solid
<1>6. y - t + 1 \in y0..(y1 - 1) /\ left \in x0..(x1 - 1)
  <2> DEFINE j == y - t + 1
  <2>1. j \in Rows /\ j + 1 \in Rows /\ j \in (y - t + 1)..y /\ j + 1 \in (y - t + 1)..y
    BY <1>1, <1>3, <1>5
  <2>2. grid[j][left] = d /\ grid[j + 1][left] = d
    BY <1>5, <2>1
  <2> HIDE DEF j
  <2>3. j \in y0..(y1 - 1) /\ left \in x0..(x1 - 1)
    BY <1>3, <2>1, <2>2 DEF Block
  <2> QED
    BY <2>3 DEF j
<1>7. y \in y0..(y1 - 1)
  <2> DEFINE j == y - 1
  <2>1. j \in Rows /\ j + 1 \in Rows /\ j + 1 = y /\ j \in (y - t + 1)..y /\ y \in (y - t + 1)..y
    BY <1>1, <1>3, <1>5
  <2>2. grid[j][left] = d /\ grid[j + 1][left] = d
    BY <1>5, <2>1
  <2> HIDE DEF j
  <2>3. j + 1 \in y0..(y1 - 1)
    BY <1>3, <2>1, <2>2 DEF Block
  <2> QED
    BY <2>1, <2>3
<1>8. left + w - 1 \in x0..(x1 - 1)
  <2> DEFINE x == left + w - 2
  <2>1. ASSUME NEW k \in HighColumns(d, y) PROVE k \in Columns /\ grid[y][k] = d
    <3>1. k \in Columns /\ Solid(d, k, y, MinSide)
      BY DEF HighColumns
    <3>2. y \in (y - MinSide + 1)..y
      BY <1>1
    <3> QED
      BY <3>1, <3>2 DEF Solid
  <2>2. x \in left..(left + w - 1) /\ x + 1 \in left..(left + w - 1) /\ x + 1 = left + w - 1
    BY <1>3
  <2> HIDE DEF x
  <2>3. x \in Columns /\ x + 1 \in Columns /\ grid[y][x] = d /\ grid[y][x + 1] = d
    BY <1>4, <2>1, <2>2
  <2>4. x + 1 \in x0..(x1 - 1)
    BY <2>3 DEF Block
  <2> QED
    BY <2>2, <2>4
<1> QED
  BY <1>1, <1>3, <1>5, <1>6, <1>7, <1>8

\* A rectangle with a side more than one that is nearly square has no side of one.
LEMMA LargeSquare ==
  ASSUME NEW a \in Nat, NEW b \in Nat, a # 0, b # 0, NearSquare(a, b), a * b > 1
  PROVE  a > 1 /\ b > 1
<1>1. 10 * a > 7 * b /\ 10 * a < 14 * b
  BY DEF NearSquare
<1>2. a = 1 => b = 1
  BY <1>1
<1>3. b = 1 => a = 1
  BY <1>1
<1>4. ~(a = 1 /\ b = 1)
  <2> SUFFICES ASSUME a = 1, b = 1 PROVE FALSE
    OBVIOUS
  <2>1. a * b = 1
    OBVIOUS
  <2> QED
    BY <2>1
<1> QED
  BY <1>2, <1>3, <1>4

\* In a rectangle no other than itself has its area.
LEMMA SameArea ==
  ASSUME NEW a \in Nat, NEW b \in Nat, NEW w \in Nat, NEW h \in Nat, h # 0,
         a <= w, b <= h, w * h <= a * b
  PROVE  a = w
<1> SUFFICES ASSUME a + 1 <= w PROVE FALSE
  OBVIOUS
<1>1. a * b <= a * h
  OBVIOUS
<1>2. (a + 1) * h <= w * h
  OBVIOUS
<1>3. (a + 1) * h = a * h + h
  OBVIOUS
<1> DEFINE ab == a * b
           ah == a * h
           wh == w * h
<1>4. ab \in Nat /\ ah \in Nat /\ wh \in Nat
  OBVIOUS
<1>5. ab <= ah /\ ah + h <= wh /\ wh <= ab
  BY <1>1, <1>2, <1>3
<1> HIDE DEF ab, ah, wh
<1> QED
  BY <1>4, <1>5

\* MatchSliderOffset finds the gap of every textured picture within a pixel.
THEOREM GapIsReturned == Spec => []GapIsFound
<1>1. IInv => GapIsFound
  <2> DEFINE gap == picture.gap
             s == Shown(gap)
             w == s.xEnd - s.x
             h == s.yEnd - s.y
             g == grid[s.y][s.x]
             m == Cardinality(Rows)
             n == Cardinality(Columns)
             regions == UNION {LowRegions(c) : c \in tried}
  <2> SUFFICES ASSUME IInv, at = "done", result # "error", Textured(gap), NearSquare(w, h),
                      h >= MinSide, h > 1, s.yEnd > MinSide, 4 * s.x > picture.sw,
                      Cardinality({c \in Colors : Count(c) >= Count(g)}) <= 5
               PROVE  result = "offset" /\ Offset \in {gap.x, gap.x + 1}
    BY DEF GapIsFound
  <2>1. picture \in Pictures /\ Rectangle(m, n) /\ best \in Bests
    BY DEF IInv, TypeInv
  <2>2. gap \in [x : Nat, y : Nat, w : Nat, h : Nat]
    BY <2>1, PicturesAssumption
  <2>3. /\ s.x \in Nat /\ s.xEnd \in Nat /\ s.y \in Nat /\ s.yEnd \in Nat
        /\ 2 * s.x \in {gap.x, gap.x + 1}
    <3>1. gap.x \in Nat /\ gap.y \in Nat /\ gap.w \in Nat /\ gap.h \in Nat
      BY <2>2
    <3>2. /\ s.x = (gap.x + 1) \div 2 /\ s.xEnd = (gap.x + gap.w + 1) \div 2
          /\ s.y = (gap.y + 1) \div 2 /\ s.yEnd = (gap.y + gap.h + 1) \div 2
      BY DEF Shown
    <3>3. \A k \in Nat : k \div 2 \in Nat /\ 2 * ((k + 1) \div 2) \in {k, k + 1}
      OBVIOUS
    <3>4. gap.x + 1 \in Nat /\ gap.x + gap.w + 1 \in Nat /\ gap.y + 1 \in Nat /\ gap.y + gap.h + 1 \in Nat
      BY <3>1
    <3> HIDE DEF s, gap
    <3>5. s.x \in Nat /\ s.xEnd \in Nat /\ s.y \in Nat /\ s.yEnd \in Nat
      BY <3>2, <3>3, <3>4
    <3>6. 2 * s.x \in {gap.x, gap.x + 1}
      BY <3>1, <3>2, <3>3
    <3> QED
      BY <3>5, <3>6
  <2>4. s = Shown(gap)
    OBVIOUS
  <2> HIDE DEF gap, s, m, n
  <2>5. MinSide \in Nat /\ MinSide # 0 /\ picture.sw \in Nat
    BY <2>1, SideIsPositive
  <2>6. w > 1 /\ w \in Nat /\ h \in Nat
    BY <2>3 DEF NearSquare
  <2>7. s.x < s.xEnd /\ s.y < s.yEnd
    BY <2>3, <2>6
  <2>8. Block(g, s.x, s.xEnd, s.y, s.yEnd)
    BY <2>2, <2>4, <2>7, TexturedIsBlock
  <2>9. g \in Colors
    <3>1. /\ s.yEnd - 1 \in Rows /\ s.xEnd - 1 \in Columns
          /\ grid[s.yEnd - 1][s.xEnd - 1] = g
      <4>1. s.yEnd - 1 \in s.y..(s.yEnd - 1) /\ s.xEnd - 1 \in s.x..(s.xEnd - 1)
        BY <2>3, <2>7
      <4> QED
        BY <2>8, <4>1 DEF Block
    <3> QED
      BY <3>1 DEF Colors
  <2>10. /\ Cardinality(tried) = 5 \/ tried = Colors
         /\ (result = "no gap") <=> (regions = {})
         /\ result # "no gap" => result = "offset"
         /\ \A r \in regions : r.w * r.h <= best.area
         /\ result = "offset" => \E r \in regions : r.x = best.x /\ r.w * r.h = best.area
    BY ScanEnded
  <2>11. g \in tried
    BY <2>9, <2>10, FrequentIsTried
  <2> DEFINE q == [x |-> s.x, w |-> w, h |-> h]
  <2>12. q \in regions /\ q.w = w /\ q.h = h
    <3>1. q \in RegionsAt(g, s.yEnd - 1)
      BY <2>1, <2>8, BlockIsRegion
    <3>2. s.yEnd - 1 \in Rows /\ s.yEnd - 1 >= MinSide
      BY <2>3, <2>5, <2>8 DEF Block
    <3> HIDE DEF q
    <3>3. q \in LowRegions(g)
      BY <3>1, <3>2, LowRegionsMember
    <3> QED
      BY <2>11, <3>3 DEF q
  <2>13. w * h <= best.area
    <3> HIDE DEF q, regions, w, h
    <3> QED
      BY <2>10, <2>12
  <2>14. result = "offset"
    <3> HIDE DEF q, regions
    <3> QED
      BY <2>10, <2>12
  <2>15. PICK r \in regions : r.x = best.x /\ r.w * r.h = best.area
    BY <2>10, <2>14
  <2>16. PICK c \in tried : r \in LowRegions(c)
    BY <2>15
  <2>17. PICK y \in Rows : r \in RegionsAt(c, y)
    BY <2>16, LowRegionsMember
  <2>18. r.x \in Nat /\ r.w \in Nat /\ r.w # 0 /\ r.h \in Nat /\ r.h # 0 /\ NearSquare(r.w, r.h)
    <3>1. y \in Nat
      BY <2>1 DEF Rectangle
    <3> QED
      BY <2>1, <2>17, <3>1, RegionTyped, RegionMember
  <2> HIDE DEF g, w, h, regions
  <2>19. w * h <= r.w * r.h
    BY <2>13, <2>15
  <2>20. r.w > 1 /\ r.h > 1
    <3>1. w * h > 1
      BY <2>6
    <3>2. r.w * r.h > 1
      <4> DEFINE a == w * h
                 b == r.w * r.h
      <4>1. a \in Nat /\ b \in Nat /\ a > 1 /\ a <= b
        BY <2>6, <2>18, <2>19, <3>1
      <4> HIDE DEF a, b
      <4>2. b > 1
        BY <4>1
      <4> QED
        BY <4>2 DEF b
    <3> QED
      BY <2>18, <3>2, LargeSquare
  <2>21. s.x <= r.x /\ r.x + r.w <= s.xEnd /\ r.h <= s.yEnd - s.y
    BY <2>1, <2>8, <2>17, <2>20, RegionInBlock
  <2>22. r.w <= w /\ r.h <= h
    BY <2>3, <2>18, <2>21 DEF w, h
  <2>23. r.w = w
    <3>1. h # 0
      BY <2>6
    <3> QED
      BY <2>6, <2>18, <2>19, <2>22, <3>1, SameArea
  <2>24. r.x = s.x
    BY <2>3, <2>18, <2>21, <2>23 DEF w
  <2>25. Offset = 2 * s.x
    BY <2>15, <2>24 DEF Offset
  <2> QED
    BY <2>3, <2>14, <2>25
<1> QED
  BY <1>1, Invariance, PTL

============================================================================
