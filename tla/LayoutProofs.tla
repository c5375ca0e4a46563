------------------------------ MODULE LayoutProofs ------------------------------
(***************************************************************************)
(* Proofs about what the models compute along a sequence.                  *)
(***************************************************************************)
EXTENDS Choreography, SequenceTheorems, WellFoundedInduction, TLAPS

(***************************************************************************)
(* Induction.  A set of numbers that is not empty has a least one, so a    *)
(* property that fails somewhere fails somewhere first.                    *)
(***************************************************************************)
LEMMA LeastNumber ==
    ASSUME NEW T \in SUBSET Nat, T # {}
    PROVE  \E m \in T : \A k \in T : m <= k
  <1> DEFINE R == OpToRel(<, Nat)
  <1>1. IsWellFoundedOn(R, Nat)
    BY NatLessThanWellFounded
  <1>2. PICK m \in T : \A k \in T : ~ (<<k, m>> \in R)
    <2> HIDE DEF R
    <2> QED
      BY <1>1, WFMin
  <1>3. \A k \in T : <<k, m>> \in R <=> k < m
    BY DEF OpToRel
  <1>4. \A k \in T : ~ (k < m)
    <2> HIDE DEF R
    <2> QED
      BY <1>2, <1>3
  <1> QED
    BY <1>4

\* What holds of 0 and passes from each number to the next holds up to n.
LEMMA Upwards ==
    ASSUME NEW n \in Nat, NEW Good, 0 \in Good,
           \A k \in 0..(n - 1) : k \in Good => k + 1 \in Good
    PROVE  0..n \subseteq Good
  <1> DEFINE Bad == (0..n) \ Good
  <1>1. SUFFICES ASSUME Bad # {} PROVE FALSE
    OBVIOUS
  <1>2. PICK m \in Bad : \A k \in Bad : m <= k
    <2>1. Bad \in SUBSET Nat
      OBVIOUS
    <2> HIDE DEF Bad
    <2> QED
      BY <1>1, <2>1, LeastNumber
  <1>3. m \in 1..n /\ m - 1 \in 0..(n - 1) /\ m - 1 \notin Bad
    BY <1>2
  <1> QED
    BY <1>2, <1>3

LEMMA LargestNumber ==
    ASSUME NEW n \in Nat, NEW S \in SUBSET (0..n), S # {}
    PROVE  /\ Max(S) \in S
           /\ \A k \in S : k <= Max(S)
  <1> DEFINE T == {n - k : k \in S}
  <1>1. PICK m \in T : \A k \in T : m <= k
    <2>1. T \in SUBSET Nat
      OBVIOUS
    <2>2. PICK k \in S : TRUE
      OBVIOUS
    <2>3. n - k \in T
      OBVIOUS
    <2> HIDE DEF T
    <2> QED
      BY <2>1, <2>3, LeastNumber
  <1>2. n - m \in S /\ \A k \in S : k <= n - m
    BY <1>1
  <1> QED
    BY <1>2 DEF Max

LEMMA LastOfInterval ==
    ASSUME NEW n \in Nat \ {0}
    PROVE  Max(1..n) = n /\ (1..n) \ {n} = 1..(n - 1)
  <1>1. Max(1..n) \in 1..n /\ \A k \in 1..n : k <= Max(1..n)
    <2>1. 1..n \in SUBSET (0..n) /\ 1..n # {} /\ n \in Nat
      <3>1. n \in 1..n
        OBVIOUS
      <3> QED
        BY <3>1
    <2> QED
      BY <2>1, LargestNumber
  <1> QED
    BY <1>1

(***************************************************************************)
(* A fold of the community modules is a function on the sets of indices,   *)
(* and there is one: from that for k indices comes that for k + 1.         *)
(***************************************************************************)
Folds(g, n, base, step) ==
    \A s \in SUBSET (1..n) :
        g[s] = IF s = {} THEN base ELSE step[<<Max(s), g[s \ {Max(s)}]>>]

LEMMA FoldExists ==
    ASSUME NEW S, NEW base \in S, NEW n \in Nat, NEW step \in [(1..n) \X S -> S]
    PROVE  \E g \in [SUBSET (1..n) -> S] : Folds(g, n, base, step)
  <1> DEFINE Good == {k \in 0..n : \E g \in [SUBSET (1..k) -> S] : Folds(g, k, base, step)}
  <1>1. 0 \in Good
    <2>1. [s \in SUBSET (1..0) |-> base] \in [SUBSET (1..0) -> S]
      OBVIOUS
    <2>2. Folds([s \in SUBSET (1..0) |-> base], 0, base, step)
      BY DEF Folds
    <2> QED
      BY <2>1, <2>2
  <1>2. ASSUME NEW k \in 0..(n - 1), k \in Good
        PROVE  k + 1 \in Good
    <2>1. PICK g \in [SUBSET (1..k) -> S] : Folds(g, k, base, step)
      BY <1>2
    <2> DEFINE h == [s \in SUBSET (1..(k + 1)) |->
                        IF k + 1 \in s THEN step[<<k + 1, g[s \ {k + 1}]>>] ELSE g[s]]
    <2>2. ASSUME NEW s \in SUBSET (1..(k + 1))
          PROVE  /\ h[s] \in S
                 /\ h[s] = IF s = {} THEN base ELSE step[<<Max(s), h[s \ {Max(s)}]>>]
      <3>1. CASE k + 1 \in s
        <4>1. Max(s) = k + 1
          <5>1. s \in SUBSET (0..(k + 1)) /\ k + 1 \in Nat /\ s # {}
            BY <3>1
          <5>2. Max(s) \in s /\ k + 1 <= Max(s)
            BY <3>1, <5>1, LargestNumber
          <5>3. Max(s) \in 1..(k + 1)
            BY <5>2
          <5> QED
            BY <5>2, <5>3
        <4>2. s \ {k + 1} \in SUBSET (1..k) /\ s \ {k + 1} \in SUBSET (1..(k + 1))
          OBVIOUS
        <4>3. h[s \ {k + 1}] = g[s \ {k + 1}] /\ g[s \ {k + 1}] \in S
          BY <4>2
        <4>4. <<k + 1, g[s \ {k + 1}]>> \in (1..n) \X S
          BY <4>3
        <4> QED
          BY <3>1, <4>1, <4>3, <4>4
      <3>2. CASE k + 1 \notin s
        <4>1. s \in SUBSET (1..k)
          BY <3>2
        <4>2. h[s] = g[s] /\ g[s] \in S
          BY <3>2, <4>1
        <4>3. CASE s = {}
          BY <2>1, <4>1, <4>2, <4>3 DEF Folds
        <4>4. CASE s # {}
          <5>1. s \in SUBSET (0..k) /\ k \in Nat
            BY <4>1
          <5>2. Max(s) \in s
            BY <4>4, <5>1, LargestNumber
          <5>3. s \ {Max(s)} \in SUBSET (1..(k + 1)) /\ k + 1 \notin s \ {Max(s)}
            BY <4>1, <3>2
          <5>4. h[s \ {Max(s)}] = g[s \ {Max(s)}]
            BY <5>3
          <5> QED
            BY <2>1, <4>1, <4>2, <4>4, <5>4 DEF Folds
        <4> QED
          BY <4>3, <4>4
      <3> QED
        BY <3>1, <3>2
    <2>3. h \in [SUBSET (1..(k + 1)) -> S]
      BY <2>2
    <2>4. Folds(h, k + 1, base, step)
      <3> HIDE DEF h
      <3> QED
        BY <2>2 DEF Folds
    <2> QED
      <3> HIDE DEF h
      <3> QED
        BY <2>3, <2>4
  <1>3. n \in Good
    <2>1. 0..n \subseteq Good
      <3> HIDE DEF Good
      <3> QED
        BY <1>1, <1>2, Upwards
    <2>2. n \in 0..n
      OBVIOUS
    <2> HIDE DEF Good
    <2> QED
      BY <2>1, <2>2
  <1> QED
    BY <1>3

(***************************************************************************)
(* Quotients, which the prover knows for each divisor but does not relate  *)
(* to products by itself.                                                  *)
(***************************************************************************)
LEMMA Quotient ==
    ASSUME NEW a \in Int, NEW b \in Nat \ {0}
    PROVE  /\ a \div b \in Int
           /\ b * (a \div b) <= a
           /\ a < b * (a \div b) + b
           /\ a >= 0 => a \div b >= 0
           /\ a % b = a - b * (a \div b)
  OBVIOUS

LEMMA Factors ==
    ASSUME NEW b \in Nat \ {0}, NEW x \in Int, NEW y \in Int
    PROVE  /\ b * x < b * y <=> x < y
           /\ b * x <= b * y <=> x <= y
           /\ b * x < b * y + b => x <= y
  OBVIOUS

LEMMA QuotientIs ==
    ASSUME NEW a \in Int, NEW b \in Nat \ {0}, NEW q \in Int, b * q <= a, a < b * q + b
    PROVE  a \div b = q
  BY Quotient

(***************************************************************************)
(* A flattened sequence is joined up from its parts, one after another.    *)
(***************************************************************************)
LEMMA RowMajor ==
    ASSUME NEW S, NEW seqs \in Seq(Seq(S)), Len(seqs) # 0
    PROVE  \E f \in [1..Len(seqs) -> Seq(S)] :
              /\ f[1] = seqs[1] /\ f[Len(seqs)] = FlattenSeq(seqs)
              /\ \A i \in 2..Len(seqs) : f[i] = f[i - 1] \o seqs[i]
  <1> DEFINE n == Len(seqs)
             Iter(g, k) == g = [i \in 1..k |-> IF i = 1 THEN seqs[i] ELSE g[i - 1] \o seqs[i]]
             Good == {k \in Nat : \E g \in [1..(k + 1) -> Seq(S)] : Iter(g, k + 1)}
  <1>1. n \in Nat \ {0} /\ \A i \in 1..n : seqs[i] \in Seq(S)
    OBVIOUS
  <1>2. 0 \in Good
    <2>1. [i \in 1..1 |-> seqs[1]] \in [1..(0 + 1) -> Seq(S)]
      BY <1>1
    <2>2. Iter([i \in 1..1 |-> seqs[1]], 0 + 1)
      OBVIOUS
    <2> QED
      BY <2>1, <2>2
  <1>3. ASSUME NEW k \in 0..(n - 2), k \in Good
        PROVE  k + 1 \in Good
    <2>1. PICK g \in [1..(k + 1) -> Seq(S)] : Iter(g, k + 1)
      BY <1>3
    <2>2. k + 1 \in 1..n /\ k + 2 \in 1..n
      BY <1>1
    <2>3. seqs[k + 2] \in Seq(S) /\ g[k + 1] \in Seq(S)
      BY <1>1, <2>1, <2>2
    <2>4. g[k + 1] \o seqs[k + 2] \in Seq(S)
      BY <2>3
    <2> DEFINE h == [i \in 1..(k + 2) |-> IF i = k + 2 THEN g[k + 1] \o seqs[k + 2] ELSE g[i]]
    <2>5. h \in [1..(k + 2) -> Seq(S)]
      <3>1. ASSUME NEW i \in 1..(k + 2), i # k + 2
            PROVE  i \in 1..(k + 1)
        BY <3>1
      <3>2. \A i \in 1..(k + 2) : h[i] \in Seq(S)
        <4> HIDE DEF Iter
        <4> QED
          BY <2>1, <2>4, <3>1
      <3> QED
        BY <3>2
    <2>6. Iter(h, k + 2)
      <3>1. ASSUME NEW i \in 1..(k + 2)
            PROVE  h[i] = IF i = 1 THEN seqs[i] ELSE h[i - 1] \o seqs[i]
        <4>1. CASE i = k + 2
          <5>1. i # 1 /\ i - 1 \in 1..(k + 2) /\ i - 1 # k + 2 /\ i - 1 = k + 1
            BY <4>1
          <5> QED
            BY <4>1, <5>1
        <4>2. CASE i # k + 2
          <5>1. i \in 1..(k + 1)
            BY <4>2
          <5>2. g[i] = IF i = 1 THEN seqs[i] ELSE g[i - 1] \o seqs[i]
            BY <2>1, <5>1
          <5>3. i # 1 => i - 1 \in 1..(k + 2) /\ i - 1 # k + 2
            BY <5>1
          <5> QED
            BY <4>2, <5>2, <5>3
        <4> QED
          BY <4>1, <4>2
      <3>2. h = [i \in 1..(k + 2) |-> h[i]]
        OBVIOUS
      <3> HIDE DEF h
      <3> QED
        BY <3>1, <3>2
    <2>7. k + 1 \in Nat /\ (k + 1) + 1 = k + 2
      OBVIOUS
    <2> HIDE DEF h, Iter
    <2> QED
      BY <2>5, <2>6, <2>7
  <1>4. PICK g \in [1..n -> Seq(S)] : Iter(g, n)
    <2>1. 0..(n - 1) \subseteq Good
      <3> HIDE DEF Good, n
      <3>1. n - 1 \in Nat /\ (n - 1) - 1 = n - 2
        BY <1>1
      <3>2. \A k \in 0..((n - 1) - 1) : k \in Good => k + 1 \in Good
        BY <1>3, <3>1
      <3> DEFINE m == n - 1
      <3>3. m \in Nat /\ \A k \in 0..(m - 1) : k \in Good => k + 1 \in Good
        BY <3>1, <3>2
      <3> HIDE DEF m
      <3>4. 0..m \subseteq Good
        BY <1>2, <3>3, Upwards
      <3> QED
        BY <3>4 DEF m
    <2>2. n - 1 \in 0..(n - 1) /\ (n - 1) + 1 = n
      BY <1>1
    <2>3. n - 1 \in Good
      BY <2>1, <2>2
    <2> HIDE DEF Iter, n
    <2> QED
      BY <2>2, <2>3
  <1> DEFINE f == CHOOSE h : Iter(h, n)
  <1>5. Iter(f, n)
    <2> HIDE DEF Iter
    <2> QED
      BY <1>4
  <1>6. FlattenSeq(seqs) = f[n]
    BY DEF FlattenSeq
  <1> HIDE DEF f
  <1>7. ASSUME NEW i \in 1..n
        PROVE  f[i] = IF i = 1 THEN seqs[i] ELSE f[i - 1] \o seqs[i]
    BY <1>5
  <1>8. \A i \in 1..n : f[i] \in Seq(S)
    <2> DEFINE Fine == {k \in Nat : k + 1 \in 1..n => f[k + 1] \in Seq(S)}
    <2>1. 0 \in Fine
      BY <1>1, <1>7
    <2>2. ASSUME NEW k \in 0..(n - 1), k \in Fine
          PROVE  k + 1 \in Fine
      <3>1. SUFFICES ASSUME k + 2 \in 1..n PROVE f[k + 2] \in Seq(S)
        OBVIOUS
      <3>2. k + 1 \in 1..n /\ k + 2 # 1 /\ (k + 2) - 1 = k + 1
        BY <3>1
      <3>3. f[k + 1] \in Seq(S) /\ seqs[k + 2] \in Seq(S)
        BY <1>1, <2>2, <3>1, <3>2
      <3>4. f[k + 2] = f[k + 1] \o seqs[k + 2]
        BY <1>7, <3>1, <3>2
      <3> QED
        BY <3>3, <3>4
    <2>3. 0..n \subseteq Fine
      <3> HIDE DEF Fine, n
      <3> QED
        BY <1>1, <2>1, <2>2, Upwards
    <2>4. ASSUME NEW i \in 1..n PROVE f[i] \in Seq(S)
      <3>1. i - 1 \in 0..n /\ (i - 1) + 1 = i
        OBVIOUS
      <3> QED
        BY <2>3, <3>1
    <2> QED
      BY <2>4
  <1>9. f \in [1..n -> Seq(S)]
    <2>1. f = [i \in 1..n |-> f[i]]
      BY <1>5
    <2> QED
      BY <1>8, <2>1
  <1>10. \A i \in 2..n : i \in 1..n /\ i # 1
    OBVIOUS
  <1>11. 1 \in 1..n
    BY <1>1
  <1> QED
    BY <1>6, <1>7, <1>9, <1>10, <1>11

LEMMA FlattenedType ==
    ASSUME NEW S, NEW seqs \in Seq(Seq(S))
    PROVE  FlattenSeq(seqs) \in Seq(S)
  <1>1. CASE Len(seqs) = 0
    <2>1. FlattenSeq(seqs) = seqs
      BY <1>1 DEF FlattenSeq
    <2>2. seqs = <<>>
      BY <1>1
    <2> QED
      BY <2>1, <2>2
  <1>2. CASE Len(seqs) # 0
    <2>1. PICK f \in [1..Len(seqs) -> Seq(S)] : f[Len(seqs)] = FlattenSeq(seqs)
      BY <1>2, RowMajor
    <2>2. Len(seqs) \in 1..Len(seqs)
      BY <1>2
    <2> QED
      BY <2>1, <2>2
  <1> QED
    BY <1>1, <1>2

LEMMA FlattenedFirst ==
    ASSUME NEW S, NEW seqs \in Seq(Seq(S)), Len(seqs) # 0, Len(seqs[1]) # 0
    PROVE  Len(FlattenSeq(seqs)) # 0 /\ FlattenSeq(seqs)[1] = seqs[1][1]
  <1> DEFINE n == Len(seqs)
  <1>1. n \in Nat \ {0} /\ \A i \in 1..n : seqs[i] \in Seq(S)
    OBVIOUS
  <1>2. PICK f \in [1..n -> Seq(S)] :
           /\ f[1] = seqs[1] /\ f[n] = FlattenSeq(seqs)
           /\ \A i \in 2..n : f[i] = f[i - 1] \o seqs[i]
    BY RowMajor
  <1> HIDE DEF n
  <1> DEFINE Good == {k \in Nat : k + 1 \in 1..n =>
                                     Len(f[k + 1]) # 0 /\ f[k + 1][1] = seqs[1][1]}
  <1>3. 0 \in Good
    <2>1. 0 + 1 = 1
      OBVIOUS
    <2> QED
      BY <1>2, <2>1
  <1>4. ASSUME NEW k \in 0..(n - 1), k \in Good
        PROVE  k + 1 \in Good
    <2>1. SUFFICES ASSUME k + 2 \in 1..n
                   PROVE  Len(f[k + 2]) # 0 /\ f[k + 2][1] = seqs[1][1]
      <3>1. (k + 1) + 1 = k + 2 /\ k + 1 \in Nat
        BY <1>1
      <3> QED
        BY <2>1, <3>1
    <2>2. k + 1 \in 1..n /\ k + 2 \in 2..n /\ (k + 2) - 1 = k + 1
      BY <1>1, <2>1
    <2>3. Len(f[k + 1]) # 0 /\ f[k + 1][1] = seqs[1][1]
      BY <1>4, <2>2
    <2>4. f[k + 1] \in Seq(S) /\ seqs[k + 2] \in Seq(S) /\ f[k + 2] = f[k + 1] \o seqs[k + 2]
      BY <1>1, <1>2, <2>1, <2>2
    <2>5. \A u \in Seq(S), v \in Seq(S) : Len(u) # 0 => Len(u \o v) # 0 /\ (u \o v)[1] = u[1]
      OBVIOUS
    <2> QED
      BY <2>3, <2>4, <2>5
  <1>5. 0..n \subseteq Good
    <2> HIDE DEF Good
    <2> QED
      BY <1>1, <1>3, <1>4, Upwards
  <1>6. n - 1 \in 0..n /\ (n - 1) + 1 = n /\ n \in 1..n
    BY <1>1
  <1> QED
    BY <1>2, <1>5, <1>6

--------------------------------------------------------------------------------
(***************************************************************************)
(* The log of a walk: what the steps behind it have done.  A step fits it  *)
(* when a report is not like the one before and finds exactly the rest it  *)
(* needs behind it, and when a frame is announced whole.                   *)
(***************************************************************************)
Log == [last : ReportType, rest : Nat, sent : Nat, shown : Nat]

Blank == [last |-> NoReport, rest |-> 0, sent |-> 0, shown |-> 0]

FrameReports == 2 + BlocksPerFrame * PacketsPerBlock

Needed(kind, r) == IF kind = "gif" /\ r = LastOfBlock THEN 30 ELSE RestAfter(r)

After(a, x) ==
    [last |-> IF x.do = "send" THEN x.report ELSE a.last,
     rest |-> IF x.do = "send" THEN 0 ELSE IF x.do = "pause" THEN a.rest + x.ms ELSE a.rest,
     sent |-> IF x.do = "send" THEN a.sent + 1 ELSE a.sent,
     shown |-> IF x.do = "frame" THEN a.shown + 1 ELSE a.shown]

Fits(kind, a, x) ==
    /\ x \in StepType
    /\ x.do = "send" => /\ x.report \notin {NoReport, Junk, a.last}
                        /\ a.rest = Needed(kind, a.last)
    /\ x.do = "frame" => a.sent >= 2 + (a.shown + 1) * FrameReports

IsLog(kind, s, t) ==
    \A j \in 1..Len(s) : Fits(kind, t[j - 1], s[j]) /\ t[j] = After(t[j - 1], s[j])

Leads(kind, s, a, b) ==
    \E t \in [0..Len(s) -> Log] : t[0] = a /\ t[Len(s)] = b /\ IsLog(kind, s, t)

LEMMA AfterIsLog ==
    ASSUME NEW a \in Log, NEW x \in StepType
    PROVE  After(a, x) \in Log
  <1>1. x.do = "send" => x.report \in ReportType
    BY DEF StepType
  <1>2. x.do = "pause" => x.ms \in Nat
    BY DEF StepType
  <1> QED
    BY <1>1, <1>2 DEF After, Log

\* Steps that lead from one log to another, and on from there, lead all the way.
LEMMA Joined ==
    ASSUME NEW kind, NEW s \in Seq(StepType), NEW u \in Seq(StepType), NEW a, NEW b, NEW c,
           Leads(kind, s, a, b), Leads(kind, u, b, c)
    PROVE  Leads(kind, s \o u, a, c)
  <1> DEFINE n == Len(s)
             m == Len(u)
  <1>1. n \in Nat /\ m \in Nat /\ s \o u \in Seq(StepType) /\ Len(s \o u) = n + m
    OBVIOUS
  <1>2. /\ \A j \in 1..n : (s \o u)[j] = s[j]
        /\ \A j \in (n + 1)..(n + m) : (s \o u)[j] = u[j - n]
    OBVIOUS
  <1>3. PICK t \in [0..n -> Log] : t[0] = a /\ t[n] = b /\ IsLog(kind, s, t)
    BY DEF Leads
  <1>4. PICK v \in [0..m -> Log] : v[0] = b /\ v[m] = c /\ IsLog(kind, u, v)
    BY DEF Leads
  <1> HIDE DEF n, m
  <1> DEFINE w == [j \in 0..(n + m) |-> IF j <= n THEN t[j] ELSE v[j - n]]
  <1>5. w \in [0..(n + m) -> Log]
    <2>1. \A j \in 0..(n + m) : (j <= n => j \in 0..n) /\ (~ (j <= n) => j - n \in 0..m)
      BY <1>1
    <2> QED
      BY <1>3, <1>4, <2>1
  <1>6. w[0] = a /\ w[n + m] = c
    <2>1. 0 \in 0..(n + m) /\ n + m \in 0..(n + m) /\ 0 <= n
      BY <1>1
    <2>2. n + m <= n => m = 0 /\ n + m = n
      BY <1>1
    <2>3. (n + m) - n = m
      BY <1>1
    <2> QED
      BY <1>3, <1>4, <2>1, <2>2, <2>3
  <1>7. ASSUME NEW j \in 1..(n + m)
        PROVE  Fits(kind, w[j - 1], (s \o u)[j]) /\ w[j] = After(w[j - 1], (s \o u)[j])
    <2>1. j \in 0..(n + m) /\ j - 1 \in 0..(n + m)
      BY <1>1
    <2>2. CASE j <= n
      <3>1. j \in 1..n /\ j - 1 <= n
        BY <1>1, <2>2
      <3>2. w[j] = t[j] /\ w[j - 1] = t[j - 1] /\ (s \o u)[j] = s[j]
        BY <1>2, <2>1, <2>2, <3>1
      <3> QED
        BY <1>3, <3>1, <3>2 DEF IsLog, n
    <2>3. CASE ~ (j <= n)
      <3>1. j \in (n + 1)..(n + m) /\ j - n \in 1..m /\ (j - n) - 1 = (j - 1) - n
        BY <1>1, <2>3
      <3>2. w[j] = v[j - n] /\ (s \o u)[j] = u[j - n]
        BY <1>2, <2>1, <2>3, <3>1
      <3>3. w[j - 1] = v[(j - n) - 1]
        <4>1. CASE j - 1 <= n
          <5>1. j - 1 = n /\ (j - n) - 1 = 0
            BY <1>1, <2>3, <4>1
          <5>2. w[j - 1] = t[n]
            BY <2>1, <4>1, <5>1
          <5> QED
            BY <1>3, <1>4, <5>1, <5>2
        <4>2. CASE ~ (j - 1 <= n)
          BY <2>1, <3>1, <4>2
        <4> QED
          BY <4>1, <4>2
      <3> QED
        BY <1>4, <3>1, <3>2, <3>3 DEF IsLog, m
    <2> QED
      BY <2>2, <2>3
  <1> HIDE DEF w
  <1>8. IsLog(kind, s \o u, w)
    BY <1>1, <1>7 DEF IsLog
  <1> QED
    BY <1>1, <1>5, <1>6, <1>8 DEF Leads

LEMMA Nowhere ==
    ASSUME NEW kind, NEW a \in Log
    PROVE  Leads(kind, <<>>, a, a)
  <1> DEFINE t == [j \in 0..0 |-> a]
  <1>1. t \in [0..Len(<<>>) -> Log] /\ t[0] = a /\ Len(<<>>) = 0
    OBVIOUS
  <1>2. IsLog(kind, <<>>, t)
    BY DEF IsLog
  <1> HIDE DEF t
  <1> QED
    BY <1>1, <1>2 DEF Leads

LEMMA OneStep ==
    ASSUME NEW kind, NEW a \in Log, NEW x, Fits(kind, a, x)
    PROVE  After(a, x) \in Log /\ Leads(kind, <<x>>, a, After(a, x))
  <1> DEFINE t == [j \in 0..1 |-> IF j = 0 THEN a ELSE After(a, x)]
  <1>1. After(a, x) \in Log
    BY AfterIsLog DEF Fits
  <1>2. Len(<<x>>) = 1 /\ <<x>>[1] = x /\ 1 - 1 = 0 /\ \A j \in 1..1 : j = 1
    OBVIOUS
  <1>3. t \in [0..1 -> Log] /\ t[0] = a /\ t[1] = After(a, x)
    BY <1>1
  <1> HIDE DEF t
  <1>4. IsLog(kind, <<x>>, t)
    BY <1>2, <1>3 DEF IsLog
  <1> QED
    BY <1>1, <1>2, <1>3, <1>4 DEF Leads

\* The part of a sequence by which the prover sees one step at a time.
LEMMA AndOneStep ==
    ASSUME NEW kind, NEW s \in Seq(StepType), NEW a, NEW b \in Log, NEW x,
           Leads(kind, s, a, b), Fits(kind, b, x)
    PROVE  /\ s \o <<x>> \in Seq(StepType)
           /\ After(b, x) \in Log /\ Leads(kind, s \o <<x>>, a, After(b, x))
  <1>1. After(b, x) \in Log /\ Leads(kind, <<x>>, b, After(b, x))
    BY OneStep
  <1>2. <<x>> \in Seq(StepType)
    BY DEF Fits
  <1>3. Leads(kind, s \o <<x>>, a, After(b, x))
    BY <1>1, <1>2, Joined
  <1> QED
    BY <1>1, <1>2, <1>3

\* The same for as many parts as there are.
LEMMA Chained ==
    ASSUME NEW kind, NEW seqs \in Seq(Seq(StepType)), NEW marks \in [0..Len(seqs) -> Log],
           \A i \in 1..Len(seqs) : Leads(kind, seqs[i], marks[i - 1], marks[i])
    PROVE  Leads(kind, FlattenSeq(seqs), marks[0], marks[Len(seqs)])
  <1> DEFINE n == Len(seqs)
  <1>1. n \in Nat /\ \A i \in 1..n : seqs[i] \in Seq(StepType)
    OBVIOUS
  <1>2. CASE n = 0
    <2>1. FlattenSeq(seqs) = <<>>
      <3>1. FlattenSeq(seqs) = seqs
        BY <1>2 DEF FlattenSeq
      <3> QED
        BY <1>2, <3>1
    <2>2. marks[0] \in Log
      BY <1>2
    <2> QED
      BY <1>2, <2>1, <2>2, Nowhere
  <1>3. CASE n # 0
    <2>1. PICK f \in [1..n -> Seq(StepType)] :
             /\ f[1] = seqs[1] /\ f[n] = FlattenSeq(seqs)
             /\ \A i \in 2..n : f[i] = f[i - 1] \o seqs[i]
      BY <1>3, RowMajor
    <2> HIDE DEF n
    <2> DEFINE Good == {k \in Nat : k + 1 \in 1..n =>
                                       Leads(kind, f[k + 1], marks[0], marks[k + 1])}
    <2>2. 0 \in Good
      <3>1. 1 - 1 = 0 /\ 0 + 1 = 1 /\ 1 \in 1..n
        BY <1>1, <1>3
      <3>2. Leads(kind, seqs[1], marks[1 - 1], marks[1])
        BY <3>1 DEF n
      <3> QED
        BY <2>1, <3>1, <3>2
    <2>3. ASSUME NEW k \in 0..(n - 1), k \in Good
          PROVE  k + 1 \in Good
      <3>1. SUFFICES ASSUME k + 2 \in 1..n PROVE Leads(kind, f[k + 2], marks[0], marks[k + 2])
        <4>1. (k + 1) + 1 = k + 2 /\ k + 1 \in Nat
          OBVIOUS
        <4> QED
          BY <3>1, <4>1
      <3>2. k + 1 \in 1..n /\ k + 2 \in 2..n /\ (k + 2) - 1 = k + 1
        BY <1>1, <3>1
      <3>3. Leads(kind, f[k + 1], marks[0], marks[k + 1])
        BY <2>3, <3>2
      <3>4. Leads(kind, seqs[k + 2], marks[(k + 2) - 1], marks[k + 2])
        BY <3>1 DEF n
      <3>5. f[k + 1] \in Seq(StepType) /\ seqs[k + 2] \in Seq(StepType)
        BY <1>1, <2>1, <3>1, <3>2
      <3>6. Leads(kind, f[k + 1] \o seqs[k + 2], marks[0], marks[k + 2])
        BY <3>2, <3>3, <3>4, <3>5, Joined
      <3> QED
        BY <2>1, <3>2, <3>6
    <2>4. 0..n \subseteq Good
      <3> HIDE DEF Good
      <3> QED
        BY <1>1, <2>2, <2>3, Upwards
    <2>5. n - 1 \in 0..n /\ (n - 1) + 1 = n /\ n \in 1..n
      BY <1>1, <1>3
    <2>6. Leads(kind, f[n], marks[0], marks[n])
      BY <2>4, <2>5
    <2> QED
      BY <2>1, <2>6 DEF n
  <1> QED
    BY <1>2, <1>3

(***************************************************************************)
(* The pieces the programs are made of.                                    *)
(***************************************************************************)
LEMMA Ceilings ==
    ASSUME NEW a \in Nat \ {0}, NEW b \in Nat \ {0}
    PROVE  DivCeil(a, b) \in Nat \ {0} /\ (b < a => DivCeil(a, b) >= 2)
  <1> DEFINE c == a + b - 1
  <1>1. c \in Int /\ c >= b /\ (b < a => c >= b * 2) /\ c >= 0 /\ DivCeil(a, b) = c \div b
    BY DEF DivCeil
  <1> HIDE DEF c
  <1> DEFINE q == c \div b
  <1>2. q \in Int /\ c < b * q + b /\ q >= 0
    BY <1>1, Quotient
  <1> HIDE DEF q
  <1>3. b * 1 < b * q + b /\ (b < a => b * 2 < b * q + b)
    BY <1>1, <1>2
  <1>4. 1 <= q
    BY <1>2, <1>3, Factors
  <1>5. b < a => 2 <= q
    BY <1>2, <1>3, Factors
  <1> QED
    BY <1>1, <1>2, <1>4, <1>5 DEF q

LEMMA Sizes ==
    /\ BulkChunk \in Nat \ {0} /\ BlockBytes \in Nat \ {0} /\ PictureBytes \in Nat \ {0}
    /\ SlowEvery \in Nat \ {0} /\ 256 % SlowEvery = 0
    /\ PacketsPerBlock \in Nat /\ PacketsPerBlock >= 2
    /\ BlocksPerFrame \in Nat \ {0}
    /\ BlocksPerFrame * PacketsPerBlock \in Nat
    /\ FrameReports \in Nat
    /\ (PacketsPerBlock - 1) * BulkChunk \in Nat \ {0}
  <1>1. /\ BulkChunk \in Nat \ {0} /\ BlockBytes \in Nat \ {0} /\ PictureBytes \in Nat \ {0}
        /\ SlowEvery \in Nat \ {0} /\ 256 % SlowEvery = 0 /\ BulkChunk < BlockBytes
    BY ChoreographyAssumption DEF ChoreographyAssumption
  <1>2. PacketsPerBlock \in Nat /\ PacketsPerBlock >= 2
    BY <1>1, Ceilings DEF PacketsPerBlock
  <1>3. BlocksPerFrame \in Nat \ {0}
    BY <1>1, Ceilings DEF BlocksPerFrame
  <1>4. \A x, y \in Nat : x * y \in Nat
    OBVIOUS
  <1>5. BlocksPerFrame * PacketsPerBlock \in Nat
    BY <1>2, <1>3, <1>4
  <1>6. (PacketsPerBlock - 1) * BulkChunk \in Nat \ {0}
    <2>1. \A p, c \in Nat : p >= 2 /\ c # 0 => (p - 1) * c \in Nat \ {0}
      OBVIOUS
    <2> QED
      BY <1>1, <1>2, <2>1
  <1> QED
    BY <1>1, <1>2, <1>3, <1>5, <1>6 DEF FrameReports

LEMMA SendFits ==
    ASSUME NEW kind, NEW a \in Log, NEW r \in ReportType, r \notin {NoReport, Junk, a.last},
           a.rest = Needed(kind, a.last)
    PROVE  /\ Fits(kind, a, SendStep(r))
           /\ After(a, SendStep(r)) =
                 [last |-> r, rest |-> 0, sent |-> a.sent + 1, shown |-> a.shown]
  <1>1. SendStep(r) \in StepType /\ SendStep(r).do = "send" /\ SendStep(r).report = r
    BY DEF SendStep, StepType
  <1> QED
    BY <1>1 DEF Fits, After

LEMMA PauseFits ==
    ASSUME NEW kind, NEW a \in Log, NEW ms \in Nat
    PROVE  /\ Fits(kind, a, Pause(ms))
           /\ After(a, Pause(ms)) =
                 [last |-> a.last, rest |-> a.rest + ms, sent |-> a.sent, shown |-> a.shown]
  <1>1. Pause(ms) \in StepType /\ Pause(ms).do = "pause" /\ Pause(ms).ms = ms
    BY DEF Pause, StepType
  <1> QED
    BY <1>1 DEF Fits, After

LEMMA FrameFits ==
    ASSUME NEW kind, NEW a \in Log, a.sent >= 2 + (a.shown + 1) * FrameReports
    PROVE  /\ Fits(kind, a, FrameDone)
           /\ After(a, FrameDone) =
                 [last |-> a.last, rest |-> a.rest, sent |-> a.sent, shown |-> a.shown + 1]
  <1>1. FrameDone \in StepType /\ FrameDone.do = "frame"
    BY DEF FrameDone, StepType
  <1> QED
    BY <1>1 DEF Fits, After

\* The same with the log they lead to given by its fields.
LEMMA SendTo ==
    ASSUME NEW kind, NEW a \in Log, NEW b \in Log, NEW r \in ReportType \ {NoReport, Junk},
           r # a.last, a.rest = Needed(kind, a.last),
           b.last = r, b.rest = 0, b.sent = a.sent + 1, b.shown = a.shown
    PROVE  Fits(kind, a, SendStep(r)) /\ After(a, SendStep(r)) = b
  <1>1. b = [last |-> b.last, rest |-> b.rest, sent |-> b.sent, shown |-> b.shown]
    BY DEF Log
  <1> QED
    BY <1>1, SendFits

LEMMA PauseTo ==
    ASSUME NEW kind, NEW a \in Log, NEW b \in Log, NEW ms \in Nat,
           b.last = a.last, b.rest = a.rest + ms, b.sent = a.sent, b.shown = a.shown
    PROVE  Fits(kind, a, Pause(ms)) /\ After(a, Pause(ms)) = b
  <1>1. b = [last |-> b.last, rest |-> b.rest, sent |-> b.sent, shown |-> b.shown]
    BY DEF Log
  <1> QED
    BY <1>1, PauseFits

LEMMA AsSequence ==
    ASSUME NEW S, NEW n \in Nat, NEW f \in [1..n -> S]
    PROVE  f \in Seq(S) /\ Len(f) = n
  OBVIOUS

LEMMA SendsType ==
    ASSUME NEW rs \in Seq(ReportType)
    PROVE  /\ Sends(rs) \in Seq(StepType) /\ Len(Sends(rs)) = Len(rs)
           /\ \A i \in 1..Len(rs) : Sends(rs)[i] = SendStep(rs[i])
  <1>1. DOMAIN rs = 1..Len(rs) /\ Len(rs) \in Nat /\ \A i \in 1..Len(rs) : rs[i] \in ReportType
    OBVIOUS
  <1>2. \A r \in ReportType : SendStep(r) \in StepType
    BY DEF SendStep, StepType
  <1>3. Sends(rs) = [i \in 1..Len(rs) |-> SendStep(rs[i])]
    BY <1>1 DEF Sends
  <1>4. Sends(rs) \in [1..Len(rs) -> StepType]
    BY <1>1, <1>2, <1>3
  <1> QED
    BY <1>1, <1>3, <1>4

LEMMA DataReports ==
    ASSUME NEW bytes \in Nat \ {0}
    PROVE  /\ Packets(bytes) \in Seq(ReportType)
           /\ Len(Packets(bytes)) = DivCeil(bytes, BulkChunk)
           /\ \A i \in 1..DivCeil(bytes, BulkChunk) :
                 Packets(bytes)[i] = Report("data", (i - 1) * BulkChunk)
           /\ \A k \in Nat : Report("data", k * BulkChunk) \in ReportType \ {NoReport, Junk}
           /\ \A k \in Nat, l \in Nat :
                 Report("data", k * BulkChunk) = Report("data", l * BulkChunk) => k = l
  <1> DEFINE n == DivCeil(bytes, BulkChunk)
  <1>1. n \in Nat /\ BulkChunk \in Nat \ {0}
    BY Sizes, Ceilings
  <1>2. \A k \in Nat : k * BulkChunk \in Nat
    BY <1>1
  <1>3. \A m \in Nat : Report("data", m) \in ReportType \ {NoReport, Junk}
    <2>1. NoReport.cmd = "none" /\ Junk.cmd = "junk"
      BY DEF NoReport, Junk, Report
    <2>2. \A m \in Nat : Report("data", m).cmd = "data" /\ Report("data", m) \in ReportType
      BY DEF Report, ReportType
    <2> QED
      BY <2>1, <2>2
  <1>4. ASSUME NEW k \in Nat, NEW l \in Nat,
               Report("data", k * BulkChunk) = Report("data", l * BulkChunk)
        PROVE  k = l
    <2>1. k * BulkChunk = l * BulkChunk
      BY <1>4 DEF Report
    <2>2. \A b \in Nat \ {0} : k * b = l * b => k = l
      OBVIOUS
    <2> QED
      BY <1>1, <2>1, <2>2
  <1> HIDE DEF n
  <1>5. Packets(bytes) = [i \in 1..n |-> Report("data", (i - 1) * BulkChunk)]
    BY DEF Packets, n
  <1>6. \A i \in 1..n : i - 1 \in Nat
    BY <1>1
  <1>7. Packets(bytes) \in [1..n -> ReportType]
    BY <1>2, <1>3, <1>5, <1>6
  <1>8. Packets(bytes) \in Seq(ReportType) /\ Len(Packets(bytes)) = n
    <2>1. \A f \in [1..n -> ReportType] : f \in Seq(ReportType) /\ Len(f) = n
      BY <1>1
    <2> QED
      BY <1>7, <2>1
  <1> QED
    BY <1>2, <1>3, <1>4, <1>5, <1>8 DEF n

\* Reports sent one straight after the other, none of which but the last needs a rest.
LEMMA RunLeads ==
    ASSUME NEW kind, NEW rs \in Seq(ReportType), NEW n \in Nat \ {0}, Len(rs) = n,
           \A i \in 1..n : rs[i] \notin {NoReport, Junk},
           \A i \in 1..(n - 1) : rs[i + 1] # rs[i] /\ Needed(kind, rs[i]) = 0,
           NEW a \in Log, a.last # rs[1], a.rest = Needed(kind, a.last)
    PROVE  LET b == [last |-> rs[n], rest |-> 0, sent |-> a.sent + n, shown |-> a.shown]
           IN  b \in Log /\ Sends(rs) \in Seq(StepType) /\ Leads(kind, Sends(rs), a, b)
  <1> DEFINE s == Sends(rs)
             at(j) == [last |-> rs[j], rest |-> 0, sent |-> a.sent + j, shown |-> a.shown]
             t == [j \in 0..n |-> IF j = 0 THEN a ELSE at(j)]
  <1>1. \A i \in 1..n : rs[i] \in ReportType \ {NoReport, Junk}
    OBVIOUS
  <1>2. s \in Seq(StepType) /\ Len(s) = n /\ \A i \in 1..n : s[i] = SendStep(rs[i])
    BY SendsType
  <1>3. a.sent \in Nat /\ a.shown \in Nat
    BY DEF Log
  <1> HIDE DEF s
  <1>4. \A j \in 1..n : at(j) \in Log
    <2>1. \A j \in 1..n : a.sent + j \in Nat
      BY <1>3
    <2> QED
      BY <1>1, <1>3, <2>1 DEF Log
  <1>5. t \in [0..n -> Log] /\ t[0] = a /\ \A j \in 1..n : t[j] = at(j)
    <2>1. \A j \in 0..n : j # 0 => j \in 1..n
      OBVIOUS
    <2>2. \A j \in 1..n : j \in 0..n /\ j # 0
      OBVIOUS
    <2> HIDE DEF at
    <2> QED
      BY <1>4, <2>1, <2>2
  <1> HIDE DEF t
  <1>6. ASSUME NEW j \in 1..n
        PROVE  Fits(kind, t[j - 1], s[j]) /\ t[j] = After(t[j - 1], s[j])
    <2> DEFINE c == t[j - 1]
               d == t[j]
    <2>1. d.last = rs[j] /\ d.rest = 0 /\ d.sent = a.sent + j /\ d.shown = a.shown
      <3>1. d = at(j)
        BY <1>5
      <3> HIDE DEF d
      <3> QED
        BY <3>1
    <2>2. rs[j] # c.last /\ c.rest = Needed(kind, c.last) /\ d.sent = c.sent + 1
          /\ d.shown = c.shown
      <3>1. CASE j = 1
        <4>1. c = a
          BY <1>5, <3>1
        <4>2. d.sent = a.sent + 1 /\ d.shown = a.shown
          BY <2>1, <3>1
        <4> HIDE DEF c, d
        <4> QED
          BY <3>1, <4>1, <4>2
      <3>2. CASE j # 1
        <4>1. j - 1 \in 1..(n - 1) /\ j - 1 \in 1..n /\ (j - 1) + 1 = j
          BY <3>2
        <4>2. c.last = rs[j - 1] /\ c.rest = 0 /\ c.sent = a.sent + (j - 1) /\ c.shown = a.shown
          BY <1>5, <4>1
        <4>3. rs[j] # rs[j - 1] /\ Needed(kind, rs[j - 1]) = 0
          BY <4>1
        <4>4. (a.sent + (j - 1)) + 1 = a.sent + j
          BY <1>3
        <4> HIDE DEF c, d
        <4> QED
          BY <2>1, <4>2, <4>3, <4>4
      <3> QED
        BY <3>1, <3>2
    <2>3. c \in Log /\ d \in Log /\ rs[j] \in ReportType \ {NoReport, Junk} /\ s[j] = SendStep(rs[j])
      <3>1. j - 1 \in 0..n /\ j \in 0..n
        OBVIOUS
      <3> QED
        BY <1>1, <1>2, <1>5, <3>1
    <2> HIDE DEF c, d, at
    <2>4. Fits(kind, c, SendStep(rs[j])) /\ After(c, SendStep(rs[j])) = d
      <3>1. c.last # rs[j] /\ c.rest = Needed(kind, c.last)
        BY <2>2
      <3> QED
        BY <2>1, <2>2, <2>3, <3>1, SendTo
    <2> QED
      BY <2>3, <2>4 DEF c, d
  <1>7. IsLog(kind, s, t)
    BY <1>2, <1>6 DEF IsLog
  <1>8. n \in 1..n
    OBVIOUS
  <1>9. t[n] = at(n) /\ at(n) \in Log
    BY <1>4, <1>5, <1>8
  <1>10. Leads(kind, s, a, at(n))
    <2> HIDE DEF at
    <2> QED
      BY <1>2, <1>5, <1>7, <1>9 DEF Leads
  <1> QED
    BY <1>2, <1>9, <1>10 DEF s

LEMMA SlowFrames ==
    ASSUME NEW i \in Nat
    PROVE  (i % 256) \in Nat /\ (i % 256) % SlowEvery = i % SlowEvery
  <1> DEFINE w == SlowEvery
  <1>1. w \in Nat \ {0} /\ 256 % w = 0
    BY Sizes
  <1> HIDE DEF w
  <1> DEFINE q == 256 \div w
             d == i \div 256
             r == i % 256
             u == r \div w
  <1>2. q \in Int /\ 256 = w * q
    BY <1>1, Quotient
  <1>3. d \in Int /\ r \in Nat /\ i = 256 * d + r
    OBVIOUS
  <1> HIDE DEF d, r, q
  <1>4. u \in Int /\ w * u <= r /\ r < w * u + w /\ r % w = r - w * u
    BY <1>1, <1>3, Quotient
  <1> HIDE DEF u
  <1> DEFINE e == q * d + u
  <1>5. e \in Int /\ w * e = 256 * d + w * u
    <2>1. q * d \in Int /\ w * (q * d) = (w * q) * d
      BY <1>1, <1>2, <1>3
    <2>2. w * (q * d + u) = w * (q * d) + w * u
      BY <1>1, <1>4, <2>1
    <2> QED
      BY <1>2, <1>4, <2>1, <2>2
  <1> HIDE DEF e
  <1>6. w * e \in Int /\ w * e <= i /\ i < w * e + w
    BY <1>1, <1>3, <1>4, <1>5
  <1>7. i \div w = e
    BY <1>1, <1>5, <1>6, QuotientIs
  <1>8. i % w = i - w * e
    <2>1. i \in Int /\ (i % w = i - w * (i \div w))
      BY <1>1, Quotient
    <2> QED
      BY <1>7, <2>1
  <1>9. i % w = r % w
    BY <1>1, <1>3, <1>4, <1>5, <1>8
  <1> QED
    BY <1>3, <1>9 DEF w, r

\* What RestsAreKept asks for, report by report.
LEMMA RestTable ==
    /\ RestAfter(NoReport) = 0 /\ RestAfter(Finish) = 0
    /\ RestAfter(PictureStart) = 300
    /\ RestAfter(Report("open", 18)) = 0 /\ RestAfter(Report("open", 19)) = 30
    /\ RestAfter(Report("close", 18)) = 30 /\ RestAfter(Report("close", 19)) = 530
    /\ \A cmd \in {"info", "clock", "date", "declare", "data", "finish"}, arg \in Nat :
          RestAfter(Report(cmd, arg)) = 0
    /\ \A i \in Nat : RestAfter(FrameHeader(i)) = IF i % SlowEvery = 0 THEN 3000 ELSE 30
  <1>1. /\ NoReport = [cmd |-> "none", arg |-> 0] /\ Finish = [cmd |-> "finish", arg |-> 0]
        /\ PictureStart = [cmd |-> "start", arg |-> 0]
        /\ \A cmd, arg : Report(cmd, arg) = [cmd |-> cmd, arg |-> arg]
    BY DEF NoReport, Finish, PictureStart, Report
  <1>2. ASSUME NEW r, r.cmd \notin {"start", "header", "open", "close"}
        PROVE  RestAfter(r) = 0
    BY <1>1, <1>2 DEF RestAfter
  <1>3. RestAfter(NoReport) = 0 /\ RestAfter(Finish) = 0
    BY <1>1, <1>2
  <1>4. ASSUME NEW cmd \in {"info", "clock", "date", "declare", "data", "finish"}, NEW arg \in Nat
        PROVE  RestAfter(Report(cmd, arg)) = 0
    BY <1>1, <1>2
  <1>5. RestAfter(PictureStart) = 300
    BY <1>1 DEF RestAfter
  <1>6. RestAfter(Report("open", 18)) = 0 /\ RestAfter(Report("open", 19)) = 30
    BY <1>1 DEF RestAfter
  <1>7. RestAfter(Report("close", 18)) = 30 /\ RestAfter(Report("close", 19)) = 530
    BY <1>1 DEF RestAfter
  <1>8. ASSUME NEW i \in Nat
        PROVE  RestAfter(FrameHeader(i)) = IF i % SlowEvery = 0 THEN 3000 ELSE 30
    <2>1. FrameHeader(i).cmd = "header" /\ FrameHeader(i).arg = i % 256
      BY DEF FrameHeader, Report
    <2>2. FrameHeader(i) # PictureStart
      BY <1>1, <2>1
    <2>3. RestAfter(FrameHeader(i)) = IF FrameHeader(i).arg % SlowEvery = 0 THEN 3000 ELSE 30
      BY <2>1, <2>2, <1>1 DEF RestAfter
    <2> QED
      BY <2>1, <2>3, SlowFrames
  <1> QED
    BY <1>3, <1>4, <1>5, <1>6, <1>7, <1>8

\* The reports that are not data.
LEMMA SmallReports ==
    /\ \A cmd \in {"info", "clock", "date", "finish", "start", "declare", "data", "header",
                   "open", "close"}, arg \in Nat :
          Report(cmd, arg) \in ReportType \ {NoReport, Junk}
    /\ \A c1, c2, a1, a2 : Report(c1, a1) = Report(c2, a2) => c1 = c2 /\ a1 = a2
    /\ \A i \in Nat : FrameHeader(i) = Report("header", i % 256) /\ i % 256 \in Nat
    /\ Finish = Report("finish", 0) /\ PictureStart = Report("start", 0)
    /\ NoReport = Report("none", 0) /\ LastOfBlock = Report("data", (PacketsPerBlock - 1) * BulkChunk)
  <1>1. \A c, a : Report(c, a) = [cmd |-> c, arg |-> a]
    BY DEF Report
  <1>2. \A c1, c2, a1, a2 : Report(c1, a1) = Report(c2, a2) => c1 = c2 /\ a1 = a2
    <2>1. \A c, a : Report(c, a).cmd = c /\ Report(c, a).arg = a
      BY <1>1
    <2> QED
      BY <2>1
  <1>3. ASSUME NEW cmd \in {"info", "clock", "date", "finish", "start", "declare", "data",
                            "header", "open", "close"}, NEW arg \in Nat
        PROVE  Report(cmd, arg) \in ReportType \ {NoReport, Junk}
    <2>1. Report(cmd, arg) \in ReportType
      BY <1>1 DEF ReportType
    <2>2. cmd # "none" /\ cmd # "junk"
      OBVIOUS
    <2> QED
      BY <1>2, <2>1, <2>2 DEF NoReport, Junk
  <1>4. \A i \in Nat : FrameHeader(i) = Report("header", i % 256) /\ i % 256 \in Nat
    BY SlowFrames DEF FrameHeader
  <1> QED
    BY <1>2, <1>3, <1>4 DEF Finish, PictureStart, NoReport, LastOfBlock

\* The packets of one transfer of pixels.
LEMMA DataLeads ==
    ASSUME NEW kind, NEW bytes \in Nat \ {0}, kind = "gif" => bytes = BlockBytes,
           NEW a \in Log, a.last # Report("data", 0), a.rest = Needed(kind, a.last)
    PROVE  LET n == DivCeil(bytes, BulkChunk)
               b == [last |-> Report("data", (n - 1) * BulkChunk), rest |-> 0,
                     sent |-> a.sent + n, shown |-> a.shown]
           IN  b \in Log /\ Leads(kind, Sends(Packets(bytes)), a, b)
  <1> DEFINE n == DivCeil(bytes, BulkChunk)
             rs == Packets(bytes)
  <1>1. n \in Nat \ {0} /\ BulkChunk \in Nat \ {0}
    BY Sizes, Ceilings
  <1>2. /\ rs \in Seq(ReportType) /\ Len(rs) = n
        /\ \A i \in 1..n : rs[i] = Report("data", (i - 1) * BulkChunk)
    BY DataReports
  <1>3. kind = "gif" => n = PacketsPerBlock
    BY DEF PacketsPerBlock
  <1> HIDE DEF n, rs
  <1>4. \A i \in 1..n : rs[i] \in ReportType \ {NoReport, Junk}
    <2>1. \A i \in 1..n : i - 1 \in Nat
      BY <1>1
    <2> QED
      BY <1>2, <2>1, DataReports
  <1>5. ASSUME NEW i \in 1..(n - 1)
        PROVE  rs[i + 1] # rs[i] /\ Needed(kind, rs[i]) = 0
    <2>1. i \in 1..n /\ i + 1 \in 1..n /\ i - 1 \in Nat /\ (i + 1) - 1 \in Nat
          /\ (i + 1) - 1 # i - 1 /\ n - 1 \in Nat /\ n - 1 # i - 1
      BY <1>1
    <2>2. /\ rs[i] = Report("data", (i - 1) * BulkChunk)
          /\ rs[i + 1] = Report("data", ((i + 1) - 1) * BulkChunk)
      BY <1>2, <2>1
    <2>3. rs[i + 1] # rs[i]
      BY <2>1, <2>2, DataReports
    <2>4. kind = "gif" => rs[i] # LastOfBlock
      BY <1>3, <2>1, <2>2, DataReports DEF LastOfBlock
    <2>5. RestAfter(rs[i]) = 0
      <3>1. (i - 1) * BulkChunk \in Nat
        BY <1>1, <2>1
      <3> QED
        BY <2>2, <3>1, RestTable
    <2> QED
      BY <2>3, <2>4, <2>5 DEF Needed
  <1>6. rs[1] = Report("data", 0)
    <2>1. 1 \in 1..n /\ (1 - 1) * BulkChunk = 0
      BY <1>1
    <2> QED
      BY <1>2, <2>1
  <1>7. LET b == [last |-> rs[n], rest |-> 0, sent |-> a.sent + n, shown |-> a.shown]
        IN  b \in Log /\ Sends(rs) \in Seq(StepType) /\ Leads(kind, Sends(rs), a, b)
    BY <1>1, <1>2, <1>4, <1>5, <1>6, RunLeads
  <1>8. rs[n] = Report("data", (n - 1) * BulkChunk)
    BY <1>1, <1>2
  <1> QED
    BY <1>7, <1>8 DEF n, rs

LEMMA Pair ==
    ASSUME NEW S, NEW x \in S, NEW y \in S
    PROVE  <<x, y>> = <<x>> \o <<y>> /\ <<x>> \in Seq(S) /\ <<y>> \in Seq(S)
  <1>1. <<x>> \in Seq(S) /\ <<y>> \in Seq(S) /\ <<x, y>> \in Seq(S) /\ <<x>> \o <<y>> \in Seq(S)
    OBVIOUS
  <1>2. Len(<<x, y>>) = 2 /\ Len(<<x>> \o <<y>>) = 2
    OBVIOUS
  <1>3. /\ <<x, y>>[1] = x /\ <<x, y>>[2] = y
        /\ (<<x>> \o <<y>>)[1] = x /\ (<<x>> \o <<y>>)[2] = y
    OBVIOUS
  <1>4. \A i \in 1..2 : i = 1 \/ i = 2
    OBVIOUS
  <1> QED
    BY <1>1, <1>2, <1>3, <1>4, SeqEqual

LEMMA TwoSteps ==
    ASSUME NEW kind, NEW a \in Log, NEW x, NEW y,
           Fits(kind, a, x), Fits(kind, After(a, x), y)
    PROVE  /\ <<x, y>> \in Seq(StepType) /\ After(After(a, x), y) \in Log
           /\ Leads(kind, <<x, y>>, a, After(After(a, x), y))
  <1>1. After(a, x) \in Log /\ Leads(kind, <<x>>, a, After(a, x))
    BY OneStep
  <1>2. x \in StepType /\ y \in StepType
    BY DEF Fits
  <1>3. <<x, y>> = <<x>> \o <<y>> /\ <<x>> \in Seq(StepType)
    BY <1>2, Pair
  <1> QED
    BY <1>1, <1>3, AndOneStep

\* One block of a GIF: its packets and the pause behind them.
LEMMA BlockLeads ==
    ASSUME NEW a \in Log, a.last # Report("data", 0), a.rest = Needed("gif", a.last)
    PROVE  LET b == [last |-> LastOfBlock, rest |-> 30,
                     sent |-> a.sent + PacketsPerBlock, shown |-> a.shown]
           IN  b \in Log /\ BlockProgram \in Seq(StepType) /\ Leads("gif", BlockProgram, a, b)
  <1> DEFINE c == [last |-> LastOfBlock, rest |-> 0,
                   sent |-> a.sent + PacketsPerBlock, shown |-> a.shown]
  <1>1. BlockBytes \in Nat \ {0}
    BY Sizes
  <1>2. c \in Log /\ Leads("gif", Sends(Packets(BlockBytes)), a, c)
    BY <1>1, DataLeads DEF PacketsPerBlock, LastOfBlock
  <1>3. Sends(Packets(BlockBytes)) \in Seq(StepType)
    BY <1>1, DataReports, SendsType
  <1>4. /\ Fits("gif", c, Pause(30))
        /\ After(c, Pause(30)) =
              [last |-> c.last, rest |-> c.rest + 30, sent |-> c.sent, shown |-> c.shown]
    <2> HIDE DEF c
    <2> QED
      BY <1>2, PauseFits
  <1>5. After(c, Pause(30)) = [last |-> LastOfBlock, rest |-> 30,
                               sent |-> a.sent + PacketsPerBlock, shown |-> a.shown]
    BY <1>4
  <1> HIDE DEF c
  <1> QED
    BY <1>2, <1>3, <1>4, <1>5, AndOneStep DEF BlockProgram

LEMMA BlocksLead ==
    ASSUME NEW a \in Log, a.last # Report("data", 0), a.rest = Needed("gif", a.last)
    PROVE  LET b == [last |-> LastOfBlock, rest |-> 30,
                     sent |-> a.sent + BlocksPerFrame * PacketsPerBlock, shown |-> a.shown]
               s == Repeat(BlockProgram, BlocksPerFrame)
           IN  b \in Log /\ s \in Seq(StepType) /\ Leads("gif", s, a, b)
  <1> DEFINE n == BlocksPerFrame
             p == PacketsPerBlock
             at(i) == [last |-> LastOfBlock, rest |-> 30, sent |-> a.sent + i * p,
                       shown |-> a.shown]
             marks == [i \in 0..n |-> IF i = 0 THEN a ELSE at(i)]
             seqs == [i \in 1..n |-> BlockProgram]
  <1>1. n \in Nat \ {0} /\ p \in Nat /\ a.sent \in Nat /\ a.shown \in Nat /\ a.rest \in Nat
    BY Sizes DEF Log
  <1>2. LastOfBlock \in ReportType /\ LastOfBlock # Report("data", 0)
    <2>1. (PacketsPerBlock - 1) * BulkChunk \in Nat \ {0}
      BY Sizes
    <2> QED
      BY <2>1 DEF LastOfBlock, Report, ReportType
  <1>3. \A i \in Nat : i * p \in Nat /\ (i + 1) * p = i * p + p
    BY <1>1
  <1> HIDE DEF n, p
  <1>4. \A i \in Nat : at(i) \in Log
    BY <1>1, <1>2, <1>3 DEF Log
  <1>5. marks \in [0..n -> Log] /\ marks[0] = a /\ marks[n] = at(n)
    <2>1. \A i \in 0..n : i \in Nat
      BY <1>1
    <2> HIDE DEF at
    <2> QED
      BY <1>1, <1>4, <2>1
  <1>6. BlockProgram \in Seq(StepType)
    BY BlockLeads
  <1>7. seqs \in Seq(Seq(StepType)) /\ Len(seqs) = n
    BY <1>1, <1>6
  <1>8. ASSUME NEW i \in 1..n
        PROVE  Leads("gif", seqs[i], marks[i - 1], marks[i])
    <2> DEFINE c == marks[i - 1]
               d == [last |-> LastOfBlock, rest |-> 30, sent |-> c.sent + p, shown |-> c.shown]
    <2>1. i - 1 \in 0..n /\ i \in 0..n /\ i # 0 /\ i - 1 \in Nat /\ (i - 1) + 1 = i
      BY <1>1
    <2>2. c \in Log
      BY <1>5, <2>1
    <2>3. c.last # Report("data", 0) /\ c.rest = Needed("gif", c.last) /\ marks[i] = d
      <3>1. CASE i = 1
        <4>1. c = a /\ 1 * p = p
          BY <1>1, <2>1, <3>1
        <4>2. marks[i] = at(1)
          BY <2>1, <3>1
        <4> HIDE DEF marks
        <4> QED
          BY <4>1, <4>2
      <3>2. CASE i # 1
        <4>1. c = at(i - 1) /\ marks[i] = at(i)
          BY <2>1, <3>2
        <4>2. c.sent = a.sent + (i - 1) * p /\ c.last = LastOfBlock /\ c.rest = 30
              /\ c.shown = a.shown
          <5> HIDE DEF marks
          <5> QED
            BY <4>1
        <4>3. i * p = (i - 1) * p + p /\ (i - 1) * p \in Nat
          BY <1>3, <2>1
        <4> HIDE DEF c, marks
        <4>4. c.sent + p = a.sent + i * p
          <5>1. \A e, f, g \in Nat : (e + f) + g = e + (f + g)
            OBVIOUS
          <5>2. (a.sent + (i - 1) * p) + p = a.sent + ((i - 1) * p + p)
            BY <1>1, <4>3, <5>1
          <5> QED
            BY <4>2, <4>3, <5>2
        <4> QED
          BY <1>2, <4>1, <4>2, <4>4 DEF Needed
      <3> QED
        BY <3>1, <3>2
    <2>4. seqs[i] = BlockProgram
      OBVIOUS
    <2> HIDE DEF marks, seqs, c
    <2>5. Leads("gif", BlockProgram, c, d)
      BY <2>2, <2>3, BlockLeads DEF p
    <2> QED
      BY <2>3, <2>4, <2>5 DEF c
  <1> HIDE DEF marks, seqs
  <1>9. Leads("gif", FlattenSeq(seqs), a, at(n))
    <2> HIDE DEF at
    <2> QED
      BY <1>5, <1>7, <1>8, Chained
  <1>10. FlattenSeq(seqs) \in Seq(StepType)
    BY <1>7, FlattenedType
  <1>11. FlattenSeq(seqs) = Repeat(BlockProgram, BlocksPerFrame)
    BY DEF Repeat, seqs, n
  <1> QED
    BY <1>1, <1>4, <1>9, <1>10, <1>11 DEF n, p

\* One frame of a GIF, whichever came before it.
LEMMA FrameLeads ==
    ASSUME NEW i \in Nat, NEW a \in Log, a.last.cmd # "header",
           a.rest = Needed("gif", a.last), a.sent = 2 + i * FrameReports, a.shown = i
    PROVE  LET b == [last |-> LastOfBlock, rest |-> 30,
                     sent |-> 2 + (i + 1) * FrameReports, shown |-> i + 1]
           IN  b \in Log /\ FrameProgram(i) \in Seq(StepType) /\ Leads("gif", FrameProgram(i), a, b)
  <1> DEFINE h == FrameHeader(i)
             d == Report("declare", 17)
             z == BlocksPerFrame * PacketsPerBlock
             nap == IF i % SlowEvery = 0 THEN 3000 ELSE 30
             l1 == [last |-> h, rest |-> 0, sent |-> a.sent + 1, shown |-> i]
             l2 == [last |-> h, rest |-> nap, sent |-> a.sent + 1, shown |-> i]
             l3 == [last |-> d, rest |-> 0, sent |-> a.sent + 2, shown |-> i]
             l4 == [last |-> LastOfBlock, rest |-> 30, sent |-> a.sent + 2 + z, shown |-> i]
             l5 == [last |-> LastOfBlock, rest |-> 30, sent |-> a.sent + 2 + z, shown |-> i + 1]
  <1>1. /\ h \in ReportType \ {NoReport, Junk} /\ h.cmd = "header" /\ h # a.last
        /\ d \in ReportType \ {NoReport, Junk} /\ d # h
    <2>1. h.cmd = "header" /\ d.cmd = "declare"
      BY DEF FrameHeader, Report
    <2> QED
      BY <2>1, SmallReports
  <1>2. a.sent \in Nat /\ z \in Nat /\ nap \in Nat
    BY Sizes DEF Log
  <1>3. Fits("gif", a, SendStep(h)) /\ After(a, SendStep(h)) = l1
    <2> HIDE DEF h
    <2> QED
      BY <1>1, SendFits
  <1>4. l1 \in Log /\ l2 \in Log /\ l3 \in Log
    <2> HIDE DEF h, d, nap
    <2>1. a.sent + 1 \in Nat /\ a.sent + 2 \in Nat
      BY <1>2
    <2> QED
      BY <1>1, <1>2, <2>1 DEF Log
  <1>5. Fits("gif", l1, Pause(nap)) /\ After(l1, Pause(nap)) = l2
    <2>1. /\ Fits("gif", l1, Pause(nap))
          /\ After(l1, Pause(nap)) =
                [last |-> l1.last, rest |-> l1.rest + nap, sent |-> l1.sent, shown |-> l1.shown]
      <3> HIDE DEF l1, nap
      <3> QED
        BY <1>2, <1>4, PauseFits
    <2>2. 0 + nap = nap
      BY <1>2
    <2> HIDE DEF h, nap
    <2> QED
      BY <2>1, <2>2
  <1>6. HeaderPause(i) = Pause(nap)
    BY DEF HeaderPause
  <1>7. Needed("gif", h) = nap
    <2>1. h # LastOfBlock
      BY <1>1 DEF LastOfBlock, Report
    <2> QED
      BY <2>1, RestTable DEF Needed
  <1>8. Fits("gif", l2, SendStep(d)) /\ After(l2, SendStep(d)) = l3
    <2>1. (a.sent + 1) + 1 = a.sent + 2
      BY <1>2
    <2>2. l2.last = h /\ l2.rest = nap /\ l2.sent = a.sent + 1 /\ l2.shown = i
      OBVIOUS
    <2> HIDE DEF l2, h, d, nap
    <2>3. /\ Fits("gif", l2, SendStep(d))
          /\ After(l2, SendStep(d)) =
                [last |-> d, rest |-> 0, sent |-> l2.sent + 1, shown |-> l2.shown]
      <3>1. d \in ReportType /\ d \notin {NoReport, Junk, l2.last} /\ l2.rest = Needed("gif", l2.last)
        BY <1>1, <1>7, <2>2
      <3> QED
        BY <1>4, <3>1, SendFits
    <2> QED
      BY <2>1, <2>2, <2>3
  <1> DEFINE s1 == <<SendStep(h)>>
             s3 == <<SendStep(h), HeaderPause(i), SendStep(d)>>
             s4 == Repeat(BlockProgram, BlocksPerFrame)
  <1>9. s3 \in Seq(StepType) /\ Leads("gif", s3, a, l3)
    <2>1. After(a, SendStep(h)) \in Log /\ Leads("gif", s1, a, l1)
      <3> HIDE DEF h, l1
      <3> QED
        BY <1>3, OneStep
    <2>2. /\ <<Pause(nap), SendStep(d)>> \in Seq(StepType)
          /\ Leads("gif", <<Pause(nap), SendStep(d)>>, l1, l3)
      <3> HIDE DEF h, d, nap, l1, l2, l3
      <3> QED
        BY <1>4, <1>5, <1>8, TwoSteps
    <2>3. /\ SendStep(h) \in StepType /\ Pause(nap) \in StepType /\ SendStep(d) \in StepType
      BY <1>3, <1>5, <1>8 DEF Fits
    <2>4. s1 \in Seq(StepType)
      BY <2>3
    <2>5. Leads("gif", s1 \o <<Pause(nap), SendStep(d)>>, a, l3)
      <3> HIDE DEF s1, h, d, nap, l1, l3
      <3> QED
        BY <2>1, <2>2, <2>4, Joined
    <2>6. s3 = s1 \o <<Pause(nap), SendStep(d)>>
      <3>1. \A x, y, w \in StepType : <<x, y, w>> = <<x>> \o <<y, w>>
        <4> TAKE x, y, w \in StepType
        <4>1. /\ <<x, y, w>> \in Seq(StepType) /\ <<x>> \in Seq(StepType)
              /\ <<y, w>> \in Seq(StepType) /\ <<x>> \o <<y, w>> \in Seq(StepType)
          OBVIOUS
        <4>2. Len(<<x, y, w>>) = 3 /\ Len(<<x>> \o <<y, w>>) = 3
          OBVIOUS
        <4>3. /\ <<x, y, w>>[1] = x /\ <<x, y, w>>[2] = y /\ <<x, y, w>>[3] = w
              /\ (<<x>> \o <<y, w>>)[1] = x /\ (<<x>> \o <<y, w>>)[2] = y
              /\ (<<x>> \o <<y, w>>)[3] = w
          OBVIOUS
        <4>4. \A k \in 1..3 : k = 1 \/ k = 2 \/ k = 3
          OBVIOUS
        <4> QED
          BY <4>1, <4>2, <4>3, <4>4, SeqEqual
      <3> HIDE DEF h, d, nap
      <3> QED
        BY <1>6, <2>3, <3>1
    <2>7. s1 \o <<Pause(nap), SendStep(d)>> \in Seq(StepType)
      <3> HIDE DEF s1
      <3> QED
        BY <2>2, <2>4
    <2> QED
      BY <2>5, <2>6, <2>7
  <1>10. l4 \in Log /\ s4 \in Seq(StepType) /\ Leads("gif", s4, l3, l4)
    <2>1. l3.last # Report("data", 0) /\ l3.rest = Needed("gif", l3.last)
      <3>1. d # Report("data", 0) /\ d # LastOfBlock
        BY SmallReports
      <3>2. RestAfter(d) = 0
        BY RestTable
      <3> HIDE DEF d
      <3> QED
        BY <3>1, <3>2 DEF Needed
    <2>2. l3.sent = a.sent + 2 /\ l3.shown = i
      OBVIOUS
    <2> HIDE DEF l3
    <2>3. LET b == [last |-> LastOfBlock, rest |-> 30,
                    sent |-> l3.sent + z, shown |-> l3.shown]
          IN  b \in Log /\ s4 \in Seq(StepType) /\ Leads("gif", s4, l3, b)
      BY <1>4, <2>1, BlocksLead
    <2> QED
      BY <2>2, <2>3
  <1>11. a.sent + 2 + z = 2 + (i + 1) * FrameReports
    <2>1. FrameReports = 2 + z /\ FrameReports \in Nat
      BY Sizes DEF FrameReports
    <2>2. \A k \in Nat : (i + 1) * k = i * k + k /\ i * k \in Nat
      OBVIOUS
    <2> HIDE DEF z
    <2>3. (i + 1) * FrameReports = i * FrameReports + (2 + z) /\ i * FrameReports \in Nat
      BY <2>1, <2>2
    <2> QED
      BY <1>2, <2>3
  <1>12. Fits("gif", l4, FrameDone) /\ After(l4, FrameDone) = l5
    <2>1. l4.sent = 2 + (l4.shown + 1) * FrameReports
      <3> HIDE DEF z
      <3> QED
        BY <1>11
    <2>2. l4.sent \in Nat
      BY <1>10 DEF Log
    <2>3. l4.sent >= 2 + (l4.shown + 1) * FrameReports
      <3> HIDE DEF l4
      <3> QED
        BY <2>1, <2>2
    <2>4. /\ Fits("gif", l4, FrameDone)
          /\ After(l4, FrameDone) =
                [last |-> l4.last, rest |-> l4.rest, sent |-> l4.sent, shown |-> l4.shown + 1]
      <3> HIDE DEF l4
      <3> QED
        BY <1>10, <2>3, FrameFits
    <2> HIDE DEF z
    <2> QED
      BY <2>4
  <1> DEFINE s5 == s3 \o s4
  <1>13. s5 \in Seq(StepType) /\ Leads("gif", s5, a, l4)
    <2> HIDE DEF s3, s4, l3, l4
    <2>1. Leads("gif", s3 \o s4, a, l4)
      BY <1>9, <1>10, Joined
    <2>2. s3 \o s4 \in Seq(StepType)
      BY <1>9, <1>10
    <2> QED
      BY <2>1, <2>2
  <1>14. /\ s5 \o <<FrameDone>> \in Seq(StepType) /\ l5 \in Log
         /\ Leads("gif", s5 \o <<FrameDone>>, a, l5)
    <2> HIDE DEF s5, l4, l5
    <2> QED
      BY <1>10, <1>12, <1>13, AndOneStep
  <1>15. FrameProgram(i) = s5 \o <<FrameDone>>
    BY DEF FrameProgram
  <1> HIDE DEF s5, z
  <1> QED
    BY <1>11, <1>14, <1>15

LEMMA FramesLead ==
    ASSUME NEW n \in Nat
    PROVE  LET a == [last |-> Report("open", 19), rest |-> 30, sent |-> 2, shown |-> 0]
               b == [last |-> IF n = 0 THEN Report("open", 19) ELSE LastOfBlock, rest |-> 30,
                     sent |-> 2 + n * FrameReports, shown |-> n]
               s == FlattenSeq([i \in 1..n |-> FrameProgram(i - 1)])
           IN  a \in Log /\ b \in Log /\ s \in Seq(StepType) /\ Leads("gif", s, a, b)
  <1> DEFINE k == FrameReports
             at(i) == [last |-> IF i = 0 THEN Report("open", 19) ELSE LastOfBlock, rest |-> 30,
                       sent |-> 2 + i * k, shown |-> i]
             marks == [i \in 0..n |-> at(i)]
             seqs == [i \in 1..n |-> FrameProgram(i - 1)]
  <1>1. k \in Nat /\ \A i \in Nat : i * k \in Nat
    BY Sizes
  <1>2. 0 * k = 0
    BY <1>1
  <1>3. LastOfBlock \in ReportType /\ Report("open", 19) \in ReportType
    <2>1. (PacketsPerBlock - 1) * BulkChunk \in Nat
      BY Sizes
    <2> QED
      BY <2>1, SmallReports
  <1>4. LastOfBlock.cmd # "header" /\ Report("open", 19).cmd # "header"
    BY DEF LastOfBlock, Report
  <1>5. Needed("gif", LastOfBlock) = 30 /\ Needed("gif", Report("open", 19)) = 30
    BY RestTable DEF Needed
  <1> HIDE DEF k
  <1>6. \A i \in Nat : at(i) \in Log
    BY <1>1, <1>3 DEF Log
  <1>7. at(0) = [last |-> Report("open", 19), rest |-> 30, sent |-> 2, shown |-> 0]
    BY <1>2
  <1>8. ASSUME NEW i \in Nat
        PROVE  FrameProgram(i) \in Seq(StepType) /\ Leads("gif", FrameProgram(i), at(i), at(i + 1))
    <2> DEFINE a == at(i)
    <2>1. a \in Log /\ a.sent = 2 + i * k /\ a.shown = i
      BY <1>6
    <2>2. a.last.cmd # "header" /\ a.rest = Needed("gif", a.last)
      BY <1>4, <1>5
    <2>3. at(i + 1) = [last |-> LastOfBlock, rest |-> 30, sent |-> 2 + (i + 1) * k, shown |-> i + 1]
      OBVIOUS
    <2> HIDE DEF a
    <2>4. LET b == [last |-> LastOfBlock, rest |-> 30,
                    sent |-> 2 + (i + 1) * FrameReports, shown |-> i + 1]
          IN  FrameProgram(i) \in Seq(StepType) /\ Leads("gif", FrameProgram(i), a, b)
      BY <2>1, <2>2, FrameLeads DEF k
    <2> HIDE DEF at
    <2> QED
      BY <2>3, <2>4 DEF a, k
  <1> HIDE DEF at
  <1>9. marks \in [0..n -> Log] /\ marks[0] = at(0) /\ marks[n] = at(n)
    BY <1>6
  <1>10. seqs \in Seq(Seq(StepType)) /\ Len(seqs) = n
    <2>1. \A i \in 1..n : i - 1 \in Nat
      OBVIOUS
    <2>2. seqs \in [1..n -> Seq(StepType)]
      BY <1>8, <2>1
    <2>3. \A f \in [1..n -> Seq(StepType)] : f \in Seq(Seq(StepType)) /\ Len(f) = n
      OBVIOUS
    <2> HIDE DEF seqs
    <2> QED
      BY <2>2, <2>3
  <1>11. ASSUME NEW i \in 1..n
         PROVE  Leads("gif", seqs[i], marks[i - 1], marks[i])
    <2>1. i - 1 \in Nat /\ (i - 1) + 1 = i /\ i - 1 \in 0..n /\ i \in 0..n
      OBVIOUS
    <2>2. Leads("gif", FrameProgram(i - 1), at(i - 1), at((i - 1) + 1))
      BY <1>8, <2>1
    <2> QED
      BY <2>1, <2>2
  <1> HIDE DEF marks, seqs
  <1>12. Leads("gif", FlattenSeq(seqs), at(0), at(n))
    BY <1>9, <1>10, <1>11, Chained
  <1>13. FlattenSeq(seqs) \in Seq(StepType)
    BY <1>10, FlattenedType
  <1>14. at(0) \in Log /\ at(n) \in Log
    BY <1>6
  <1> QED
    BY <1>7, <1>12, <1>13, <1>14 DEF at, k, seqs

LEMMA CloseLeads ==
    ASSUME NEW a \in Log, a.last.cmd # "close", a.rest = Needed("gif", a.last)
    PROVE  LET b == [last |-> Report("close", 19), rest |-> 530, sent |-> a.sent + 2,
                     shown |-> a.shown]
           IN  b \in Log /\ CloseProgram \in Seq(StepType) /\ Leads("gif", CloseProgram, a, b)
  <1> DEFINE r1 == Report("close", 18)
             r2 == Report("close", 19)
             l1 == [last |-> r1, rest |-> 0, sent |-> a.sent + 1, shown |-> a.shown]
             l2 == [last |-> r1, rest |-> 30, sent |-> a.sent + 1, shown |-> a.shown]
             l3 == [last |-> r2, rest |-> 0, sent |-> a.sent + 2, shown |-> a.shown]
             l4 == [last |-> r2, rest |-> 30, sent |-> a.sent + 2, shown |-> a.shown]
             l5 == [last |-> r2, rest |-> 530, sent |-> a.sent + 2, shown |-> a.shown]
             c1 == <<SendStep(r1), Pause(30)>>
             c2 == <<SendStep(r2), Pause(30)>>
  <1>1. /\ r1 \in ReportType \ {NoReport, Junk} /\ r2 \in ReportType \ {NoReport, Junk}
        /\ r1 # r2 /\ r1 # a.last
    <2>1. r1.cmd = "close"
      BY DEF Report
    <2> QED
      BY <2>1, SmallReports
  <1>2. a.sent \in Nat /\ a.shown \in Nat
    BY DEF Log
  <1>3. Needed("gif", r1) = 30
    <2>1. r1 # LastOfBlock
      BY SmallReports
    <2> QED
      BY <2>1, RestTable DEF Needed
  <1> HIDE DEF r1, r2
  <1>4. l1 \in Log /\ l2 \in Log /\ l3 \in Log /\ l4 \in Log /\ l5 \in Log
    <2>1. a.sent + 1 \in Nat /\ a.sent + 2 \in Nat
      BY <1>2
    <2> QED
      BY <1>1, <1>2, <2>1 DEF Log
  <1> DEFINE Is(l, r, rest, sent) ==
                 l.last = r /\ l.rest = rest /\ l.sent = a.sent + sent /\ l.shown = a.shown
  <1>0. Is(l1, r1, 0, 1) /\ Is(l2, r1, 30, 1) /\ Is(l3, r2, 0, 2) /\ Is(l4, r2, 30, 2)
        /\ Is(l5, r2, 530, 2)
    OBVIOUS
  <1> HIDE DEF l1, l2, l3, l4, l5
  <1>5. Fits("gif", a, SendStep(r1)) /\ After(a, SendStep(r1)) = l1
    <2>1. r1 \in ReportType \ {NoReport, Junk} /\ r1 # a.last /\ a.rest = Needed("gif", a.last)
      BY <1>1
    <2>2. l1 \in Log
      BY <1>4
    <2>3. l1.last = r1 /\ l1.rest = 0 /\ l1.sent = a.sent + 1 /\ l1.shown = a.shown
      BY <1>0
    <2> QED
      BY <2>1, <2>2, <2>3, SendTo
  <1>6. Fits("gif", l1, Pause(30)) /\ After(l1, Pause(30)) = l2
    <2>1. l2.rest = l1.rest + 30
      BY <1>0
    <2> QED
      BY <1>0, <1>4, <2>1, PauseTo
  <1>7. Fits("gif", l2, SendStep(r2)) /\ After(l2, SendStep(r2)) = l3
    <2>1. l3.sent = l2.sent + 1
      BY <1>0, <1>2
    <2>2. r2 # l2.last /\ l2.rest = Needed("gif", l2.last)
      BY <1>0, <1>1, <1>3
    <2> QED
      BY <1>0, <1>1, <1>4, <2>1, <2>2, SendTo
  <1>8. Fits("gif", l3, Pause(30)) /\ After(l3, Pause(30)) = l4
    <2>1. l4.rest = l3.rest + 30
      BY <1>0
    <2> QED
      BY <1>0, <1>4, <2>1, PauseTo
  <1>9. Fits("gif", l4, Pause(500)) /\ After(l4, Pause(500)) = l5
    <2>1. l5.rest = l4.rest + 500
      BY <1>0
    <2> QED
      BY <1>0, <1>4, <2>1, PauseTo
  <1>10. c1 \in Seq(StepType) /\ Leads("gif", c1, a, l2)
    BY <1>5, <1>6, TwoSteps
  <1>11. c2 \in Seq(StepType) /\ Leads("gif", c2, l2, l4)
    BY <1>4, <1>7, <1>8, TwoSteps
  <1> DEFINE marks == [i \in 0..2 |-> IF i = 0 THEN a ELSE IF i = 1 THEN l2 ELSE l4]
             seqs == [i \in DOMAIN CloseReports |-> <<SendStep(CloseReports[i]), Pause(30)>>]
  <1>12. DOMAIN CloseReports = 1..2 /\ seqs[1] = c1 /\ seqs[2] = c2
    <2>1. DOMAIN CloseReports = 1..2
      BY DEF CloseReports
    <2>2. CloseReports[1] = r1 /\ CloseReports[2] = r2
      BY DEF CloseReports, r1, r2
    <2>3. 1 \in 1..2 /\ 2 \in 1..2
      OBVIOUS
    <2> QED
      BY <2>1, <2>2, <2>3
  <1> HIDE DEF c1, c2
  <1>13. \A i \in 1..2 : i = 1 \/ i = 2
    OBVIOUS
  <1>14. seqs \in Seq(Seq(StepType)) /\ Len(seqs) = 2
    <2>1. seqs = [i \in 1..2 |-> seqs[i]]
      BY <1>12
    <2> HIDE DEF seqs
    <2>2. seqs \in [1..2 -> Seq(StepType)]
      BY <1>10, <1>11, <1>12, <1>13, <2>1
    <2>3. 2 \in Nat
      OBVIOUS
    <2> QED
      BY <2>2, <2>3, AsSequence
  <1>15. marks \in [0..2 -> Log] /\ marks[0] = a /\ marks[1] = l2 /\ marks[2] = l4
    BY <1>4
  <1>16. ASSUME NEW i \in 1..2
         PROVE  Leads("gif", seqs[i], marks[i - 1], marks[i])
    <2>1. 1 - 1 = 0 /\ 2 - 1 = 1
      OBVIOUS
    <2> HIDE DEF seqs, marks
    <2>2. CASE i = 1
      BY <1>10, <1>12, <1>15, <2>1, <2>2
    <2>3. CASE i = 2
      BY <1>11, <1>12, <1>15, <2>1, <2>3
    <2> QED
      BY <1>13, <2>2, <2>3
  <1> HIDE DEF seqs, marks
  <1>17. FlattenSeq(seqs) \in Seq(StepType) /\ Leads("gif", FlattenSeq(seqs), a, l4)
    <2>1. FlattenSeq(seqs) \in Seq(StepType)
      BY <1>14, FlattenedType
    <2>2. Leads("gif", FlattenSeq(seqs), marks[0], marks[Len(seqs)])
      BY <1>14, <1>15, <1>16, Chained
    <2> QED
      BY <1>14, <1>15, <2>1, <2>2
  <1>18. /\ FlattenSeq(seqs) \o <<Pause(500)>> \in Seq(StepType)
         /\ Leads("gif", FlattenSeq(seqs) \o <<Pause(500)>>, a, l5)
    <2> DEFINE s == FlattenSeq(seqs)
    <2>1. s \in Seq(StepType) /\ Leads("gif", s, a, l4)
      BY <1>17
    <2> HIDE DEF s
    <2>2. s \o <<Pause(500)>> \in Seq(StepType) /\ Leads("gif", s \o <<Pause(500)>>, a, l5)
      BY <1>4, <1>9, <2>1, AndOneStep
    <2> QED
      BY <2>2 DEF s
  <1>19. CloseProgram = FlattenSeq(seqs) \o <<Pause(500)>>
    BY DEF CloseProgram, seqs
  <1> QED
    BY <1>4, <1>18, <1>19 DEF l5, r2

LEMMA StartOf ==
    ASSUME NEW S, NEW s \in Seq(S), NEW u \in Seq(S), Len(s) # 0
    PROVE  s \o u \in Seq(S) /\ Len(s \o u) # 0 /\ (s \o u)[1] = s[1]
  OBVIOUS

\* A whole GIF, for any number of frames: its count is what protocol.rs computes.
LEMMA GifLeads ==
    ASSUME NEW n \in Nat
    PROVE  LET b == [last |-> Finish, rest |-> 0, sent |-> GifReportCount(n), shown |-> n]
           IN  /\ b \in Log /\ GifProgram(n) \in Seq(StepType)
               /\ Leads("gif", GifProgram(n), Blank, b)
               /\ Len(GifProgram(n)) # 0 /\ GifProgram(n)[1] = SendStep(OpenReports[1])
  <1> DEFINE r1 == Report("open", 18)
             r2 == Report("open", 19)
             l1 == [last |-> r1, rest |-> 0, sent |-> 1, shown |-> 0]
             l2 == [last |-> r2, rest |-> 0, sent |-> 2, shown |-> 0]
             l3 == [last |-> r2, rest |-> 30, sent |-> 2, shown |-> 0]
             z == 2 + n * FrameReports
             l4 == [last |-> IF n = 0 THEN r2 ELSE LastOfBlock, rest |-> 30, sent |-> z, shown |-> n]
             l5 == [last |-> Report("close", 19), rest |-> 530, sent |-> z + 2, shown |-> n]
             l6 == [last |-> Finish, rest |-> 0, sent |-> z + 3, shown |-> n]
             s1 == Sends(OpenReports)
             s2 == s1 \o <<Pause(30)>>
             s3 == FlattenSeq([i \in 1..n |-> FrameProgram(i - 1)])
             s4 == s2 \o s3
             s5 == s4 \o CloseProgram
  <1>1. /\ r1 \in ReportType \ {NoReport, Junk} /\ r2 \in ReportType \ {NoReport, Junk}
        /\ r1 # r2 /\ r1 # LastOfBlock /\ r2.cmd = "open" /\ LastOfBlock.cmd = "data"
    <2>1. r2.cmd = "open" /\ LastOfBlock.cmd = "data"
      BY DEF Report, LastOfBlock
    <2> QED
      BY <2>1, SmallReports
  <1>2. Needed("gif", r1) = 0 /\ Needed("gif", NoReport) = 0 /\ Needed("gif", r2) = 30
        /\ Needed("gif", LastOfBlock) = 30
    <2>1. NoReport # LastOfBlock /\ r2 # LastOfBlock
      BY SmallReports
    <2> QED
      BY <1>1, <2>1, RestTable DEF Needed
  <1>3. Blank \in Log /\ Blank.last = NoReport /\ Blank.rest = 0 /\ Blank.sent = 0 /\ Blank.shown = 0
    <2>1. NoReport \in ReportType
      BY DEF NoReport, Report, ReportType
    <2> QED
      BY <2>1 DEF Blank, Log
  <1> HIDE DEF r1, r2
  <1>4. l1 \in Log /\ l2 \in Log
    BY <1>1 DEF Log
  <1>5. l3 \in Log /\ l4 \in Log /\ s3 \in Seq(StepType) /\ Leads("gif", s3, l3, l4)
    BY FramesLead DEF r2
  <1> HIDE DEF z
  <1>6. z \in Nat
    BY <1>5 DEF Log
  <1>7. l5 \in Log /\ l6 \in Log
    <2>1. z + 2 \in Nat /\ z + 3 \in Nat
      BY <1>6
    <2>2. Report("close", 19) \in ReportType /\ Finish \in ReportType
      BY SmallReports
    <2> QED
      BY <2>1, <2>2 DEF Log
  <1> DEFINE Is(l, r, rest, sent, shown) ==
                 l.last = r /\ l.rest = rest /\ l.sent = sent /\ l.shown = shown
  <1>8. /\ Is(l1, r1, 0, 1, 0) /\ Is(l2, r2, 0, 2, 0) /\ Is(l3, r2, 30, 2, 0)
        /\ l4.last \in {r2, LastOfBlock} /\ Is(l4, l4.last, 30, z, n)
        /\ Is(l5, Report("close", 19), 530, z + 2, n) /\ Is(l6, Finish, 0, z + 3, n)
        /\ l5 = [last |-> Report("close", 19), rest |-> 530, sent |-> l4.sent + 2,
                 shown |-> l4.shown]
    OBVIOUS
  <1> HIDE DEF l1, l2, l3, l4, l5
  <1>9. Fits("gif", Blank, SendStep(r1)) /\ After(Blank, SendStep(r1)) = l1
    <2>1. r1 # Blank.last /\ Blank.rest = Needed("gif", Blank.last)
      BY <1>1, <1>2, <1>3
    <2>2. l1.sent = Blank.sent + 1 /\ l1.shown = Blank.shown
      BY <1>3, <1>8
    <2>3. l1.last = r1 /\ l1.rest = 0
      BY <1>8
    <2> QED
      BY <1>1, <1>3, <1>4, <2>1, <2>2, <2>3, SendTo
  <1>10. Fits("gif", l1, SendStep(r2)) /\ After(l1, SendStep(r2)) = l2
    <2>1. r2 # l1.last /\ l1.rest = Needed("gif", l1.last)
      BY <1>1, <1>2, <1>8
    <2>2. l2.last = r2 /\ l2.rest = 0 /\ l2.sent = l1.sent + 1 /\ l2.shown = l1.shown
      BY <1>8
    <2> QED
      BY <1>1, <1>4, <2>1, <2>2, SendTo
  <1>11. /\ s1 \in Seq(StepType) /\ Leads("gif", s1, Blank, l2)
         /\ Len(s1) # 0 /\ s1[1] = SendStep(r1)
    <2> DEFINE rs == <<r1, r2>>
    <2>1. /\ rs \in Seq(ReportType) /\ Len(rs) = 2 /\ rs[1] = r1 /\ rs[2] = r2
          /\ 1 \in 1..2 /\ 2 \in 1..2
      BY <1>1
    <2> HIDE DEF rs
    <2>2. Sends(rs) \in Seq(StepType) /\ Len(Sends(rs)) = 2
          /\ \A i \in 1..2 : Sends(rs)[i] = SendStep(rs[i])
      BY <2>1, SendsType
    <2>3. Sends(rs) = s1
      BY DEF OpenReports, r1, r2, rs
    <2> HIDE DEF s1
    <2>4. s1 \in Seq(StepType) /\ Len(s1) = 2 /\ s1[1] = SendStep(r1) /\ s1[2] = SendStep(r2)
      BY <2>1, <2>2, <2>3
    <2>5. /\ <<SendStep(r1), SendStep(r2)>> \in Seq(StepType)
          /\ Leads("gif", <<SendStep(r1), SendStep(r2)>>, Blank, l2)
      BY <1>3, <1>9, <1>10, TwoSteps
    <2> DEFINE u == <<SendStep(r1), SendStep(r2)>>
    <2>6. Len(u) = 2 /\ u[1] = SendStep(r1) /\ u[2] = SendStep(r2) /\ u \in Seq(StepType)
      BY <2>5
    <2>7. \A i \in 1..2 : i = 1 \/ i = 2
      OBVIOUS
    <2> HIDE DEF u
    <2>8. s1 = u
      BY <2>4, <2>6, <2>7, SeqEqual
    <2> QED
      BY <2>4, <2>5, <2>8 DEF u
  <1>12. Fits("gif", l2, Pause(30)) /\ After(l2, Pause(30)) = l3
    <2>1. l3.last = l2.last /\ l3.rest = l2.rest + 30 /\ l3.sent = l2.sent /\ l3.shown = l2.shown
      BY <1>8
    <2>2. l2 \in Log /\ l3 \in Log /\ 30 \in Nat
      BY <1>4, <1>5
    <2> QED
      BY <2>1, <2>2, PauseTo
  <1>13. /\ s4 \in Seq(StepType) /\ Leads("gif", s4, Blank, l4)
         /\ Len(s4) # 0 /\ s4[1] = SendStep(r1)
    <2>1. s2 \in Seq(StepType) /\ Leads("gif", s2, Blank, l3)
      <3> HIDE DEF s1
      <3> QED
        BY <1>4, <1>11, <1>12, AndOneStep
    <2>4. Len(s2) # 0 /\ s2[1] = SendStep(r1)
      <3>1. Pause(30) \in StepType
        BY <1>12 DEF Fits
      <3>2. <<Pause(30)>> \in Seq(StepType)
        BY <3>1
      <3> HIDE DEF s1
      <3> QED
        BY <1>11, <3>2, StartOf
    <2> HIDE DEF s2, s3
    <2>5. Len(s2 \o s3) # 0 /\ (s2 \o s3)[1] = SendStep(r1)
      BY <1>5, <2>1, <2>4, StartOf
    <2>2. Leads("gif", s2 \o s3, Blank, l4)
      BY <1>5, <2>1, Joined
    <2>3. s2 \o s3 \in Seq(StepType)
      BY <1>5, <2>1
    <2> QED
      BY <2>2, <2>3, <2>5
  <1>14. /\ s5 \in Seq(StepType) /\ Leads("gif", s5, Blank, l5)
         /\ Len(s5) # 0 /\ s5[1] = SendStep(r1)
    <2> HIDE DEF s4
    <2>1. l4.last.cmd # "close" /\ l4.rest = Needed("gif", l4.last)
      BY <1>1, <1>2, <1>8
    <2>2. CloseProgram \in Seq(StepType) /\ Leads("gif", CloseProgram, l4, l5)
      BY <1>5, <1>8, <2>1, CloseLeads
    <2>3. Leads("gif", s4 \o CloseProgram, Blank, l5)
      BY <1>13, <2>2, Joined
    <2>4. /\ s4 \o CloseProgram \in Seq(StepType)
          /\ Len(s4 \o CloseProgram) # 0 /\ (s4 \o CloseProgram)[1] = SendStep(r1)
      BY <1>13, <2>2, StartOf
    <2> QED
      BY <2>3, <2>4
  <1>15. Fits("gif", l5, SendStep(Finish)) /\ After(l5, SendStep(Finish)) = l6
    <2>1. Finish \in ReportType \ {NoReport, Junk} /\ Finish # Report("close", 19)
          /\ Report("close", 19) # LastOfBlock
      BY SmallReports
    <2>2. Needed("gif", Report("close", 19)) = 530
      BY <2>1, RestTable DEF Needed
    <2> HIDE DEF l6
    <2>3. l6.sent = l5.sent + 1
      BY <1>6, <1>8
    <2>4. Finish # l5.last /\ l5.rest = Needed("gif", l5.last)
      BY <1>8, <2>1, <2>2
    <2> QED
      BY <1>7, <1>8, <2>1, <2>3, <2>4, SendTo
  <1>16. /\ s5 \o <<SendStep(Finish)>> \in Seq(StepType) /\ l6 \in Log
         /\ Leads("gif", s5 \o <<SendStep(Finish)>>, Blank, l6)
         /\ Len(s5 \o <<SendStep(Finish)>>) # 0
         /\ (s5 \o <<SendStep(Finish)>>)[1] = SendStep(r1)
    <2> HIDE DEF l6, s5
    <2>1. SendStep(Finish) \in StepType
      BY <1>15 DEF Fits
    <2>2. <<SendStep(Finish)>> \in Seq(StepType)
      BY <2>1
    <2>3. /\ Len(s5 \o <<SendStep(Finish)>>) # 0
          /\ (s5 \o <<SendStep(Finish)>>)[1] = SendStep(r1)
      BY <1>14, <2>2, StartOf
    <2> QED
      BY <1>7, <1>14, <1>15, <2>3, AndOneStep
  <1>17. GifProgram(n) = s5 \o <<SendStep(Finish)>>
    BY DEF GifProgram
  <1>18. z + 3 = GifReportCount(n)
    <2>1. n * FrameReports \in Int
      <3>1. FrameReports \in Nat
        BY Sizes
      <3> QED
        BY <3>1
    <2>2. GifReportCount(n) = 2 + n * FrameReports + 2 + 1
      BY DEF GifReportCount, FrameReports
    <2> QED
      BY <2>1, <2>2 DEF z
  <1>19. OpenReports[1] = r1
    BY DEF OpenReports, r1
  <1> HIDE DEF s5
  <1> QED
    BY <1>16, <1>17, <1>18, <1>19

LEMMA SendsJoined ==
    ASSUME NEW u \in Seq(ReportType), NEW v \in Seq(ReportType)
    PROVE  Sends(u \o v) = Sends(u) \o Sends(v)
  <1> DEFINE m == Len(u)
             n == Len(v)
  <1>1. /\ m \in Nat /\ n \in Nat /\ u \o v \in Seq(ReportType) /\ Len(u \o v) = m + n
        /\ \A i \in 1..(m + n) : (u \o v)[i] = IF i <= m THEN u[i] ELSE v[i - m]
    OBVIOUS
  <1>2. /\ Sends(u \o v) \in Seq(StepType) /\ Len(Sends(u \o v)) = m + n
        /\ \A i \in 1..(m + n) : Sends(u \o v)[i] = SendStep((u \o v)[i])
    BY <1>1, SendsType
  <1>3. /\ Sends(u) \in Seq(StepType) /\ Len(Sends(u)) = m
        /\ \A i \in 1..m : Sends(u)[i] = SendStep(u[i])
    BY SendsType
  <1>4. /\ Sends(v) \in Seq(StepType) /\ Len(Sends(v)) = n
        /\ \A i \in 1..n : Sends(v)[i] = SendStep(v[i])
    BY SendsType
  <1> DEFINE p == Sends(u)
             q == Sends(v)
  <1>5. /\ p \o q \in Seq(StepType) /\ Len(p \o q) = m + n
        /\ \A i \in 1..(m + n) : (p \o q)[i] = IF i <= m THEN p[i] ELSE q[i - m]
    <2> HIDE DEF p, q
    <2>1. /\ p \o q \in Seq(StepType) /\ Len(p \o q) = Len(p) + Len(q)
          /\ \A i \in 1..(Len(p) + Len(q)) :
                (p \o q)[i] = IF i <= Len(p) THEN p[i] ELSE q[i - Len(p)]
      <3>1. p \in Seq(StepType) /\ q \in Seq(StepType)
        BY <1>3, <1>4 DEF p, q
      <3> QED
        BY <3>1
    <2> QED
      BY <1>3, <1>4, <2>1 DEF p, q
  <1>6. ASSUME NEW i \in 1..(m + n)
        PROVE  Sends(u \o v)[i] = (p \o q)[i]
    <2>1. i <= m => i \in 1..m
      BY <1>1
    <2>2. ~ (i <= m) => i - m \in 1..n
      BY <1>1
    <2> HIDE DEF m, n, p, q
    <2> QED
      BY <1>1, <1>2, <1>3, <1>4, <1>5, <2>1, <2>2 DEF p, q
  <1> HIDE DEF m, n, p, q
  <1>7. Sends(u \o v) = p \o q
    BY <1>2, <1>5, <1>6, SeqEqual
  <1> QED
    BY <1>7 DEF p, q

LEMMA OneSend ==
    ASSUME NEW r \in ReportType
    PROVE  Sends(<<r>>) = <<SendStep(r)>> /\ <<r>> \in Seq(ReportType)
  <1>1. <<r>> \in Seq(ReportType) /\ Len(<<r>>) = 1 /\ <<r>>[1] = r /\ 1 \in 1..1
    OBVIOUS
  <1>2. /\ Sends(<<r>>) \in Seq(StepType) /\ Len(Sends(<<r>>)) = 1
        /\ Sends(<<r>>)[1] = SendStep(r)
    BY <1>1, SendsType
  <1>3. SendStep(r) \in StepType
    BY DEF SendStep, StepType
  <1>4. <<SendStep(r)>> \in Seq(StepType) /\ Len(<<SendStep(r)>>) = 1
        /\ <<SendStep(r)>>[1] = SendStep(r)
    BY <1>3
  <1>5. \A i \in 1..1 : i = 1
    OBVIOUS
  <1> QED
    BY <1>1, <1>2, <1>4, <1>5, SeqEqual

\* The picture upload, of any size: its count is what protocol.rs computes.
LEMMA PictureLeads ==
    LET b == [last |-> Finish, rest |-> 0, sent |-> PictureReportCount, shown |-> 0]
    IN  /\ b \in Log /\ PictureProgram \in Seq(StepType)
        /\ Leads("other", PictureProgram, Blank, b)
        /\ Len(PictureProgram) # 0 /\ PictureProgram[1] = SendStep(PictureStart)
  <1> DEFINE r == PictureStart
             d == Report("declare", 12)
             m == DivCeil(PictureBytes, BulkChunk)
             e == Report("data", (m - 1) * BulkChunk)
             l1 == [last |-> r, rest |-> 0, sent |-> 1, shown |-> 0]
             l2 == [last |-> r, rest |-> 300, sent |-> 1, shown |-> 0]
             l3 == [last |-> d, rest |-> 0, sent |-> 2, shown |-> 0]
             l4 == [last |-> e, rest |-> 0, sent |-> 2 + m, shown |-> 0]
             l5 == [last |-> Finish, rest |-> 0, sent |-> 3 + m, shown |-> 0]
             s1 == <<SendStep(r), Pause(300)>>
             rs == Packets(PictureBytes)
             s3 == Sends(rs)
  <1>1. m \in Nat \ {0} /\ PictureBytes \in Nat \ {0} /\ (m - 1) * BulkChunk \in Nat
    <2>1. PictureBytes \in Nat \ {0} /\ BulkChunk \in Nat \ {0}
      BY Sizes
    <2>2. m \in Nat \ {0}
      BY <2>1, Ceilings
    <2>3. m - 1 \in Nat
      BY <2>2
    <2> HIDE DEF m
    <2>4. \A x, y \in Nat : x * y \in Nat
      OBVIOUS
    <2> QED
      BY <2>1, <2>2, <2>3, <2>4
  <1>2. /\ r \in ReportType \ {NoReport, Junk} /\ d \in ReportType \ {NoReport, Junk}
        /\ e \in ReportType \ {NoReport, Junk} /\ Finish \in ReportType \ {NoReport, Junk}
        /\ d # r /\ d # Report("data", 0) /\ Finish # e
    <2> HIDE DEF m
    <2> QED
      BY <1>1, SmallReports
  <1>3. /\ Needed("other", NoReport) = 0 /\ Needed("other", r) = 300
        /\ Needed("other", d) = 0 /\ Needed("other", e) = 0
    <2> HIDE DEF m
    <2> QED
      BY <1>1, RestTable DEF Needed
  <1>4. Blank \in Log /\ Blank.last = NoReport /\ Blank.rest = 0 /\ Blank.sent = 0 /\ Blank.shown = 0
    <2>1. NoReport \in ReportType
      BY DEF NoReport, Report, ReportType
    <2> QED
      BY <2>1 DEF Blank, Log
  <1>5. rs \in Seq(ReportType) /\ s3 \in Seq(StepType)
    BY <1>1, DataReports, SendsType
  <1> HIDE DEF r, d, m, e, rs
  <1>6. l1 \in Log /\ l2 \in Log /\ l3 \in Log /\ l4 \in Log /\ l5 \in Log
    <2>1. 2 + m \in Nat /\ 3 + m \in Nat
      BY <1>1
    <2> QED
      BY <1>2, <2>1 DEF Log
  <1> DEFINE Is(l, last, rest, sent) ==
                 l.last = last /\ l.rest = rest /\ l.sent = sent /\ l.shown = 0
  <1>7. /\ Is(l1, r, 0, 1) /\ Is(l2, r, 300, 1) /\ Is(l3, d, 0, 2) /\ Is(l4, e, 0, 2 + m)
        /\ Is(l5, Finish, 0, 3 + m)
        /\ l4 = [last |-> e, rest |-> 0, sent |-> l3.sent + m, shown |-> l3.shown]
    OBVIOUS
  <1> HIDE DEF l1, l2, l3, l4
  <1>8. Fits("other", Blank, SendStep(r)) /\ After(Blank, SendStep(r)) = l1
    <2>1. r # Blank.last /\ Blank.rest = Needed("other", Blank.last)
      BY <1>2, <1>3, <1>4
    <2>2. l1.last = r /\ l1.rest = 0 /\ l1.sent = Blank.sent + 1 /\ l1.shown = Blank.shown
      BY <1>4, <1>7
    <2>3. Blank \in Log /\ l1 \in Log /\ r \in ReportType \ {NoReport, Junk}
      BY <1>2, <1>4, <1>6
    <2> HIDE DEF l5, s1, s3, Is
    <2> QED
      BY <2>1, <2>2, <2>3, SendTo
  <1>9. Fits("other", l1, Pause(300)) /\ After(l1, Pause(300)) = l2
    <2>1. l2.last = l1.last /\ l2.rest = l1.rest + 300 /\ l2.sent = l1.sent /\ l2.shown = l1.shown
      BY <1>7
    <2>2. 300 \in Nat
      OBVIOUS
    <2> QED
      BY <1>6, <2>1, <2>2, PauseTo
  <1>10. /\ s1 \in Seq(StepType) /\ Leads("other", s1, Blank, l2)
         /\ Len(s1) # 0 /\ s1[1] = SendStep(r)
    <2>1. s1 \in Seq(StepType) /\ Leads("other", s1, Blank, l2)
      BY <1>4, <1>8, <1>9, TwoSteps
    <2> QED
      BY <2>1
  <1>11. Fits("other", l2, SendStep(d)) /\ After(l2, SendStep(d)) = l3
    <2>1. d # l2.last /\ l2.rest = Needed("other", l2.last)
      BY <1>2, <1>3, <1>7
    <2>2. l3.last = d /\ l3.rest = 0 /\ l3.sent = l2.sent + 1 /\ l3.shown = l2.shown
      BY <1>7
    <2> QED
      BY <1>2, <1>6, <2>1, <2>2, SendTo
  <1>12. Leads("other", s3, l3, l4)
    <2>1. l3.last # Report("data", 0) /\ l3.rest = Needed("other", l3.last)
      BY <1>2, <1>3, <1>7
    <2>2. "other" # "gif"
      OBVIOUS
    <2>3. LET b == [last |-> e, rest |-> 0, sent |-> l3.sent + m, shown |-> l3.shown]
          IN  b \in Log /\ Leads("other", s3, l3, b)
      BY <1>1, <1>6, <2>1, <2>2, DataLeads DEF e, m, rs
    <2> QED
      BY <1>7, <2>3
  <1>13. Fits("other", l4, SendStep(Finish)) /\ After(l4, SendStep(Finish)) = l5
    <2> HIDE DEF l5
    <2>1. Finish # l4.last /\ l4.rest = Needed("other", l4.last)
      BY <1>2, <1>3, <1>7
    <2>2. l5.last = Finish /\ l5.rest = 0 /\ l5.sent = l4.sent + 1 /\ l5.shown = l4.shown
      BY <1>1, <1>7
    <2> QED
      BY <1>2, <1>6, <2>1, <2>2, SendTo
  <1> DEFINE s2 == <<SendStep(d)>>
             s4 == <<SendStep(Finish)>>
  <1>14. s2 \in Seq(StepType) /\ s4 \in Seq(StepType)
    <2>1. SendStep(d) \in StepType /\ SendStep(Finish) \in StepType
      BY <1>11, <1>13 DEF Fits
    <2> QED
      BY <2>1
  <1>15. Leads("other", s2, l2, l3) /\ Leads("other", s4, l4, l5)
    <2> HIDE DEF l5
    <2> QED
      BY <1>6, <1>11, <1>13, OneStep
  <1>16. PictureProgram = s1 \o ((s2 \o s3) \o s4)
    <2>1. /\ <<d>> \in Seq(ReportType) /\ <<Finish>> \in Seq(ReportType)
          /\ Sends(<<d>>) = s2 /\ Sends(<<Finish>>) = s4
      BY <1>2, OneSend
    <2>2. Sends(<<d>> \o rs) = s2 \o s3
      BY <1>5, <2>1, SendsJoined
    <2>3. <<d>> \o rs \in Seq(ReportType)
      BY <1>5, <2>1
    <2> DEFINE u == <<d>> \o rs
    <2> HIDE DEF u, s2, s3, s4
    <2>4. Sends(u \o <<Finish>>) = Sends(u) \o s4
      BY <2>1, <2>3, SendsJoined DEF u
    <2>5. PictureBody = u \o <<Finish>>
      BY DEF PictureBody, u, d, rs
    <2>6. PictureProgram = s1 \o Sends(PictureBody)
      BY DEF PictureProgram, r
    <2> QED
      BY <2>2, <2>4, <2>5, <2>6 DEF u
  <1> HIDE DEF s1, s2, s3, s4
  <1> DEFINE u == s2 \o s3
             v == u \o s4
  <1>17. u \in Seq(StepType) /\ Leads("other", u, l2, l4)
    <2>1. Leads("other", s2 \o s3, l2, l4)
      BY <1>5, <1>12, <1>14, <1>15, Joined
    <2> QED
      BY <1>5, <1>14, <2>1
  <1> HIDE DEF u, l5
  <1>18. v \in Seq(StepType) /\ Leads("other", v, l2, l5)
    <2>1. Leads("other", u \o s4, l2, l5)
      BY <1>14, <1>15, <1>17, Joined
    <2> QED
      BY <1>14, <1>17, <2>1
  <1> HIDE DEF v
  <1>19. /\ s1 \o v \in Seq(StepType) /\ Leads("other", s1 \o v, Blank, l5)
         /\ Len(s1 \o v) # 0 /\ (s1 \o v)[1] = SendStep(r)
    <2>1. Leads("other", s1 \o v, Blank, l5)
      BY <1>10, <1>18, Joined
    <2> QED
      BY <1>10, <1>18, <2>1, StartOf
  <1>20. 3 + m = PictureReportCount
    BY <1>1 DEF PictureReportCount, m
  <1> QED
    BY <1>6, <1>16, <1>19, <1>20 DEF l5, u, v, r

LEMMA SendsFlattened ==
    ASSUME NEW rs \in Seq(Seq(ReportType))
    PROVE  Sends(FlattenSeq(rs)) = FlattenSeq([i \in 1..Len(rs) |-> Sends(rs[i])])
  <1> DEFINE n == Len(rs)
             ss == [i \in 1..n |-> Sends(rs[i])]
  <1>1. n \in Nat /\ \A i \in 1..n : rs[i] \in Seq(ReportType)
    OBVIOUS
  <1>2. ss \in Seq(Seq(StepType)) /\ Len(ss) = n /\ \A i \in 1..n : ss[i] = Sends(rs[i])
    <2>1. \A i \in 1..n : Sends(rs[i]) \in Seq(StepType)
      BY <1>1, SendsType
    <2>2. ss \in [1..n -> Seq(StepType)]
      BY <2>1
    <2>3. \A i \in 1..n : ss[i] = Sends(rs[i])
      OBVIOUS
    <2> HIDE DEF ss, n
    <2> QED
      BY <1>1, <2>2, <2>3, AsSequence
  <1>3. CASE n = 0
    <2>1. FlattenSeq(rs) = rs /\ FlattenSeq(ss) = ss
      BY <1>2, <1>3 DEF FlattenSeq
    <2>2. rs = <<>> /\ ss = <<>>
      BY <1>3
    <2>3. Sends(<<>>) = <<>>
      BY DEF Sends
    <2> QED
      BY <2>1, <2>2, <2>3
  <1>4. CASE n # 0
    <2>1. PICK f \in [1..n -> Seq(ReportType)] :
             /\ f[1] = rs[1] /\ f[n] = FlattenSeq(rs)
             /\ \A i \in 2..n : f[i] = f[i - 1] \o rs[i]
      BY <1>4, RowMajor
    <2> HIDE DEF ss, n
    <2>2. PICK g \in [1..n -> Seq(StepType)] :
             /\ g[1] = ss[1] /\ g[n] = FlattenSeq(ss)
             /\ \A i \in 2..n : g[i] = g[i - 1] \o ss[i]
      BY <1>2, <1>4, RowMajor
    <2> DEFINE Good == {k \in Nat : k + 1 \in 1..n => Sends(f[k + 1]) = g[k + 1]}
    <2>3. 0 \in Good
      <3>1. 0 + 1 = 1 /\ 1 \in 1..n
        BY <1>1, <1>4
      <3> QED
        BY <1>2, <2>1, <2>2, <3>1
    <2>4. ASSUME NEW k \in 0..(n - 1), k \in Good
          PROVE  k + 1 \in Good
      <3>1. SUFFICES ASSUME k + 2 \in 1..n PROVE Sends(f[k + 2]) = g[k + 2]
        <4>1. (k + 1) + 1 = k + 2 /\ k + 1 \in Nat
          BY <1>1
        <4> QED
          BY <3>1, <4>1
      <3>2. k + 1 \in 1..n /\ k + 2 \in 2..n /\ (k + 2) - 1 = k + 1
        BY <1>1, <3>1
      <3>3. Sends(f[k + 1]) = g[k + 1]
        BY <2>4, <3>2
      <3>4. f[k + 1] \in Seq(ReportType) /\ rs[k + 2] \in Seq(ReportType)
        BY <1>1, <2>1, <3>1, <3>2
      <3>5. Sends(f[k + 1] \o rs[k + 2]) = Sends(f[k + 1]) \o Sends(rs[k + 2])
        BY <3>4, SendsJoined
      <3> QED
        BY <1>2, <2>1, <2>2, <3>1, <3>2, <3>3, <3>5
    <2>5. 0..n \subseteq Good
      <3> HIDE DEF Good
      <3> QED
        BY <1>1, <2>3, <2>4, Upwards
    <2>6. n - 1 \in 0..n /\ (n - 1) + 1 = n /\ n \in 1..n
      BY <1>1, <1>4
    <2>7. Sends(f[n]) = g[n]
      BY <2>5, <2>6
    <2> QED
      BY <2>1, <2>2, <2>7 DEF ss, n
  <1> QED
    BY <1>3, <1>4

\* The reports of the short commands need no rest.
Short(r) == r \in ReportType \ {NoReport, Junk} /\ Needed("other", r) = 0

LEMMA RepeatLeads ==
    ASSUME NEW rs \in Seq(ReportType), NEW k \in Nat \ {0}, Len(rs) = k,
           \A i \in 1..k : Short(rs[i]),
           \A i \in 1..(k - 1) : rs[i + 1] # rs[i],
           rs[1] # rs[k], NEW n \in Nat
    PROVE  /\ Repeat(rs, n) \in Seq(ReportType)
           /\ \E b \in Log : Leads("other", Sends(Repeat(rs, n)), Blank, b)
           /\ n # 0 => Len(Repeat(rs, n)) # 0 /\ Repeat(rs, n)[1] = rs[1]
  <1> DEFINE all == [i \in 1..n |-> rs]
             ss == [i \in 1..n |-> Sends(rs)]
             at(i) == [last |-> rs[k], rest |-> 0, sent |-> i * k, shown |-> 0]
             marks == [i \in 0..n |-> IF i = 0 THEN Blank ELSE at(i)]
  <1>1. all \in Seq(Seq(ReportType)) /\ Len(all) = n /\ Sends(rs) \in Seq(StepType)
    <2>1. all \in [1..n -> Seq(ReportType)]
      OBVIOUS
    <2> HIDE DEF all
    <2> QED
      BY <2>1, AsSequence, SendsType
  <1>2. ss \in Seq(Seq(StepType)) /\ Len(ss) = n
    <2>1. ss \in [1..n -> Seq(StepType)]
      BY <1>1
    <2> HIDE DEF ss
    <2> QED
      BY <2>1, AsSequence
  <1>3. Repeat(rs, n) = FlattenSeq(all)
    BY DEF Repeat
  <1>4. Sends(Repeat(rs, n)) = FlattenSeq(ss)
    <2>1. [i \in 1..Len(all) |-> Sends(all[i])] = ss
      BY <1>1
    <2> HIDE DEF all, ss
    <2> QED
      BY <1>1, <1>3, <2>1, SendsFlattened
  <1>5. Repeat(rs, n) \in Seq(ReportType)
    <2> HIDE DEF all
    <2> QED
      BY <1>1, <1>3, FlattenedType
  <1>15. ASSUME n # 0
         PROVE  Len(Repeat(rs, n)) # 0 /\ Repeat(rs, n)[1] = rs[1]
    <2>1. all[1] = rs
      BY <1>15
    <2> HIDE DEF all
    <2> QED
      BY <1>1, <1>3, <1>15, <2>1, FlattenedFirst
  <1>6. Blank \in Log /\ Blank.last = NoReport /\ Blank.rest = 0 /\ Blank.sent = 0 /\ Blank.shown = 0
    <2>1. NoReport \in ReportType
      BY DEF NoReport, Report, ReportType
    <2> QED
      BY <2>1 DEF Blank, Log
  <1>7. /\ 1 \in 1..k /\ k \in 1..k
        /\ \A i \in 1..k : rs[i] \in ReportType \ {NoReport, Junk} /\ Needed("other", rs[i]) = 0
        /\ \A i \in 1..(k - 1) : rs[i + 1] # rs[i] /\ Needed("other", rs[i]) = 0
    BY DEF Short
  <1>8. Needed("other", NoReport) = 0
    BY RestTable DEF Needed
  <1>9. \A i \in Nat : i * k \in Nat /\ (i + 1) * k = i * k + k
    OBVIOUS
  <1>10. \A i \in Nat : at(i) \in Log
    BY <1>7, <1>9 DEF Log
  <1>11. marks \in [0..n -> Log] /\ marks[0] = Blank
    <2>1. \A i \in 0..n : i \in Nat
      OBVIOUS
    <2> HIDE DEF at
    <2> QED
      BY <1>6, <1>10, <2>1
  <1>12. ASSUME NEW i \in 1..n
         PROVE  Leads("other", ss[i], marks[i - 1], marks[i])
    <2> DEFINE c == marks[i - 1]
               d == marks[i]
    <2>1. i - 1 \in 0..n /\ i \in 0..n /\ i # 0 /\ i - 1 \in Nat /\ (i - 1) + 1 = i
      OBVIOUS
    <2>2. c \in Log /\ d = at(i)
      BY <1>11, <2>1
    <2>3. c.last # rs[1] /\ c.rest = Needed("other", c.last) /\ c.sent = (i - 1) * k /\ c.shown = 0
      <3>1. CASE i - 1 = 0
        <4>1. c = Blank /\ (i - 1) * k = 0
          BY <2>1, <3>1
        <4> HIDE DEF c
        <4> QED
          BY <1>6, <1>7, <1>8, <4>1
      <3>2. CASE i - 1 # 0
        <4>1. c = at(i - 1)
          BY <2>1, <3>2
        <4>2. c.last = rs[k] /\ c.rest = 0 /\ c.sent = (i - 1) * k /\ c.shown = 0
          <5> HIDE DEF c
          <5> QED
            BY <4>1
        <4> HIDE DEF c
        <4> QED
          BY <1>7, <4>2
      <3> QED
        BY <3>1, <3>2
    <2>4. d = [last |-> rs[k], rest |-> 0, sent |-> c.sent + k, shown |-> c.shown]
      <3>1. i * k = (i - 1) * k + k
        BY <1>9, <2>1
      <3> HIDE DEF c, d
      <3> QED
        BY <2>2, <2>3, <3>1
    <2>5. ss[i] = Sends(rs)
      OBVIOUS
    <2> HIDE DEF c, d, ss, marks
    <2>6. LET b == [last |-> rs[k], rest |-> 0, sent |-> c.sent + k, shown |-> c.shown]
          IN  Leads("other", Sends(rs), c, b)
      BY <1>7, <2>2, <2>3, RunLeads
    <2> QED
      BY <2>4, <2>5, <2>6 DEF c, d
  <1>13. Leads("other", FlattenSeq(ss), marks[0], marks[n])
    <2> HIDE DEF ss, marks
    <2> QED
      BY <1>2, <1>11, <1>12, Chained
  <1>14. n \in 0..n
    OBVIOUS
  <1> HIDE DEF marks, ss
  <1> QED
    BY <1>4, <1>5, <1>11, <1>13, <1>14, <1>15

\* A flat list of short reports, one after the other.
LEMMA ListLeads ==
    ASSUME NEW rs \in Seq(ReportType), NEW k \in Nat \ {0}, Len(rs) = k,
           \A i \in 1..k : Short(rs[i]),
           \A i \in 1..(k - 1) : rs[i + 1] # rs[i]
    PROVE  \E b \in Log : Leads("other", Sends(rs), Blank, b)
  <1>1. Blank \in Log /\ Blank.last = NoReport /\ Blank.rest = 0
    <2>1. NoReport \in ReportType
      BY DEF NoReport, Report, ReportType
    <2> QED
      BY <2>1 DEF Blank, Log
  <1>2. Needed("other", NoReport) = 0
    BY RestTable DEF Needed
  <1>3. /\ \A i \in 1..k : rs[i] \notin {NoReport, Junk}
        /\ \A i \in 1..(k - 1) : rs[i + 1] # rs[i] /\ Needed("other", rs[i]) = 0
        /\ Blank.last # rs[1]
    <2>1. \A i \in 1..k : rs[i] \notin {NoReport, Junk} /\ Needed("other", rs[i]) = 0
      BY DEF Short
    <2>2. 1 \in 1..k /\ \A i \in 1..(k - 1) : i \in 1..k
      OBVIOUS
    <2> QED
      BY <1>1, <2>1, <2>2
  <1>4. LET b == [last |-> rs[k], rest |-> 0, sent |-> Blank.sent + k, shown |-> Blank.shown]
        IN  b \in Log /\ Leads("other", Sends(rs), Blank, b)
    BY <1>1, <1>2, <1>3, RunLeads
  <1> QED
    BY <1>4

LEMMA ShortReports ==
    /\ Short(Finish)
    /\ \A arg \in Nat : Short(Info(arg)) /\ Info(arg).cmd = "info"
    /\ Short(Report("clock", 0)) /\ Short(Report("date", 0))
    /\ \A arg \in Nat : Info(arg) # Finish
    /\ \A arg, oth \in Nat : Info(arg) = Info(oth) => arg = oth
    /\ \A arg \in Nat : Info(arg) \notin {Report("clock", 0), Report("date", 0)}
    /\ Finish \notin {Report("clock", 0), Report("date", 0)}
  <1>1. \A r : RestAfter(r) = 0 => Needed("other", r) = 0
    BY DEF Needed
  <1>2. \A arg \in Nat : Short(Info(arg))
    BY <1>1, SmallReports, RestTable DEF Short, Info
  <1>3. Short(Report("clock", 0)) /\ Short(Report("date", 0)) /\ Short(Finish)
    BY <1>1, SmallReports, RestTable DEF Short
  <1>4. /\ \A arg \in Nat : Info(arg) # Finish
        /\ \A arg, oth \in Nat : Info(arg) = Info(oth) => arg = oth
        /\ \A arg \in Nat : Info(arg) \notin {Report("clock", 0), Report("date", 0)}
        /\ Finish \notin {Report("clock", 0), Report("date", 0)}
    BY SmallReports DEF Info
  <1> QED
    BY <1>2, <1>3, <1>4 DEF Info, Report

LEMMA SetTimeLeads ==
    \E rs \in Seq(ReportType) :
        /\ SetTimeProgram = Sends(rs) /\ Len(rs) # 0 /\ rs[1].cmd = "info"
        /\ \E b \in Log : Leads("other", SetTimeProgram, Blank, b)
  <1> DEFINE rs == <<Info(9), Report("clock", 0), Finish, Info(10), Report("date", 0), Finish>>
  <1>1. /\ Short(Info(9)) /\ Short(Info(10)) /\ Short(Finish)
        /\ Short(Report("clock", 0)) /\ Short(Report("date", 0))
        /\ Info(9) # Finish /\ Info(10) # Finish
        /\ Info(9) # Report("clock", 0) /\ Info(10) # Report("date", 0)
        /\ Finish # Report("clock", 0) /\ Finish # Report("date", 0)
        /\ Info(9).cmd = "info"
    BY ShortReports
  <1>2. rs \in Seq(ReportType) /\ Len(rs) = 6
    BY <1>1 DEF Short
  <1>3. /\ rs[1] = Info(9) /\ rs[2] = Report("clock", 0) /\ rs[3] = Finish
        /\ rs[4] = Info(10) /\ rs[5] = Report("date", 0) /\ rs[6] = Finish
    OBVIOUS
  <1> HIDE DEF rs
  <1>4. \A i \in 1..6 : i = 1 \/ i = 2 \/ i = 3 \/ i = 4 \/ i = 5 \/ i = 6
    OBVIOUS
  <1>5. \A i \in 1..6 : Short(rs[i])
    BY <1>1, <1>3, <1>4
  <1>6. \A i \in 1..(6 - 1) : rs[i + 1] # rs[i]
    <2>1. \A i \in 1..(6 - 1) : i = 1 \/ i = 2 \/ i = 3 \/ i = 4 \/ i = 5
      OBVIOUS
    <2>2. 1 + 1 = 2 /\ 2 + 1 = 3 /\ 3 + 1 = 4 /\ 4 + 1 = 5 /\ 5 + 1 = 6
      OBVIOUS
    <2> QED
      BY <1>1, <1>3, <2>1, <2>2
  <1>7. rs[1] # rs[6] /\ 6 \in Nat \ {0} /\ 3 \in Nat
    BY <1>1, <1>3
  <1>8. /\ Repeat(rs, 3) \in Seq(ReportType)
        /\ \E b \in Log : Leads("other", Sends(Repeat(rs, 3)), Blank, b)
        /\ Len(Repeat(rs, 3)) # 0 /\ Repeat(rs, 3)[1] = rs[1]
    BY <1>2, <1>5, <1>6, <1>7, RepeatLeads
  <1>9. SetTimeProgram = Sends(Repeat(rs, 3))
    BY DEF SetTimeProgram, rs
  <1> QED
    BY <1>1, <1>3, <1>8, <1>9

LEMMA ClearPictureLeads ==
    ASSUME NEW n \in Nat \ {0}
    PROVE  \E rs \in Seq(ReportType) :
              /\ ClearPictureProgram(n) = Sends(rs) /\ Len(rs) # 0 /\ rs[1].cmd = "info"
              /\ \E b \in Log : Leads("other", ClearPictureProgram(n), Blank, b)
  <1> DEFINE rs == <<Info(14), Finish>>
  <1>1. Short(Info(14)) /\ Short(Finish) /\ Info(14) # Finish /\ Info(14).cmd = "info"
    BY ShortReports
  <1>2. rs \in Seq(ReportType) /\ Len(rs) = 2 /\ rs[1] = Info(14) /\ rs[2] = Finish
    BY <1>1 DEF Short
  <1> HIDE DEF rs
  <1>3. \A i \in 1..2 : Short(rs[i])
    <2>1. \A i \in 1..2 : i = 1 \/ i = 2
      OBVIOUS
    <2> QED
      BY <1>1, <1>2, <2>1
  <1>4. \A i \in 1..(2 - 1) : rs[i + 1] # rs[i]
    <2>1. \A i \in 1..(2 - 1) : i = 1 /\ i + 1 = 2
      OBVIOUS
    <2> QED
      BY <1>1, <1>2, <2>1
  <1>5. rs[1] # rs[2] /\ 2 \in Nat \ {0}
    BY <1>1, <1>2
  <1>6. /\ Repeat(rs, n) \in Seq(ReportType)
        /\ \E b \in Log : Leads("other", Sends(Repeat(rs, n)), Blank, b)
        /\ Len(Repeat(rs, n)) # 0 /\ Repeat(rs, n)[1] = rs[1]
    BY <1>2, <1>3, <1>4, <1>5, RepeatLeads
  <1>7. ClearPictureProgram(n) = Sends(Repeat(rs, n))
    BY DEF ClearPictureProgram, rs
  <1> QED
    BY <1>1, <1>2, <1>6, <1>7

LEMMA ClearGifLeads ==
    \E rs \in Seq(ReportType) :
        /\ ClearGifProgram = Sends(rs) /\ Len(rs) # 0 /\ rs[1].cmd = "info"
        /\ \E b \in Log : Leads("other", ClearGifProgram, Blank, b)
  <1> DEFINE rs == <<Info(18), Finish, Info(19), Finish>>
  <1>1. /\ Short(Info(18)) /\ Short(Info(19)) /\ Short(Finish)
        /\ Info(18) # Finish /\ Info(19) # Finish /\ Info(18).cmd = "info"
    BY ShortReports
  <1>2. /\ rs \in Seq(ReportType) /\ Len(rs) = 4 /\ rs[1] = Info(18) /\ rs[2] = Finish
        /\ rs[3] = Info(19) /\ rs[4] = Finish
    BY <1>1 DEF Short
  <1> HIDE DEF rs
  <1>3. \A i \in 1..4 : Short(rs[i])
    <2>1. \A i \in 1..4 : i = 1 \/ i = 2 \/ i = 3 \/ i = 4
      OBVIOUS
    <2> QED
      BY <1>1, <1>2, <2>1
  <1>4. \A i \in 1..(4 - 1) : rs[i + 1] # rs[i]
    <2>1. \A i \in 1..(4 - 1) : (i = 1 /\ i + 1 = 2) \/ (i = 2 /\ i + 1 = 3)
                                \/ (i = 3 /\ i + 1 = 4)
      OBVIOUS
    <2> QED
      BY <1>1, <1>2, <2>1
  <1>5. \E b \in Log : Leads("other", Sends(rs), Blank, b)
    <2>1. 4 \in Nat \ {0}
      OBVIOUS
    <2> QED
      BY <1>2, <1>3, <1>4, <2>1, ListLeads
  <1>6. ClearGifProgram = Sends(rs)
    BY DEF ClearGifProgram, rs
  <1> QED
    BY <1>1, <1>2, <1>5, <1>6

LEMMA SwitchPageLeads ==
    ASSUME NEW page \in Nat
    PROVE  \E rs \in Seq(ReportType) :
              /\ SwitchPageProgram(page) = Sends(rs) /\ Len(rs) # 0 /\ rs[1].cmd = "info"
              /\ \E b \in Log : Leads("other", SwitchPageProgram(page), Blank, b)
  <1> DEFINE rs == <<Info(page), Finish>>
  <1>1. Short(Info(page)) /\ Short(Finish) /\ Info(page) # Finish /\ Info(page).cmd = "info"
    BY ShortReports
  <1>2. rs \in Seq(ReportType) /\ Len(rs) = 2 /\ rs[1] = Info(page) /\ rs[2] = Finish
    BY <1>1 DEF Short
  <1> HIDE DEF rs
  <1>3. \A i \in 1..2 : Short(rs[i])
    <2>1. \A i \in 1..2 : i = 1 \/ i = 2
      OBVIOUS
    <2> QED
      BY <1>1, <1>2, <2>1
  <1>4. \A i \in 1..(2 - 1) : rs[i + 1] # rs[i]
    <2>1. \A i \in 1..(2 - 1) : i = 1 /\ i + 1 = 2
      OBVIOUS
    <2> QED
      BY <1>1, <1>2, <2>1
  <1>5. \E b \in Log : Leads("other", Sends(rs), Blank, b)
    <2>1. 2 \in Nat \ {0}
      OBVIOUS
    <2> QED
      BY <1>2, <1>3, <1>4, <2>1, ListLeads
  <1>6. SwitchPageProgram(page) = Sends(rs)
    BY DEF SwitchPageProgram, rs
  <1> QED
    BY <1>1, <1>2, <1>5, <1>6

================================================================================
