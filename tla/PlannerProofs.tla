------------------------------ MODULE PlannerProofs ------------------------------
(***************************************************************************)
(* Proofs about Planner, for files of every length with any delays, for    *)
(* every limit a user may ask for and every range of rates.                *)
(***************************************************************************)
EXTENDS Planner, LayoutProofs, FiniteSetTheorems

(***************************************************************************)
(* The two folds over a file, frame by frame.                              *)
(***************************************************************************)
TallyType == [count : Nat, first : Nat, all_equal : BOOLEAN, total : Nat]

LEMMA TalliedStep ==
    ASSUME NEW delays \in Seq(Nat)
    PROVE  \E t \in [0..Len(delays) -> TallyType] :
              /\ t[0] = NoTally /\ t[Len(delays)] = Tally(delays)
              /\ \A k \in 1..Len(delays) : t[k] = Tallied(t[k - 1], delays[k])
  <1> DEFINE n == Len(delays)
             grow == [p \in (1..n) \X TallyType |-> Tallied(p[2], delays[p[1]])]
             Iter(g) == g = [s \in SUBSET (DOMAIN delays) |->
                                IF s = {} THEN NoTally
                                ELSE Tallied(g[s \ {Max(s)}], delays[Max(s)])]
  <1>1. n \in Nat /\ DOMAIN delays = 1..n /\ \A i \in 1..n : delays[i] \in Nat
    OBVIOUS
  <1>2. NoTally \in TallyType
    BY DEF NoTally, TallyType
  <1>3. \A t \in TallyType, d \in Nat : Tallied(t, d) \in TallyType
    BY DEF Tallied, TallyType
  <1>4. grow \in [(1..n) \X TallyType -> TallyType]
    BY <1>1, <1>3
  <1>5. PICK g \in [SUBSET (1..n) -> TallyType] : Folds(g, n, NoTally, grow)
    <2> HIDE DEF grow, n
    <2> QED
      BY <1>1, <1>2, <1>4, FoldExists
  <1>6. Iter(g)
    <2>1. ASSUME NEW s \in SUBSET (1..n), s # {}
          PROVE  g[s] = Tallied(g[s \ {Max(s)}], delays[Max(s)])
      <3>1. Max(s) \in 1..n /\ s \ {Max(s)} \in SUBSET (1..n)
        <4>1. s \in SUBSET (0..n)
          OBVIOUS
        <4>2. Max(s) \in s
          BY <1>1, <2>1, <4>1, LargestNumber
        <4> QED
          BY <4>2
      <3>2. g[s] = grow[<<Max(s), g[s \ {Max(s)}]>>] /\ g[s \ {Max(s)}] \in TallyType
        BY <1>5, <2>1, <3>1 DEF Folds
      <3> QED
        BY <3>1, <3>2
    <2>2. g[{}] = NoTally
      BY <1>5 DEF Folds
    <2>3. ASSUME NEW s \in SUBSET (1..n)
          PROVE  g[s] = IF s = {} THEN NoTally ELSE Tallied(g[s \ {Max(s)}], delays[Max(s)])
      BY <2>1, <2>2
    <2> QED
      BY <1>1, <1>5, <2>3
  <1> DEFINE f == CHOOSE h : Iter(h)
             t == [k \in 0..n |-> f[1..k]]
  <1>7. Iter(f)
    <2> HIDE DEF Iter
    <2> QED
      BY <1>6
  <1>8. ASSUME NEW k \in 1..n
        PROVE  t[k] = Tallied(t[k - 1], delays[k])
    <2>1. k \in Nat \ {0} /\ 1..k \in SUBSET (1..n) /\ k \in 1..k /\ k - 1 \in 0..n /\ k \in 0..n
      OBVIOUS
    <2>2. Max(1..k) = k /\ (1..k) \ {k} = 1..(k - 1)
      BY <2>1, LastOfInterval
    <2>3. f[1..k] = Tallied(f[1..(k - 1)], delays[k])
      BY <1>1, <1>7, <2>1, <2>2
    <2> HIDE DEF f
    <2> QED
      BY <2>1, <2>3
  <1>9. t[0] = NoTally
    <2>1. 1..0 = {} /\ {} \in SUBSET (1..n) /\ 0 \in 0..n
      OBVIOUS
    <2>2. f[{}] = NoTally
      BY <1>1, <1>7, <2>1
    <2> HIDE DEF f
    <2> QED
      BY <2>1, <2>2
  <1>10. t[n] = Tally(delays)
    <2>1. Tally(delays) = f[1..n]
      BY <1>1 DEF Tally, FoldLeft, MapThenFoldSet
    <2>2. n \in 0..n
      BY <1>1
    <2> HIDE DEF f, n
    <2> QED
      BY <2>1, <2>2
  <1>11. t \in [0..n -> TallyType]
    <2> DEFINE Good == {k \in 0..n : t[k] \in TallyType}
    <2>1. 0 \in Good
      BY <1>2, <1>9
    <2>2. ASSUME NEW k \in 0..(n - 1), k \in Good PROVE k + 1 \in Good
      <3>1. k + 1 \in 1..n /\ (k + 1) - 1 = k
        OBVIOUS
      <3>2. t[k + 1] = Tallied(t[k], delays[k + 1])
        BY <1>8, <3>1
      <3> HIDE DEF t
      <3> QED
        BY <1>1, <1>3, <2>2, <3>1, <3>2
    <2>3. 0..n \subseteq Good
      <3> HIDE DEF Good
      <3> QED
        BY <1>1, <2>1, <2>2, Upwards
    <2> QED
      BY <2>3
  <1> HIDE DEF t
  <1> QED
    BY <1>8, <1>9, <1>10, <1>11

\* What the tally says of the delays.
LEMMA TallyFacts ==
    ASSUME NEW delays \in Seq(Nat), delays # <<>>
    PROVE  /\ Tally(delays).first = delays[1]
           /\ Tally(delays).all_equal <=> \A i \in 1..Len(delays) : delays[i] = delays[1]
           /\ Tally(delays).all_equal \in BOOLEAN
  <1> DEFINE n == Len(delays)
  <1>1. n \in Nat \ {0} /\ \A i \in 1..n : delays[i] \in Nat
    OBVIOUS
  <1>2. PICK t \in [0..n -> TallyType] :
              /\ t[0] = NoTally /\ t[n] = Tally(delays)
              /\ \A k \in 1..n : t[k] = Tallied(t[k - 1], delays[k])
    BY TalliedStep
  <1> DEFINE Good == {k \in 0..n :
                        /\ t[k].count = k
                        /\ k > 0 => t[k].first = delays[1]
                        /\ t[k].all_equal <=> \A i \in 1..k : delays[i] = delays[1]}
  <1> HIDE DEF n
  <1>3. 0 \in Good
    BY <1>1, <1>2 DEF NoTally
  <1>4. ASSUME NEW k \in 0..(n - 1), k \in Good PROVE k + 1 \in Good
    <2>1. k + 1 \in 1..n /\ (k + 1) - 1 = k /\ k \in 0..n /\ k + 1 \in 0..n /\ k \in Nat
      BY <1>1
    <2>2. t[k + 1] = Tallied(t[k], delays[k + 1]) /\ t[k] \in TallyType
      BY <1>2, <2>1
    <2>3. t[k].count = k /\ (k > 0 => t[k].first = delays[1])
          /\ (t[k].all_equal <=> \A i \in 1..k : delays[i] = delays[1])
      BY <1>4
    <2>4. t[k + 1].count = k + 1 /\ t[k + 1].first = delays[1]
      BY <2>1, <2>2, <2>3 DEF Tallied
    <2>5. t[k + 1].all_equal <=> t[k].all_equal /\ (k > 0 => delays[k + 1] = delays[1])
      <3>1. t[k + 1].all_equal = (t[k].all_equal /\ (t[k].count > 0 => delays[k + 1] = t[k].first))
        BY <2>2 DEF Tallied
      <3> QED
        BY <2>1, <2>3, <3>1
    <2>6. (\A i \in 1..(k + 1) : delays[i] = delays[1])
            <=> (\A i \in 1..k : delays[i] = delays[1]) /\ (k > 0 => delays[k + 1] = delays[1])
      <3>1. 1..(k + 1) = (1..k) \cup {k + 1}
        BY <2>1
      <3>2. k = 0 => k + 1 = 1
        OBVIOUS
      <3>3. CASE k = 0
        BY <3>1, <3>3, <2>1
      <3>4. CASE k > 0
        BY <3>1, <3>4
      <3> QED
        BY <3>3, <3>4, <2>1
    <2> QED
      BY <2>1, <2>3, <2>4, <2>5, <2>6
  <1>5. n \in Good
    <2>1. n \in Nat /\ n \in 0..n
      BY <1>1
    <2>2. 0..n \subseteq Good
      <3> HIDE DEF Good
      <3> QED
        BY <1>3, <1>4, <2>1, Upwards
    <2> HIDE DEF Good
    <2> QED
      BY <2>1, <2>2
  <1>6. t[n] \in TallyType
    BY <1>1, <1>2
  <1> QED
    BY <1>1, <1>2, <1>5, <1>6 DEF n, TallyType

Increasing(s) == \A i, j \in 1..Len(s) : i < j => s[i] < s[j]

LEMMA EncodedStep ==
    ASSUME NEW delays \in Seq(Nat), NEW chosen \in Seq(Nat)
    PROVE  \E t \in [0..Len(delays) -> Seq(Nat)] :
              /\ t[0] = <<>> /\ t[Len(delays)] = Encoded(delays, chosen)
              /\ \A k \in 1..Len(delays) :
                    t[k] = IF k - 1 \in ToSet(chosen) THEN Append(t[k - 1], k - 1) ELSE t[k - 1]
  <1> DEFINE n == Len(delays)
             push(sent, i) == IF i - 1 \in ToSet(chosen) THEN Append(sent, i - 1) ELSE sent
             grow == [p \in (1..n) \X Seq(Nat) |-> push(p[2], p[1])]
             at == [i \in DOMAIN delays |-> i]
             Iter(g) == g = [s \in SUBSET (DOMAIN at) |->
                                IF s = {} THEN <<>> ELSE push(g[s \ {Max(s)}], at[Max(s)])]
  <1>1. n \in Nat /\ DOMAIN at = 1..n /\ \A i \in 1..n : at[i] = i
    OBVIOUS
  <1>2. <<>> \in Seq(Nat)
    OBVIOUS
  <1>3. \A t \in Seq(Nat), i \in 1..n : push(t, i) \in Seq(Nat)
    OBVIOUS
  <1>4. grow \in [(1..n) \X Seq(Nat) -> Seq(Nat)]
    <2> HIDE DEF push
    <2> QED
      BY <1>1, <1>3
  <1>5. PICK g \in [SUBSET (1..n) -> Seq(Nat)] : Folds(g, n, <<>>, grow)
    <2> HIDE DEF grow, n
    <2> QED
      BY <1>1, <1>2, <1>4, FoldExists
  <1>6. Iter(g)
    <2> HIDE DEF push
    <2>1. ASSUME NEW s \in SUBSET (1..n), s # {}
          PROVE  /\ Max(s) \in 1..n
                 /\ g[s] = push(g[s \ {Max(s)}], Max(s))
      <3>1. Max(s) \in 1..n /\ s \ {Max(s)} \in SUBSET (1..n)
        <4>1. s \in SUBSET (0..n)
          OBVIOUS
        <4>2. Max(s) \in s
          BY <1>1, <2>1, <4>1, LargestNumber
        <4> QED
          BY <4>2
      <3>2. g[s] = grow[<<Max(s), g[s \ {Max(s)}]>>] /\ g[s \ {Max(s)}] \in Seq(Nat)
        BY <1>5, <2>1, <3>1 DEF Folds
      <3> QED
        BY <3>1, <3>2
    <2>2. g[{}] = <<>>
      BY <1>5 DEF Folds
    <2>3. ASSUME NEW s \in SUBSET (1..n)
          PROVE  g[s] = IF s = {} THEN <<>> ELSE push(g[s \ {Max(s)}], at[Max(s)])
      <3> HIDE DEF at
      <3> QED
        BY <1>1, <2>1, <2>2
    <2> QED
      BY <1>1, <1>5, <2>3
  <1> DEFINE f == CHOOSE h : Iter(h)
             t == [k \in 0..n |-> f[1..k]]
  <1>7. Iter(f)
    <2> HIDE DEF Iter
    <2> QED
      BY <1>6
  <1>8. ASSUME NEW k \in 1..n
        PROVE  t[k] = push(t[k - 1], k)
    <2>1. k \in Nat \ {0} /\ 1..k \in SUBSET (1..n) /\ k \in 1..k /\ k - 1 \in 0..n /\ k \in 0..n
      OBVIOUS
    <2>2. Max(1..k) = k /\ (1..k) \ {k} = 1..(k - 1)
      BY <2>1, LastOfInterval
    <2>3. f[1..k] = push(f[1..(k - 1)], k)
      <3>1. at[Max(1..k)] = k /\ 1..k # {} /\ 1..k \in SUBSET (DOMAIN at)
        BY <1>1, <2>1, <2>2
      <3>2. f[1..k] = push(f[(1..k) \ {Max(1..k)}], at[Max(1..k)])
        <4> HIDE DEF f, push, at
        <4> QED
          BY <1>7, <3>1
      <3> HIDE DEF f, push, at
      <3> QED
        BY <2>2, <3>1, <3>2
    <2> HIDE DEF f, push
    <2> QED
      BY <2>1, <2>3
  <1>9. t[0] = <<>>
    <2>1. 1..0 = {} /\ {} \in SUBSET (1..n) /\ 0 \in 0..n
      OBVIOUS
    <2>2. f[{}] = <<>>
      <3> HIDE DEF f, push, at
      <3> QED
        BY <1>1, <1>7, <2>1
    <2> HIDE DEF f
    <2> QED
      BY <2>1, <2>2
  <1>10. t[n] = Encoded(delays, chosen)
    <2>1. Encoded(delays, chosen) = f[1..n]
      BY <1>1 DEF Encoded, FoldLeftDomain, FoldLeft, MapThenFoldSet
    <2>2. n \in 0..n
      BY <1>1
    <2> HIDE DEF f, n
    <2> QED
      BY <2>1, <2>2
  <1>11. t \in [0..n -> Seq(Nat)]
    <2> DEFINE Good == {k \in 0..n : t[k] \in Seq(Nat)}
    <2>0. n \in Nat /\ t = [k \in 0..n |-> t[k]]
      BY <1>1
    <2> HIDE DEF t, push, n
    <2>1. 0 \in Good
      <3>1. 0 \in 0..n
        BY <2>0
      <3>2. t[0] \in Seq(Nat)
        BY <1>2, <1>9
      <3> QED
        BY <3>1, <3>2
    <2>2. ASSUME NEW k \in 0..(n - 1), k \in Good PROVE k + 1 \in Good
      <3>1. k + 1 \in 1..n /\ (k + 1) - 1 = k
        BY <2>0
      <3>2. t[k + 1] = push(t[k], k + 1)
        BY <1>8, <3>1
      <3> QED
        BY <1>1, <1>3, <2>2, <3>1, <3>2
    <2>3. 0..n \subseteq Good
      <3> HIDE DEF Good
      <3> QED
        BY <1>1, <2>1, <2>2, Upwards
    <2> QED
      BY <2>0, <2>3
  <1> HIDE DEF t
  <1> QED
    BY <1>8, <1>9, <1>10, <1>11

\* One more of the chosen is the prefix one longer.
LEMMA NextOfPrefix ==
    ASSUME NEW s \in Seq(Nat), NEW c \in 0..(Len(s) - 1)
    PROVE  /\ SubSeq(s, 1, c) \in Seq(Nat)
           /\ Append(SubSeq(s, 1, c), s[c + 1]) = SubSeq(s, 1, c + 1)
  <1>1. c + 1 \in 1..Len(s) /\ Len(s) \in Nat /\ 1 \in 1..Len(s) /\ c + 1 \in 1..Len(s)
    OBVIOUS
  <1>2. SubSeq(s, 1, c + 1) = SubSeq(s, 1, (c + 1) - 1) \o <<s[c + 1]>>
    BY <1>1, SubSeqRecursiveSecond
  <1>3. (c + 1) - 1 = c /\ s[c + 1] \in Nat
    BY <1>1
  <1>4. SubSeq(s, 1, c) \in Seq(Nat)
    <2>1. \A i \in 1..c : s[i] \in Nat
      BY <1>1
    <2> QED
      BY <2>1, SubSeqProperties
  <1>5. Append(SubSeq(s, 1, c), s[c + 1]) = SubSeq(s, 1, c) \o <<s[c + 1]>>
    BY <1>3, <1>4, AppendIsConcat
  <1> QED
    BY <1>2, <1>3, <1>4, <1>5

(***************************************************************************)
(* The second pass encodes a prefix of what was chosen: those that the     *)
(* file, however long it now is, still has.                                *)
(***************************************************************************)
LEMMA EncodedIsPrefix ==
    ASSUME NEW delays \in Seq(Nat), NEW chosen \in Seq(Nat), Increasing(chosen)
    PROVE  \E c \in 0..Len(chosen) :
              /\ Encoded(delays, chosen) = SubSeq(chosen, 1, c)
              /\ \A j \in 1..Len(chosen) : j <= c <=> chosen[j] < Len(delays)
  <1> DEFINE n == Len(delays)
             UpTo(k, c) == \A j \in 1..Len(chosen) : j <= c <=> chosen[j] < k
  <1>1. n \in Nat /\ Len(chosen) \in Nat /\ DOMAIN chosen = 1..Len(chosen)
        /\ \A j \in 1..Len(chosen) : chosen[j] \in Nat
    OBVIOUS
  <1>2. PICK t \in [0..n -> Seq(Nat)] :
              /\ t[0] = <<>> /\ t[n] = Encoded(delays, chosen)
              /\ \A k \in 1..n :
                    t[k] = IF k - 1 \in ToSet(chosen) THEN Append(t[k - 1], k - 1) ELSE t[k - 1]
    BY EncodedStep
  <1> HIDE DEF n
  <1> DEFINE Good == {k \in 0..n : \E c \in 0..Len(chosen) :
                                      t[k] = SubSeq(chosen, 1, c) /\ UpTo(k, c)}
  <1>3. 0 \in Good
    <2>1. SubSeq(chosen, 1, 0) = <<>>
      BY SubSeqEmpty
    <2>2. UpTo(0, 0) /\ 0 \in 0..n /\ 0 \in 0..Len(chosen)
      BY <1>1
    <2> QED
      BY <1>2, <2>1, <2>2
  <1>4. ASSUME NEW k \in 0..(n - 1), k \in Good PROVE k + 1 \in Good
    <2>1. k + 1 \in 1..n /\ (k + 1) - 1 = k /\ k \in Nat /\ k + 1 \in 0..n
      BY <1>1
    <2>2. PICK c \in 0..Len(chosen) : t[k] = SubSeq(chosen, 1, c) /\ UpTo(k, c)
      BY <1>4
    <2>3. t[k + 1] = IF k \in ToSet(chosen) THEN Append(t[k], k) ELSE t[k]
      BY <1>2, <2>1
    <2>4. CASE k \in ToSet(chosen)
      <3>1. PICK j \in 1..Len(chosen) : chosen[j] = k
        BY <1>1, <2>4 DEF ToSet
      <3>2. j > c
        BY <1>1, <2>1, <2>2, <3>1
      <3>3. j = c + 1
        <4>1. CASE c + 1 < j
          <5>1. c + 1 \in 1..Len(chosen) /\ chosen[c + 1] < chosen[j]
            BY <1>1, <4>1, <3>1 DEF Increasing
          <5>2. ~ (chosen[c + 1] < k)
            BY <1>1, <2>2, <5>1
          <5> QED
            BY <1>1, <2>1, <3>1, <5>1, <5>2
        <4> QED
          BY <1>1, <3>1, <3>2, <4>1
      <3>4. c \in 0..(Len(chosen) - 1) /\ c + 1 \in 0..Len(chosen)
        BY <1>1, <3>1, <3>3
      <3>5. t[k + 1] = SubSeq(chosen, 1, c + 1)
        BY <2>2, <2>3, <2>4, <3>1, <3>3, <3>4, NextOfPrefix
      <3>6. UpTo(k + 1, c + 1)
        <4>1. SUFFICES ASSUME NEW i \in 1..Len(chosen)
                       PROVE  i <= c + 1 <=> chosen[i] < k + 1
          OBVIOUS
        <4>2. i <= c <=> chosen[i] < k
          BY <2>2
        <4>3. i > c + 1 => chosen[i] > k
          BY <3>1, <3>3, <1>1 DEF Increasing
        <4> QED
          BY <1>1, <2>1, <3>1, <3>3, <4>2, <4>3
      <3> QED
        BY <2>1, <3>4, <3>5, <3>6
    <2>5. CASE k \notin ToSet(chosen)
      <3>1. \A j \in 1..Len(chosen) : chosen[j] # k
        BY <1>1, <2>5 DEF ToSet
      <3>2. UpTo(k + 1, c)
        BY <1>1, <2>1, <2>2, <3>1
      <3> QED
        BY <2>1, <2>2, <2>3, <2>5, <3>2
    <2> QED
      BY <2>4, <2>5
  <1>5. n \in Good
    <2>1. n \in Nat /\ n \in 0..n
      BY <1>1
    <2>2. 0..n \subseteq Good
      <3> HIDE DEF Good
      <3> QED
        BY <1>3, <1>4, <2>1, Upwards
    <2> HIDE DEF Good
    <2> QED
      BY <2>1, <2>2
  <1> QED
    BY <1>2, <1>5 DEF n

--------------------------------------------------------------------------------
(***************************************************************************)
(* Which frames: rounding leaves gaps that differ by at most one.          *)
(***************************************************************************)
LEMMA Rounded ==
    ASSUME NEW a \in Nat, NEW b \in Nat \ {0}
    PROVE  /\ RoundDiv(a, b) \in Nat
           /\ 2 * (b * RoundDiv(a, b)) <= 2 * a + b
           /\ 2 * a + b < 2 * (b * RoundDiv(a, b)) + 2 * b
  <1> DEFINE r == RoundDiv(a, b)
             e == 2 * a + b
             c == 2 * b
  <1>1. e \in Nat /\ c \in Nat \ {0}
    OBVIOUS
  <1>2. r = e \div c
    BY DEF RoundDiv
  <1>3. r \in Int /\ r >= 0 /\ c * r <= e /\ e < c * r + c
    <2> HIDE DEF r, e, c
    <2> QED
      BY <1>1, <1>2, Quotient
  <1> HIDE DEF r
  <1>4. (2 * b) * r = 2 * (b * r)
    BY <1>3
  <1> QED
    BY <1>3, <1>4 DEF r

LEMMA RoundedGap ==
    ASSUME NEW a \in Nat, NEW m \in Nat, NEW d \in Nat \ {0}
    PROVE  RoundDiv(a + m, d) - RoundDiv(a, d) \in {m \div d, m \div d + 1}
  <1> DEFINE r == RoundDiv(a, d)
             s == RoundDiv(a + m, d)
             q == m \div d
  <1>1. r \in Nat /\ 2 * (d * r) <= 2 * a + d /\ 2 * a + d < 2 * (d * r) + 2 * d
    BY Rounded
  <1>2. s \in Nat /\ 2 * (d * s) <= 2 * (a + m) + d /\ 2 * (a + m) + d < 2 * (d * s) + 2 * d
    <2>1. a + m \in Nat
      OBVIOUS
    <2> QED
      BY <2>1, Rounded
  <1>3. q \in Int /\ d * q <= m /\ m < d * q + d
    BY Quotient
  <1> HIDE DEF r, s, q
  <1>4. d * s < d * (r + q + 2)
    <2>1. d * (r + q + 2) = d * r + d * q + 2 * d
      BY <1>1, <1>2, <1>3
    <2> QED
      BY <1>1, <1>2, <1>3, <2>1
  <1>5. d * (r + q - 1) < d * s
    <2>1. d * (r + q - 1) = d * r + d * q - d
      BY <1>1, <1>2, <1>3
    <2> QED
      BY <1>1, <1>2, <1>3, <2>1
  <1>6. s < r + q + 2 /\ r + q - 1 < s
    BY <1>1, <1>2, <1>3, <1>4, <1>5, Factors
  <1>7. s - r \in {q, q + 1}
    BY <1>1, <1>2, <1>3, <1>6
  <1> QED
    BY <1>7 DEF r, s, q

LEMMA RoundedApart ==
    ASSUME NEW x \in Nat, NEW y \in Nat, NEW d \in Nat \ {0}, x + d <= y
    PROVE  RoundDiv(x, d) < RoundDiv(y, d)
  <1> DEFINE r == RoundDiv(x, d)
             s == RoundDiv(y, d)
  <1>1. r \in Nat /\ 2 * (d * r) <= 2 * x + d
    BY Rounded
  <1>2. s \in Nat /\ 2 * y + d < 2 * (d * s) + 2 * d
    BY Rounded
  <1> HIDE DEF r, s
  <1>3. d * r < d * s
    BY <1>1, <1>2
  <1> QED
    BY <1>1, <1>2, <1>3, Factors DEF r, s

LEMMA RoundedExactly ==
    ASSUME NEW m \in Nat, NEW d \in Nat \ {0}
    PROVE  RoundDiv(0, d) = 0 /\ RoundDiv(d * m, d) = m
  <1> DEFINE r == RoundDiv(d * m, d)
  <1>1. d * m \in Nat
    OBVIOUS
  <1>2. r \in Nat /\ 2 * (d * r) <= 2 * (d * m) + d /\ 2 * (d * m) + d < 2 * (d * r) + 2 * d
    BY <1>1, Rounded
  <1>3. RoundDiv(0, d) \in Nat /\ 2 * (d * RoundDiv(0, d)) <= 2 * 0 + d
    BY Rounded
  <1>4. RoundDiv(0, d) = 0
    <2> DEFINE z == RoundDiv(0, d)
    <2> HIDE DEF z
    <2>1. z \in Nat /\ d * z < d * 1
      BY <1>3 DEF z
    <2>2. z < 1
      BY <2>1, Factors
    <2> QED
      BY <2>1, <2>2 DEF z
  <1> HIDE DEF r
  <1>5. r <= m /\ m <= r
    <2>1. d * r < d * m + d /\ d * m < d * r + d
      BY <1>1, <1>2
    <2> QED
      BY <1>2, <2>1, Factors
  <1> QED
    BY <1>2, <1>4, <1>5 DEF r

\* The gaps of s are of one length, or of it and the next.
EvenGaps(s) ==
    \E q \in Nat \ {0} : \A i \in 1..(Len(s) - 1) : s[i + 1] - s[i] \in {q, q + 1}

\* s is a choice from n frames, as SampleIsEven asks for it.
Chosen(s, n) ==
    /\ s \in Seq(Nat) /\ s # <<>> /\ Len(s) <= n
    /\ Increasing(s) /\ EvenGaps(s)
    /\ s[1] = 0 /\ (Len(s) > 1 => s[Len(s)] = n - 1)
    /\ \A i \in 1..Len(s) : s[i] < n

LEMMA SampleIsChosen ==
    ASSUME NEW n \in Nat, NEW limit \in Nat, n > limit, limit > 1
    PROVE  Chosen(Sample(n, limit), n) /\ Len(Sample(n, limit)) = limit
  <1> DEFINE s == Sample(n, limit)
             m == n - 1
             d == limit - 1
             r(i) == RoundDiv((i - 1) * m, d)
  <1>1. m \in Nat /\ d \in Nat \ {0} /\ d < m
    OBVIOUS
  <1>2. \A i \in 1..limit : (i - 1) * m \in Nat /\ r(i) \in Nat
    <2>1. ASSUME NEW i \in 1..limit PROVE (i - 1) * m \in Nat /\ r(i) \in Nat
      <3>1. (i - 1) * m \in Nat
        BY <1>1
      <3> HIDE DEF m, d
      <3> QED
        BY <1>1, <3>1, Rounded
    <2> QED
      BY <2>1
  <1>3. s = [i \in 1..limit |-> r(i)]
    BY DEF Sample
  <1> HIDE DEF s, r
  <1>4. s \in Seq(Nat) /\ Len(s) = limit /\ \A i \in 1..limit : s[i] = r(i)
    BY <1>2, <1>3
  <1>5. \A i, j \in 1..limit : i < j => r(i) < r(j)
    <2>1. SUFFICES ASSUME NEW i \in 1..limit, NEW j \in 1..limit, i < j PROVE r(i) < r(j)
      OBVIOUS
    <2>2. (i - 1) * m + d <= (j - 1) * m
      <3> HIDE DEF m, d
      <3>1. (i - 1) * m + m <= (j - 1) * m
        <4>1. (i - 1) * m + m = m * i /\ (j - 1) * m = m * (j - 1) /\ m \in Nat \ {0}
          BY <1>1
        <4> QED
          BY <4>1, <2>1, Factors
      <3> QED
        BY <1>1, <3>1
    <2>3. (i - 1) * m \in Nat /\ (j - 1) * m \in Nat
      BY <1>2
    <2> HIDE DEF m, d
    <2> QED
      BY <1>1, <2>2, <2>3, RoundedApart DEF r
  <1>6. \A i \in 1..(limit - 1) : r(i + 1) - r(i) \in {m \div d, m \div d + 1}
    <2>1. SUFFICES ASSUME NEW i \in 1..(limit - 1)
                   PROVE  r(i + 1) - r(i) \in {m \div d, m \div d + 1}
      OBVIOUS
    <2>2. (i - 1) * m \in Nat
      BY <1>2
    <2>3. ((i + 1) - 1) * m = (i - 1) * m + m
      BY <1>1
    <2> HIDE DEF m, d
    <2> QED
      BY <1>1, <2>2, <2>3, RoundedGap DEF r
  <1>7. m \div d \in Nat \ {0}
    <2> HIDE DEF m, d
    <2>1. m \div d \in Int /\ m < d * (m \div d) + d
      BY <1>1, Quotient
    <2>2. d * 1 < d * (m \div d) + d
      BY <1>1, <2>1
    <2>3. 1 <= m \div d
      BY <1>1, <2>1, <2>2, Factors
    <2> QED
      BY <2>1, <2>3
  <1>8. EvenGaps(s)
    <2>1. \A i \in 1..(Len(s) - 1) : s[i + 1] - s[i] \in {m \div d, m \div d + 1}
      <3> HIDE DEF m, d
      <3> QED
        BY <1>4, <1>6
    <2> HIDE DEF m, d
    <2> QED
      BY <1>7, <2>1 DEF EvenGaps
  <1>9. r(1) = 0 /\ r(limit) = n - 1
    <2>1. (1 - 1) * m = 0 /\ (limit - 1) * m = d * m
      BY <1>1
    <2>2. RoundDiv(0, d) = 0 /\ RoundDiv(d * m, d) = m
      <3> HIDE DEF m, d
      <3> QED
        BY <1>1, RoundedExactly
    <2> QED
      BY <2>1, <2>2 DEF r
  <1>10. \A i \in 1..limit : r(i) < n
    <2>1. SUFFICES ASSUME NEW i \in 1..limit PROVE r(i) < n
      OBVIOUS
    <2>2. i = limit \/ r(i) < r(limit)
      BY <1>5
    <2> QED
      BY <1>2, <1>9, <2>2
  <1>11. Increasing(s)
    BY <1>4, <1>5 DEF Increasing
  <1> QED
    BY <1>4, <1>8, <1>9, <1>10, <1>11 DEF Chosen, s

LEMMA SelectedIsChosen ==
    ASSUME NEW n \in Nat \ {0}, NEW max \in {None} \cup 1..MaxStored, ~Refused(n, max)
    PROVE  /\ Chosen(SelectFrames(n, max), n)
           /\ Len(SelectFrames(n, max)) <= MaxStored
  <1>1. MaxStored \in Nat /\ None = 0
    BY PlannerAssumption DEF PlannerAssumption, None
  <1>2. CASE max = None \/ n <= max
    <2>1. SelectFrames(n, max) = [i \in 1..n |-> i - 1]
      <3>1. ~ (n > max /\ max = 1) /\ ~ (n > max /\ max > 1)
        BY <1>1, <1>2
      <3> QED
        BY <1>2, <3>1 DEF SelectFrames
    <2>2. n <= MaxStored
      BY <1>1, <1>2 DEF Refused
    <2>3. Len([i \in 1..n |-> i - 1]) = n /\ [i \in 1..n |-> i - 1] \in Seq(Nat)
      OBVIOUS
    <2>4. \A i \in 1..(n - 1) : [j \in 1..n |-> j - 1][i + 1] - [j \in 1..n |-> j - 1][i] = 1
      OBVIOUS
    <2>5. EvenGaps([i \in 1..n |-> i - 1])
      BY <2>3, <2>4 DEF EvenGaps
    <2> QED
      BY <2>1, <2>2, <2>3, <2>5 DEF Chosen, Increasing
  <1>3. CASE max # None /\ n > max /\ max = 1
    <2>1. SelectFrames(n, max) = <<0>>
      BY <1>3 DEF SelectFrames
    <2>2. EvenGaps(<<0>>)
      <3>1. \A i \in 1..(Len(<<0>>) - 1) : <<0>>[i + 1] - <<0>>[i] \in {1, 1 + 1}
        OBVIOUS
      <3> QED
        BY <3>1 DEF EvenGaps
    <2>3. <<0>> \in Seq(Nat) /\ Len(<<0>>) = 1 /\ <<0>>[1] = 0 /\ <<0>> # <<>>
      OBVIOUS
    <2>4. Increasing(<<0>>)
      BY <2>3 DEF Increasing
    <2>5. Chosen(<<0>>, n)
      BY <2>2, <2>3, <2>4 DEF Chosen
    <2>6. 1 <= MaxStored
      BY <1>1, PlannerAssumption DEF PlannerAssumption
    <2> QED
      BY <2>1, <2>3, <2>5, <2>6
  <1>4. CASE max # None /\ n > max /\ max > 1
    <2>1. SelectFrames(n, max) = Sample(n, max)
      BY <1>4 DEF SelectFrames
    <2>2. max \in Nat /\ max <= MaxStored
      BY <1>1, <1>4
    <2> QED
      BY <1>4, <2>1, <2>2, SampleIsChosen
  <1> QED
    BY <1>1, <1>2, <1>3, <1>4

--------------------------------------------------------------------------------
(***************************************************************************)
(* The invariant: what is kept was chosen from what was counted, what is   *)
(* encoded is a prefix of it, all of it if the file was left alone, and    *)
(* the plan is the one Decide makes of the delays counted.                 *)
(***************************************************************************)
TheRate == IF asked.fps # None THEN asked.fps ELSE OrDefault(Tally(counted))

TheReason == IF asked.fps # None THEN "nothing" ELSE FallbackReason(Tally(counted))

KeepInv == keep # <<>> => Chosen(keep, Len(counted)) /\ Len(keep) <= MaxStored

WalkInv ==
    step \in {"walk", "decide", "planned"} =>
        keep # <<>> /\ (~swapped => counted = file.delays)

FramesInv ==
    step \in {"decide", "planned"} =>
        \E c \in 0..Len(keep) : frames = SubSeq(keep, 1, c) /\ (~swapped => c = Len(keep))

PlanInv == step = "planned" => plan.rate = TheRate /\ plan.why = TheReason

PlannerInv == TypeOK /\ KeepInv /\ WalkInv /\ FramesInv /\ PlanInv

LEMMA Limits ==
    /\ MaxStored \in Nat \ {0} /\ None = 0
    /\ FpsMin \in Nat \ {0} /\ FpsMax \in Nat /\ FpsDefault \in Nat
    /\ FpsMin <= FpsDefault /\ FpsDefault <= FpsMax
    /\ \A f \in Files : f.delays \in Seq(Nat)
    /\ \A a \in Asked : /\ a.fps \in {None} \cup FpsMin..FpsMax
                        /\ a.max \in {None} \cup 1..MaxStored
  BY PlannerAssumption DEF PlannerAssumption, None

\* The facts about a list of delays that Decide rests on.
LEMMA RateFacts ==
    ASSUME NEW delays \in Seq(Nat), delays # <<>>
    PROVE  LET t == Tally(delays) IN
           /\ FallbackReason(t) \in Reasons
           /\ OrDefault(t) \in FpsMin..FpsMax
           /\ FallbackReason(t) = "nothing" =>
                 /\ \A i \in 1..Len(delays) : delays[i] = t.first
                 /\ t.first \in Nat \ {0} /\ ~OutOfRange(t.first)
                 /\ OrDefault(t) = RoundDiv(1000, t.first)
           /\ FallbackReason(t) = "OutOfRange" =>
                 /\ \A i \in 1..Len(delays) : delays[i] = t.first
                 /\ t.first \in Nat \ {0} /\ OutOfRange(t.first)
           /\ FallbackReason(t) = "Unspecified" =>
                 \A i \in 1..Len(delays) : delays[i] = 0
           /\ FallbackReason(t) = "Variable" =>
                 \E i \in 1..Len(delays) : delays[i] # delays[1]
  <1> DEFINE t == Tally(delays)
  <1>1. /\ t.first = delays[1] /\ t.all_equal \in BOOLEAN
        /\ t.all_equal <=> \A i \in 1..Len(delays) : delays[i] = delays[1]
    BY TallyFacts
  <1>2. t.first \in Nat
    <2>1. 1 \in 1..Len(delays)
      OBVIOUS
    <2> HIDE DEF t
    <2> QED
      BY <1>1, <2>1
  <1> HIDE DEF t
  <1>3. CASE t.all_equal /\ t.first = 0
    <2>1. FallbackReason(t) = "Unspecified"
      BY <1>3 DEF FallbackReason
    <2>2. OrDefault(t) = FpsDefault
      BY <2>1 DEF OrDefault
    <2> QED
      BY <1>1, <1>3, <2>1, <2>2, Limits DEF t, Reasons
  <1>4. CASE t.all_equal /\ t.first > 0 /\ OutOfRange(t.first)
    <2>1. FallbackReason(t) = "OutOfRange"
      BY <1>2, <1>4 DEF FallbackReason
    <2>2. OrDefault(t) = FpsDefault
      BY <2>1 DEF OrDefault
    <2> QED
      BY <1>1, <1>2, <1>4, <2>1, <2>2, Limits DEF t, Reasons
  <1>5. CASE t.all_equal /\ t.first > 0 /\ ~OutOfRange(t.first)
    <2>1. FallbackReason(t) = "nothing"
      BY <1>2, <1>5 DEF FallbackReason
    <2>2. OrDefault(t) = RoundDiv(1000, t.first)
      BY <2>1 DEF OrDefault
    <2> DEFINE d == t.first
               r == RoundDiv(1000, d)
    <2>3. d \in Nat \ {0} /\ FpsMin * d <= 1000 /\ 1000 <= FpsMax * d
      <3>1. FpsMin * d \in Nat /\ FpsMax * d \in Nat
        BY <1>2, Limits
      <3> QED
        BY <1>2, <1>5, <3>1 DEF OutOfRange
    <2>4. r \in Nat /\ 2 * (d * r) <= 2000 + d /\ 2000 + d < 2 * (d * r) + 2 * d
      <3> HIDE DEF d
      <3>1. 1000 \in Nat /\ 2 * 1000 = 2000
        OBVIOUS
      <3> QED
        BY <2>3, <3>1, Rounded
    <2> HIDE DEF d, r
    <2>5. FpsMin <= r
      <3>1. d * FpsMin < d * r + d
        BY <2>3, <2>4, Limits
      <3> QED
        BY <2>3, <2>4, <3>1, Limits, Factors
    <2>6. r <= FpsMax
      <3>1. d * r < d * FpsMax + d
        BY <2>3, <2>4, Limits
      <3> QED
        BY <2>3, <2>4, <3>1, Limits, Factors
    <2>7. OrDefault(t) \in FpsMin..FpsMax
      BY <2>2, <2>4, <2>5, <2>6, Limits DEF r, d
    <2> QED
      BY <1>1, <1>2, <1>5, <2>1, <2>2, <2>7 DEF t, Reasons
  <1>6. CASE ~t.all_equal
    <2>1. FallbackReason(t) = "Variable"
      BY <1>6 DEF FallbackReason
    <2>2. OrDefault(t) = FpsDefault
      BY <2>1 DEF OrDefault
    <2> QED
      BY <1>1, <1>6, <2>1, <2>2, Limits DEF t, Reasons
  <1> QED
    BY <1>1, <1>2, <1>3, <1>4, <1>5, <1>6

LEMMA PlannerInitial == Init => PlannerInv
  <1> SUFFICES ASSUME Init PROVE PlannerInv
    OBVIOUS
  <1>1. TypeOK
    <2>1. NoPlan \in [rate : Nat, total : Nat, secs : Nat, why : Reasons, suggested : Nat]
      BY DEF NoPlan, Reasons, None
    <2>2. <<>> \in Seq(Nat)
      OBVIOUS
    <2> QED
      BY <2>1, <2>2 DEF Init, TypeOK
  <1> QED
    BY <1>1 DEF Init, PlannerInv, KeepInv, WalkInv, FramesInv, PlanInv

LEMMA PlanTypes ==
    ASSUME NEW k \in Nat, NEW n \in Nat, NEW rate \in Nat
    PROVE  /\ GifReportCount(k) \in Nat
           /\ 3 * DivCeil(k, SlowEvery) + k \in Nat
           /\ Clamp(RoundDiv(rate * k, n), FpsMin, FpsMax) \in Nat \/ ~(k < n)
  <1> USE ChoreographyAssumption DEF ChoreographyAssumption
  <1>1. \A a \in Nat, b \in Nat \ {0} : DivCeil(a, b) \in Nat
    <2>1. SUFFICES ASSUME NEW a \in Nat, NEW b \in Nat \ {0} PROVE DivCeil(a, b) \in Nat
      OBVIOUS
    <2>2. a + b - 1 \in Int /\ a + b - 1 >= 0
      OBVIOUS
    <2> DEFINE e == a + b - 1
    <2>3. e \div b \in Int /\ e \div b >= 0
      <3> HIDE DEF e
      <3> QED
        BY <2>2, Quotient DEF e
    <2> QED
      BY <2>3 DEF DivCeil
  <1>2. BlocksPerFrame \in Nat /\ PacketsPerBlock \in Nat /\ DivCeil(k, SlowEvery) \in Nat
    BY <1>1 DEF BlocksPerFrame, PacketsPerBlock
  <1>3. GifReportCount(k) \in Nat
    <2>1. BlocksPerFrame * PacketsPerBlock \in Nat
      BY <1>2
    <2>2. k * (2 + BlocksPerFrame * PacketsPerBlock) \in Nat
      BY <2>1
    <2> QED
      BY <2>2 DEF GifReportCount
  <1>4. ASSUME k < n PROVE Clamp(RoundDiv(rate * k, n), FpsMin, FpsMax) \in Nat
    <2>1. rate * k \in Nat /\ n \in Nat \ {0}
      BY <1>4
    <2>2. RoundDiv(rate * k, n) \in Nat
      BY <2>1, Rounded
    <2> QED
      BY <2>2, Limits DEF Clamp
  <1> QED
    BY <1>2, <1>3, <1>4

LEMMA PlannerStep == PlannerInv /\ [Next]_vars => PlannerInv'
  <1> SUFFICES ASSUME PlannerInv, [Next]_vars PROVE PlannerInv'
    OBVIOUS
  <1> USE DEF PlannerInv
  <1>1. CASE CountFrames
    <2> DEFINE n == Len(file.delays)
    <2>1. /\ step = "count" /\ n > 0 /\ ~Refused(n, asked.max)
          /\ step' = "walk" /\ counted' = file.delays /\ keep' = SelectFrames(n, asked.max)
          /\ UNCHANGED <<file, swapped, asked, frames, plan>>
      BY <1>1 DEF CountFrames
    <2>2. file.delays \in Seq(Nat) /\ n \in Nat \ {0}
          /\ asked.max \in {None} \cup 1..MaxStored
      BY <2>1, Limits DEF TypeOK
    <2>3. Chosen(keep', n) /\ Len(keep') <= MaxStored
      <3> HIDE DEF n
      <3> QED
        BY <2>1, <2>2, SelectedIsChosen
    <2>4. TypeOK'
      BY <2>1, <2>2, <2>3 DEF TypeOK, Chosen
    <2> QED
      BY <2>1, <2>3, <2>4 DEF KeepInv, WalkInv, FramesInv, PlanInv, Chosen
  <1>2. CASE Reject
    <2>1. step' = "failed" /\ UNCHANGED <<file, swapped, asked, counted, keep, frames, plan>>
      BY <1>2 DEF Reject
    <2> QED
      BY <2>1 DEF TypeOK, KeepInv, WalkInv, FramesInv, PlanInv
  <1>3. CASE WalkFrames
    <2>1. /\ step = "walk" /\ step' = "decide" /\ frames' = Encoded(file.delays, keep)
          /\ UNCHANGED <<file, swapped, asked, counted, keep, plan>>
      BY <1>3 DEF WalkFrames
    <2>2. /\ Chosen(keep, Len(counted)) /\ keep \in Seq(Nat) /\ Increasing(keep)
          /\ file.delays \in Seq(Nat) /\ (~swapped => counted = file.delays)
      BY <2>1, Limits DEF KeepInv, WalkInv, Chosen, TypeOK
    <2>3. PICK c \in 0..Len(keep) :
             /\ frames' = SubSeq(keep, 1, c)
             /\ \A j \in 1..Len(keep) : j <= c <=> keep[j] < Len(file.delays)
      BY <2>1, <2>2, EncodedIsPrefix
    <2>4. ~swapped => c = Len(keep)
      <3>1. SUFFICES ASSUME ~swapped, c # Len(keep) PROVE FALSE
        OBVIOUS
      <3>2. Len(keep) \in 1..Len(keep) /\ ~(Len(keep) <= c)
        BY <2>2, <2>3, <3>1
      <3>3. keep[Len(keep)] < Len(counted)
        BY <2>2, <3>2 DEF Chosen
      <3> QED
        BY <2>2, <2>3, <3>1, <3>2, <3>3
    <2>5. frames' \in Seq(Nat)
      <3>1. \A i \in 1..c : keep[i] \in Nat
        BY <2>2
      <3> QED
        BY <2>3, <3>1, SubSeqProperties
    <2> QED
      BY <2>1, <2>3, <2>4, <2>5 DEF TypeOK, KeepInv, WalkInv, FramesInv, PlanInv
  <1>4. CASE Decide
    <2>1. /\ step = "decide" /\ step' = "planned"
          /\ UNCHANGED <<file, swapped, asked, counted, keep, frames>>
          /\ plan' = [rate |-> TheRate, total |-> GifReportCount(Len(frames)),
                      secs |-> 3 * DivCeil(Len(frames), SlowEvery) + Len(frames),
                      why |-> TheReason,
                      suggested |-> IF Len(frames) < Len(counted)
                                    THEN Clamp(RoundDiv(TheRate * Len(frames), Len(counted)),
                                               FpsMin, FpsMax)
                                    ELSE None]
      BY <1>4 DEF Decide, TheRate, TheReason
    <2>2. counted \in Seq(Nat) /\ counted # <<>> /\ asked \in Asked
      BY <2>1 DEF TypeOK, KeepInv, WalkInv, Chosen
    <2>3. TheRate \in Nat /\ TheReason \in Reasons
      BY <2>2, Limits, RateFacts DEF TheRate, TheReason, Reasons
    <2>4. Len(frames) \in Nat /\ Len(counted) \in Nat
      BY DEF TypeOK
    <2>5. plan' \in [rate : Nat, total : Nat, secs : Nat, why : Reasons, suggested : Nat]
      BY <2>1, <2>3, <2>4, PlanTypes, Limits
    <2>6. TypeOK'
      BY <2>1, <2>5 DEF TypeOK
    <2>7. PlanInv'
      BY <2>1 DEF PlanInv, TheRate, TheReason
    <2> QED
      BY <2>1, <2>6, <2>7 DEF KeepInv, WalkInv, FramesInv
  <1>5. CASE Replace
    <2>1. /\ step = "walk" /\ swapped' = TRUE /\ file' \in Files
          /\ UNCHANGED <<step, asked, counted, keep, frames, plan>>
      BY <1>5 DEF Replace
    <2> QED
      BY <2>1 DEF TypeOK, KeepInv, WalkInv, FramesInv, PlanInv
  <1>6. CASE UNCHANGED vars
    BY <1>6 DEF vars, TypeOK, KeepInv, WalkInv, FramesInv, PlanInv, TheRate, TheReason
  <1> QED
    BY <1>1, <1>2, <1>3, <1>4, <1>5, <1>6 DEF Next, Over

--------------------------------------------------------------------------------
(***************************************************************************)
(* What follows from it.                                                   *)
(***************************************************************************)
LEMMA SampleFollows == PlannerInv => SampleIsEven
  <1> SUFFICES ASSUME PlannerInv, keep # <<>>
               PROVE  LET gap(i) == keep[i + 1] - keep[i]
                          Gaps == {gap(i) : i \in 1..(Len(keep) - 1)} IN
                      /\ keep[1] = 0
                      /\ Len(keep) > 1 => keep[Len(keep)] = Len(counted) - 1
                      /\ \A g \in Gaps : g >= 1
                      /\ Gaps # {} => Max(Gaps) - Min(Gaps) <= 1
    BY DEF SampleIsEven
  <1> DEFINE Gaps == {keep[i + 1] - keep[i] : i \in 1..(Len(keep) - 1)}
  <1>1. Chosen(keep, Len(counted))
    BY DEF PlannerInv, KeepInv
  <1>2. PICK q \in Nat \ {0} : Gaps \subseteq {q, q + 1}
    BY <1>1 DEF Chosen, EvenGaps
  <1>3. \A g \in Gaps : g >= 1
    BY <1>2
  <1>4. Gaps # {} => Max(Gaps) - Min(Gaps) <= 1
    <2>1. SUFFICES ASSUME Gaps # {} PROVE Max(Gaps) - Min(Gaps) <= 1
      OBVIOUS
    <2> HIDE DEF Gaps
    <2>2. Gaps = {q} \/ Gaps = {q + 1} \/ Gaps = {q, q + 1}
      BY <1>2, <2>1
    <2>3. CASE Gaps = {q}
      BY <2>3 DEF Max, Min
    <2>4. CASE Gaps = {q + 1}
      BY <2>4 DEF Max, Min
    <2>5. CASE Gaps = {q, q + 1}
      <3>1. \A y \in Gaps : q + 1 >= y /\ q <= y
        BY <2>5
      <3>2. q + 1 \in Gaps /\ q \in Gaps
        BY <2>5
      <3>3. Max(Gaps) \in Gaps /\ Min(Gaps) \in Gaps
        BY <3>1, <3>2 DEF Max, Min
      <3>4. Max(Gaps) \in {q, q + 1} /\ Min(Gaps) \in {q, q + 1}
        BY <2>5, <3>3
      <3> QED
        BY <3>4
    <2> QED
      BY <2>2, <2>3, <2>4, <2>5
  <1> QED
    BY <1>1, <1>3, <1>4 DEF Chosen

LEMMA SoundFollows == PlannerInv => PlanIsSound
  <1> SUFFICES ASSUME PlannerInv, step = "planned"
               PROVE  /\ Len(frames) <= MaxStored /\ plan.rate \in FpsMin..FpsMax
                      /\ Len(frames) <= Len(counted)
                      /\ ToSet(frames) \subseteq ToSet(keep)
                      /\ ~swapped => frames = keep /\ counted = file.delays
    BY DEF PlanIsSound, Planned
  <1>1. /\ Chosen(keep, Len(counted)) /\ Len(keep) <= MaxStored /\ keep \in Seq(Nat)
        /\ counted \in Seq(Nat) /\ counted # <<>> /\ asked \in Asked
        /\ plan.rate = TheRate /\ (~swapped => counted = file.delays)
    BY DEF PlannerInv, TypeOK, KeepInv, WalkInv, PlanInv, Chosen
  <1>2. PICK c \in 0..Len(keep) : frames = SubSeq(keep, 1, c) /\ (~swapped => c = Len(keep))
    BY DEF PlannerInv, FramesInv
  <1>3. plan.rate \in FpsMin..FpsMax
    <2>1. asked.fps # None => asked.fps \in FpsMin..FpsMax
      BY <1>1, Limits
    <2>2. OrDefault(Tally(counted)) \in FpsMin..FpsMax
      BY <1>1, RateFacts
    <2> QED
      BY <1>1, <2>1, <2>2 DEF TheRate
  <1>4. /\ Len(frames) = c /\ \A i \in 1..c : frames[i] = keep[i]
        /\ frames \in Seq(Nat) /\ Len(keep) \in Nat
    <2>1. \A i \in 1..c : keep[i] \in Nat
      BY <1>1, <1>2
    <2> QED
      BY <1>1, <1>2, <2>1, SubSeqProperties
  <1>5. ToSet(frames) \subseteq ToSet(keep)
    <2>1. DOMAIN frames = 1..c /\ DOMAIN keep = 1..Len(keep)
      BY <1>1, <1>4
    <2> QED
      BY <1>2, <1>4, <2>1 DEF ToSet
  <1>6. c <= MaxStored /\ c <= Len(counted)
    BY <1>1, <1>2, <1>4, Limits DEF Chosen
  <1>7. ~swapped => frames = keep
    BY <1>1, <1>2, SubSeqFull
  <1> QED
    BY <1>1, <1>3, <1>4, <1>5, <1>6, <1>7

\* Two delays that differ are two elements of the set of delays.
LEMMA TwoElements ==
    ASSUME NEW W, IsFiniteSet(W), NEW a \in W, NEW b \in W, a # b
    PROVE  Cardinality(W) > 1
  <1>1. IsFiniteSet({a}) /\ Cardinality({a}) = 1
    BY FS_Singleton
  <1>2. Cardinality({a} \cup {b}) = Cardinality({a}) + 1
    <2>1. b \notin {a}
      OBVIOUS
    <2> DEFINE A == {a}
    <2>2. IsFiniteSet(A) /\ b \notin A
      BY <1>1, <2>1
    <2> HIDE DEF A
    <2>3. Cardinality(A \cup {b}) = Cardinality(A) + 1
      BY <2>2, FS_AddElement
    <2> QED
      BY <2>3 DEF A
  <1>3. Cardinality({a} \cup {b}) <= Cardinality(W)
    <2> DEFINE B == {a} \cup {b}
    <2>1. B \in SUBSET W
      OBVIOUS
    <2> HIDE DEF B
    <2>2. Cardinality(B) <= Cardinality(W)
      BY <2>1, FS_Subset
    <2> QED
      BY <2>2 DEF B
  <1>4. Cardinality(W) \in Nat
    BY FS_CardinalityType
  <1> QED
    BY <1>1, <1>2, <1>3, <1>4

LEMMA TwoWaits ==
    ASSUME NEW s \in Seq(Nat), NEW i \in 1..Len(s), NEW j \in 1..Len(s), s[i] # s[j]
    PROVE  Cardinality({s[k] : k \in DOMAIN s}) > 1
  <1> DEFINE W == {s[k] : k \in DOMAIN s}
  <1>1. DOMAIN s = 1..Len(s) /\ Len(s) \in Nat
    OBVIOUS
  <1>2. IsFiniteSet(W)
    <2>1. s \in Surjection(1..Len(s), W)
      BY <1>1 DEF Surjection
    <2>2. IsFiniteSet(1..Len(s))
      BY <1>1, FS_Interval
    <2> HIDE DEF W
    <2> QED
      BY <2>1, <2>2, FS_Surjection
  <1>3. s[i] \in W /\ s[j] \in W
    BY <1>1
  <1>4. Cardinality(W) > 1
    <2> HIDE DEF W
    <2> QED
      BY <1>2, <1>3, TwoElements
  <1> QED
    BY <1>4

LEMMA RateFollows == PlannerInv => RateIsTheFiles
  <1> DEFINE Waits == {counted[i] : i \in DOMAIN counted}
             Stored(d) == FpsMin * d <= 1000 /\ 1000 <= FpsMax * d
             Shown(d) == 2 * (plan.rate * d - 1000) \in -d..d
  <1> SUFFICES ASSUME PlannerInv, step = "planned", asked.fps = None
               PROVE  CASE plan.why = "nothing"     -> \A d \in Waits : Stored(d) /\ Shown(d)
                        [] plan.why = "Variable"    -> Cardinality(Waits) > 1
                        [] plan.why = "Unspecified" -> Waits = {0}
                        [] plan.why = "OutOfRange"  -> \A d \in Waits : d > 0 /\ ~Stored(d)
    BY DEF RateIsTheFiles, Planned
  <1> DEFINE d == Tally(counted).first
  <1>1. /\ counted \in Seq(Nat) /\ counted # <<>>
        /\ plan.rate = OrDefault(Tally(counted)) /\ plan.why = FallbackReason(Tally(counted))
    BY DEF PlannerInv, TypeOK, KeepInv, WalkInv, PlanInv, Chosen, TheRate, TheReason
  <1>2. DOMAIN counted = 1..Len(counted) /\ 1 \in 1..Len(counted)
    BY <1>1
  <1>3. /\ plan.why \in Reasons
        /\ plan.why = "nothing" =>
              /\ \A i \in 1..Len(counted) : counted[i] = d
              /\ d \in Nat \ {0} /\ ~OutOfRange(d) /\ plan.rate = RoundDiv(1000, d)
        /\ plan.why = "OutOfRange" =>
              /\ \A i \in 1..Len(counted) : counted[i] = d
              /\ d \in Nat \ {0} /\ OutOfRange(d)
        /\ plan.why = "Unspecified" => \A i \in 1..Len(counted) : counted[i] = 0
        /\ plan.why = "Variable" => \E i \in 1..Len(counted) : counted[i] # counted[1]
    <2> HIDE DEF Waits, Stored, Shown
    <2> QED
      BY <1>1, RateFacts
  <1>4. d \in Nat \ {0} => FpsMin * d \in Nat /\ FpsMax * d \in Nat
    <2> HIDE DEF d
    <2> QED
      BY Limits
  <1> HIDE DEF d
  <1>5. CASE plan.why = "nothing"
    <2>1. Waits = {d}
      BY <1>2, <1>3, <1>5
    <2>2. Stored(d)
      BY <1>3, <1>4, <1>5 DEF OutOfRange
    <2>3. Shown(d)
      <3> DEFINE r == RoundDiv(1000, d)
      <3>1. d \in Nat \ {0} /\ plan.rate = r
        BY <1>3, <1>5
      <3>2. r \in Nat /\ 2 * (d * r) <= 2 * 1000 + d /\ 2 * 1000 + d < 2 * (d * r) + 2 * d
        <4>1. 1000 \in Nat
          OBVIOUS
        <4> HIDE DEF Waits, Stored, Shown
        <4> QED
          BY <3>1, <4>1, Rounded
      <3> HIDE DEF r
      <3>3. r * d = d * r /\ d * r \in Nat
        BY <3>1, <3>2
      <3>4. 2 * (r * d - 1000) \in -d..d
        BY <3>1, <3>2, <3>3
      <3> QED
        BY <3>1, <3>4
    <2> HIDE DEF Waits, Stored, Shown
    <2> QED
      BY <1>5, <2>1, <2>2, <2>3
  <1>6. CASE plan.why = "Variable"
    <2>1. PICK i \in 1..Len(counted) : counted[i] # counted[1]
      BY <1>3, <1>6
    <2>2. Cardinality(Waits) > 1
      BY <1>1, <1>2, <2>1, TwoWaits
    <2> HIDE DEF Waits, Stored, Shown
    <2> QED
      BY <1>6, <2>2
  <1>7. CASE plan.why = "Unspecified"
    <2>1. Waits = {0}
      BY <1>2, <1>3, <1>7
    <2> HIDE DEF Waits, Stored, Shown
    <2> QED
      BY <1>7, <2>1
  <1>8. CASE plan.why = "OutOfRange"
    <2>1. Waits = {d}
      BY <1>2, <1>3, <1>8
    <2>2. d > 0 /\ ~Stored(d)
      BY <1>3, <1>4, <1>8 DEF OutOfRange
    <2> HIDE DEF Waits, Stored, Shown
    <2> QED
      BY <1>8, <2>1, <2>2
  <1>9. \/ plan.why = "nothing" \/ plan.why = "Variable"
        \/ plan.why = "Unspecified" \/ plan.why = "OutOfRange"
    BY <1>3 DEF Reasons
  <1> HIDE DEF Waits, Stored, Shown
  <1> QED
    BY <1>5, <1>6, <1>7, <1>8, <1>9

(***************************************************************************)
(* The invariant of the planner by itself.                                 *)
(***************************************************************************)
THEOREM PlannerInvariant == Spec => []PlannerInv
  BY PlannerInitial, PlannerStep, PTL DEF Spec
================================================================================
