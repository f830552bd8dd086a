----------------------------- MODULE ClockProofs -----------------------------
(***************************************************************************)
(* Theorems about Clock, for any number of segments with any anchors, any  *)
(* window and any errors, of clocks as of receivers.                       *)
(***************************************************************************)
EXTENDS Clock, FiniteSetTheorems, TLAPS

-----------------------------------------------------------------------------
(* The CHOOSEs: a best vote, a median and a first segment there are.        *)

LEMMA LeastNat ==
  ASSUME NEW T \in SUBSET Nat, T # {}
  PROVE  \E x \in T : \A y \in T : x <= y
<1>1. PICK x \in T : \A y \in T : ~(<<y, x>> \in OpToRel(<, Nat))
  BY NatLessThanWellFounded, WFMin, Zenon
<1>2. ASSUME NEW y \in T PROVE x <= y
  <2>1. ~(y < x)
    BY <1>1, <1>2, Zenon DEF OpToRel
  <2> QED
    BY <2>1
<1> QED
  BY <1>2

\* Numbers above a bound have a least one.
LEMMA Least ==
  ASSUME NEW a \in Int, NEW T \in SUBSET Int, T # {}, \A x \in T : a <= x
  PROVE  \E x \in T : \A y \in T : x <= y
<1> DEFINE U == {x - a : x \in T}
<1>1. U \in SUBSET Nat /\ U # {}
  <2>1. \A x \in T : x - a \in Nat
    OBVIOUS
  <2> QED
    BY <2>1
<1> HIDE DEF U
<1>2. PICK u \in U : \A w \in U : u <= w
  BY <1>1, LeastNat
<1>3. u + a \in T /\ u \in Nat /\ \A y \in T : y - a \in U
  BY <1>1, <1>2 DEF U
<1>4. \A y \in T : u + a <= y
  <2> TAKE y \in T
  <2>1. u <= y - a /\ y \in Int
    BY <1>2, <1>3
  <2> QED
    BY <1>3, <2>1
<1> QED
  BY <1>3, <1>4

\* Of things valued below a bound one is valued highest.
LEMMA Greatest ==
  ASSUME NEW b \in Int, NEW S, S # {}, NEW g, \A x \in S : g[x] \in Int /\ g[x] <= b
  PROVE  \E x \in S : \A y \in S : g[y] <= g[x]
<1> DEFINE T == {b - g[x] : x \in S}
<1>1. T \in SUBSET Nat /\ T # {}
  OBVIOUS
<1> HIDE DEF T
<1>2. PICK u \in T : \A w \in T : u <= w
  BY <1>1, LeastNat
<1>3. PICK x \in S : u = b - g[x]
  BY <1>2 DEF T
<1>4. ASSUME NEW y \in S PROVE g[y] <= g[x]
  <2>1. b - g[y] \in T
    BY <1>4 DEF T
  <2>2. b - g[x] <= b - g[y]
    BY <1>2, <1>3, <2>1
  <2> QED
    BY <1>3, <1>4, <2>2
<1> QED
  BY <1>4

LEMMA SegFinite ==
  /\ Seg \subseteq Nat
  /\ \A S \in SUBSET Seg : IsFiniteSet(S) /\ Cardinality(S) \in Nat
<1>1. IsFiniteSet(Seg) /\ Seg \subseteq Nat
  BY TimeAssumption, FS_Interval DEF Seg
<1> QED
  BY <1>1, FS_Subset, FS_CardinalityType

LEMMA AnchoredSeg ==
  ASSUME NEW L \in SUBSET Seg
  PROVE  /\ Anchored(L) \in SUBSET L /\ Good(L) \in SUBSET L /\ Bogus(L) \in SUBSET L
         /\ Anchored(L) \in SUBSET Seg
BY DEF Anchored, Good, Bogus

LEMMA BackersNat ==
  ASSUME NEW L \in SUBSET Seg, NEW f, NEW s
  PROVE  Backers(L, f, s) \in Nat /\ Backers(L, f, s) <= Cardinality(Anchored(L))
<1>1. IsFiniteSet(Anchored(L))
  BY AnchoredSeg, SegFinite
<1>2. {u \in Anchored(L) : Near(Vote(f, u), Vote(f, s))} \in SUBSET Anchored(L)
  OBVIOUS
<1> QED
  BY <1>1, <1>2, FS_Subset, FS_CardinalityType DEF Backers

LEMMA BestExists ==
  ASSUME NEW L \in SUBSET Seg, NEW f \in [Seg -> Int], Anchored(L) # {},
         NEW b \in Int, \A s \in Anchored(L) : Vote(f, s) <= b
  PROVE  /\ Best(L, f) \in Anchored(L)
         /\ \A u \in Anchored(L) : Beats(L, f, Best(L, f), u)
<1> DEFINE A == Anchored(L)
           n == [s \in A |-> Backers(L, f, s)]
           B == {s \in A : \A u \in A : n[u] <= n[s]}
           v == [s \in B |-> Vote(f, s)]
<1>1. A \in SUBSET Seg /\ Cardinality(A) \in Int
  BY AnchoredSeg, SegFinite
<1>2. \A s \in A : n[s] \in Int /\ n[s] <= Cardinality(A)
  BY BackersNat
<1>3. B # {}
  <2> HIDE DEF n
  <2>1. \E s \in A : \A u \in A : n[u] <= n[s]
    BY <1>1, <1>2, Greatest
  <2> QED
    BY <2>1
<1>4. \A s \in B : v[s] \in Int /\ v[s] <= b
  <2> TAKE s \in B
  <2>1. s \in A /\ v[s] = Vote(f, s)
    OBVIOUS
  <2>2. Vote(f, s) <= b
    BY <2>1
  <2> HIDE DEF A, B, n, v
  <2>3. s \in Seg /\ s \in Int /\ f[s] \in Int
    <3>1. s \in Seg
      BY <1>1, <2>1
    <3> QED
      BY <3>1, SegFinite
  <2> QED
    BY <2>1, <2>2, <2>3 DEF Vote
<1>5. PICK s \in B : \A u \in B : v[u] <= v[s]
  <2> HIDE DEF v, B
  <2> QED
    BY <1>3, <1>4, Greatest
<1>6. \A u \in B : Vote(f, s) >= Vote(f, u)
  BY <1>4, <1>5
<1>7. ASSUME NEW u \in A PROVE Beats(L, f, s, u)
  <2>1. n[u] <= n[s] /\ n[u] \in Int /\ n[s] \in Int
    BY <1>2, <1>5, <1>7
  <2>2. CASE u \in B
    <3>1. n[s] <= n[u]
      BY <1>5, <2>2
    <3> QED
      BY <1>5, <1>6, <1>7, <2>1, <2>2, <3>1 DEF Beats
  <2>3. CASE u \notin B
    <3>1. PICK w \in A : ~(n[w] <= n[u])
      BY <1>7, <2>3
    <3>2. n[w] <= n[s] /\ n[w] \in Int
      BY <1>2, <1>5, <3>1
    <3>3. n[s] > n[u]
      BY <2>1, <3>1, <3>2
    <3> QED
      BY <1>5, <1>7, <3>3 DEF Beats
  <2> QED
    BY <2>2, <2>3
<1>8. s \in A
  BY <1>5
<1> HIDE DEF A, B, n, v
<1>9. \E x \in A : \A u \in A : Beats(L, f, x, u)
  BY <1>7, <1>8
<1> QED
  BY <1>9, Zenon DEF Best, A

LEMMA MedianExists ==
  ASSUME NEW C \in SUBSET Seg, C # {}, NEW f \in [Seg -> Int],
         NEW a \in Int, NEW b \in Int, \A s \in C : a <= Vote(f, s) /\ Vote(f, s) <= b
  PROVE  Median(C, f) \in {Vote(f, s) : s \in C}
<1> DEFINE Below(x) == Cardinality({s \in C : Vote(f, s) < x})
           Upto(x) == Cardinality({s \in C : Vote(f, s) <= x})
           half == Cardinality(C) \div 2
           V == {Vote(f, s) : s \in C}
           W == {x \in V : half < Upto(x)}
           g == [s \in C |-> Vote(f, s)]
<1>1. \A s \in C : Vote(f, s) \in Int
  BY SegFinite DEF Vote
<1>2. Cardinality(C) \in Nat /\ Cardinality(C) # 0
  BY SegFinite, FS_EmptySet
<1>3. half \in Nat /\ half < Cardinality(C)
  BY <1>2
<1>4. V \in SUBSET Int /\ \A x \in V : a <= x
  BY <1>1
<1>5. \A D \in SUBSET C : D # {} => \E s \in D : \A u \in D : Vote(f, u) <= Vote(f, s)
  <2> SUFFICES ASSUME NEW D \in SUBSET C, D # {}
               PROVE  \E s \in D : \A u \in D : Vote(f, u) <= Vote(f, s)
    OBVIOUS
  <2> DEFINE h == [s \in D |-> Vote(f, s)]
  <2>1. \A s \in D : h[s] \in Int /\ h[s] <= b
    BY <1>1
  <2>2. \A s \in D : h[s] = Vote(f, s)
    OBVIOUS
  <2> HIDE DEF h
  <2>3. PICK s \in D : \A u \in D : h[u] <= h[s]
    BY <2>1, Greatest
  <2> QED
    BY <2>2, <2>3
<1>6. W # {}
  <2>1. PICK s \in C : \A u \in C : Vote(f, u) <= Vote(f, s)
    BY <1>5
  <2>2. {u \in C : Vote(f, u) <= Vote(f, s)} = C
    BY <2>1
  <2>3. Upto(Vote(f, s)) = Cardinality(C)
    BY <2>2
  <2> QED
    BY <1>3, <2>3
<1>7. W \in SUBSET Int /\ \A x \in W : a <= x
  BY <1>4
<1>8. PICK v \in W : \A x \in W : v <= x
  <2> HIDE DEF W
  <2> QED
    BY <1>6, <1>7, Least
<1>9. Below(v) <= half
  <2> DEFINE D == {s \in C : Vote(f, s) < v}
  <2>1. Cardinality(D) \in Nat
    BY SegFinite
  <2> SUFFICES ASSUME half < Below(v) PROVE FALSE
    BY <1>3, <2>1
  <2>2. D # {}
    BY <1>3, <2>1, FS_EmptySet
  <2>3. PICK s \in D : \A u \in D : Vote(f, u) <= Vote(f, s)
    BY <1>5, <2>2
  <2>4. {u \in C : Vote(f, u) <= Vote(f, s)} = D
    BY <1>1, <1>7, <1>8, <2>3
  <2>5. Upto(Vote(f, s)) = Below(v)
    BY <2>4
  <2>6. Vote(f, s) \in W
    BY <2>3, <2>5
  <2>7. v <= Vote(f, s) /\ Vote(f, s) < v
    BY <1>8, <2>3, <2>6
  <2> QED
    BY <1>1, <1>7, <1>8, <2>3, <2>7
<1>10. v \in V /\ half < Upto(v)
  BY <1>8
<1>11. Median(C, f) = CHOOSE x \in V : Below(x) <= half /\ half < Upto(x)
  BY DEF Median
<1> HIDE DEF V, W, Below, Upto, half
<1>12. Median(C, f) \in V
  BY <1>9, <1>10, <1>11
<1> QED
  BY <1>12 DEF V

-----------------------------------------------------------------------------
(* What an update of the rollup stores.                                     *)

\* The votes there are: what the logs say, and medians of it.
Marks == {0, Late, -Cold, -behind}

\* A bound below all of them.
Earliest == -(lag + Cold)

LEMMA MarksInt ==
  ASSUME lag \in Nat, behind \in {0, lag}
  PROVE  /\ Marks \subseteq Int
         /\ \A v \in Marks : Earliest <= v /\ v <= Late
BY TimeAssumption DEF Marks, Earliest

Vetted(L, f) == L \in SUBSET Seg /\ f \in [Seg -> Int] /\ \A s \in L : Vote(f, s) \in Marks

\* Anchors of the best cluster keep their times, all else moves to its median.
LEMMA Reanchored ==
  ASSUME lag \in Nat, behind \in {0, lag}, NEW L, NEW f, Vetted(L, f), Anchored(L) # {}
  PROVE  \E best \in Anchored(L) : \E c \in Cluster(L, f, best) :
           /\ \A u \in Anchored(L) : Beats(L, f, best, u)
           /\ Cluster(L, f, best) \subseteq Anchored(L)
           /\ Reanchor(L, f) = [s \in Seg |-> IF s \in L \ Cluster(L, f, best)
                                                THEN Vote(f, c) + s ELSE f[s]]
<1> DEFINE best == Best(L, f)
           C == Cluster(L, f, best)
<1>1. L \in SUBSET Seg /\ f \in [Seg -> Int] /\ Anchored(L) \in SUBSET L
  BY AnchoredSeg DEF Vetted
<1>2. \A s \in L : Vote(f, s) \in Int /\ Earliest <= Vote(f, s) /\ Vote(f, s) <= Late
  BY MarksInt DEF Vetted
<1>3. Late \in Int /\ Earliest \in Int /\ Window \in Nat
  BY TimeAssumption DEF Earliest
<1>4. best \in Anchored(L) /\ \A u \in Anchored(L) : Beats(L, f, best, u)
  BY <1>1, <1>2, <1>3, BestExists
<1> HIDE DEF best
<1>5. C \subseteq Anchored(L)
  BY DEF Cluster
<1>6. best \in C
  <2>1. Vote(f, best) \in Int
    BY <1>1, <1>2, <1>4
  <2>2. Near(Vote(f, best), Vote(f, best))
    BY <1>3, <2>1 DEF Near, Abs
  <2> QED
    BY <1>4, <2>2 DEF Cluster
<1>7. Reanchor(L, f) = [s \in Seg |-> IF s \in L \ C THEN Median(C, f) + s ELSE f[s]]
  BY DEF Reanchor, best
<1> HIDE DEF C
<1>8. C \in SUBSET Seg /\ C \in SUBSET L
  BY <1>1, <1>5
<1>9. Median(C, f) \in {Vote(f, s) : s \in C}
  BY <1>1, <1>2, <1>3, <1>6, <1>8, MedianExists
<1>10. PICK c \in C : Median(C, f) = Vote(f, c)
  BY <1>9
<1>11. Reanchor(L, f) = [s \in Seg |-> IF s \in L \ C THEN Vote(f, c) + s ELSE f[s]]
  BY <1>7, <1>10
<1> QED
  BY <1>4, <1>5, <1>10, <1>11 DEF C

\* Near in plain numbers.
LEMMA NearInt ==
  ASSUME NEW x \in Int, NEW y \in Int
  PROVE  /\ Near(x, y) <=> x - y <= Window /\ y - x <= Window
         /\ \A k \in Int : Abs(x - y) <= k <=> x - y <= k /\ y - x <= k
BY TimeAssumption DEF Near, Abs

Within(L, f) == \A s, u \in L : Abs(Vote(f, s) - Vote(f, u)) <= 2 * Window

\* The times that are stored are vetted too, and of one timeline.
LEMMA Stored ==
  ASSUME lag \in Nat, behind \in {0, lag}, NEW L, NEW f, Vetted(L, f)
  PROVE  /\ Vetted(L, [s \in Seg |-> IF s \in L THEN Reanchor(L, f)[s] ELSE 0])
         /\ Anchored(L) # {} => Within(L, [s \in Seg |-> IF s \in L THEN Reanchor(L, f)[s] ELSE 0])
<1> DEFINE g == [s \in Seg |-> IF s \in L THEN Reanchor(L, f)[s] ELSE 0]
<1>1. L \in SUBSET Seg /\ f \in [Seg -> Int] /\ \A s \in L : Vote(f, s) \in Marks /\ Vote(f, s) \in Int
  BY MarksInt DEF Vetted
<1>2. Seg \subseteq Int /\ Window \in Nat
  BY SegFinite, TimeAssumption
<1>3. CASE Anchored(L) = {}
  <2>1. \A s \in L : g[s] = f[s]
    BY <1>1, <1>3 DEF Reanchor
  <2>2. g \in [Seg -> Int]
    BY <1>1, <1>3 DEF Reanchor
  <2> HIDE DEF g
  <2>3. Vetted(L, g)
    BY <1>1, <2>1, <2>2 DEF Vetted, Vote
  <2> QED
    BY <1>3, <2>3 DEF g
<1>4. CASE Anchored(L) # {}
  <2> PICK best \in Anchored(L) :
          \E c \in Cluster(L, f, best) :
            /\ Cluster(L, f, best) \subseteq Anchored(L)
            /\ Reanchor(L, f) = [s \in Seg |-> IF s \in L \ Cluster(L, f, best)
                                                 THEN Vote(f, c) + s ELSE f[s]]
    BY <1>4, Reanchored
  <2>1. PICK c \in Cluster(L, f, best) :
          /\ Cluster(L, f, best) \subseteq Anchored(L)
          /\ Reanchor(L, f) = [s \in Seg |-> IF s \in L \ Cluster(L, f, best)
                                               THEN Vote(f, c) + s ELSE f[s]]
    OBVIOUS
  <2> DEFINE C == Cluster(L, f, best)
  <2>2. best \in L /\ C \subseteq L
    BY <1>1, <2>1, AnchoredSeg
  <2>3. \A s \in C : Near(Vote(f, s), Vote(f, best))
    BY DEF Cluster
  <2>4. c \in C
    BY <2>1
  <2>5. \A s \in Seg : g[s] = IF s \in L THEN IF s \in C THEN f[s] ELSE Vote(f, c) + s ELSE 0
    BY <2>1
  <2> HIDE DEF C
  <2>6. \A s \in Seg : g[s] \in Int
    <3> TAKE s \in Seg
    <3>1. s \in Int /\ f[s] \in Int /\ Vote(f, c) \in Int
      BY <1>1, <1>2, <2>2, <2>4
    <3> QED
      BY <2>5, <3>1
  <2>7. g \in [Seg -> Int]
    BY <2>6
  <2> HIDE DEF g
  <2>8. \A s \in L : \E u \in C : Vote(g, s) = Vote(f, u)
    <3> TAKE s \in L
    <3>1. s \in Seg /\ s \in Int /\ f[s] \in Int /\ Vote(f, c) \in Int
      BY <1>1, <1>2, <2>2, <2>4
    <3>2. CASE s \in C
      BY <2>5, <3>1, <3>2 DEF Vote
    <3>3. CASE s \notin C
      <4>1. g[s] = Vote(f, c) + s
        BY <2>5, <3>1, <3>3
      <4>2. Vote(g, s) = g[s] - s
        BY DEF Vote
      <4>3. Vote(g, s) = Vote(f, c)
        BY <3>1, <4>1, <4>2
      <4> QED
        BY <2>4, <4>3
    <3> QED
      BY <3>2, <3>3
  <2>9. Vetted(L, g)
    BY <1>1, <2>2, <2>7, <2>8 DEF Vetted
  <2>10. ASSUME NEW x \in C, NEW y \in C PROVE Abs(Vote(f, x) - Vote(f, y)) <= 2 * Window
    <3>1. Vote(f, x) \in Int /\ Vote(f, y) \in Int /\ Vote(f, best) \in Int
      BY <1>1, <2>2
    <3>2. Near(Vote(f, x), Vote(f, best)) /\ Near(Vote(f, y), Vote(f, best))
      BY <2>3
    <3> QED
      BY <1>2, <3>1, <3>2 DEF Near, Abs
  <2>11. Within(L, g)
    BY <2>8, <2>10 DEF Within
  <2> QED
    BY <2>9, <2>11 DEF g
<1> QED
  BY <1>3, <1>4

\* A cold newcomer is outvoted by one good anchor that agrees with the rest.
LEMMA Outvoted ==
  ASSUME lag \in Nat, behind \in {0, lag}, log \in [Seg -> {"none", "good", "late", "cold"}],
         NEW L, NEW f, Vetted(L, f), Anchored(L) # {},
         Cardinality(Bogus(L)) <= Cardinality(Good(L)),
         NEW x, \A s \in Anchored(L) \ {x} : Vote(f, s) \in {0, Late},
         x \in Anchored(L) => Vote(f, x) \in {0, Late} \/ (log[x] = "cold" /\ Vote(f, x) = -Cold)
  PROVE  \A s \in L : Vote([u \in Seg |-> IF u \in L THEN Reanchor(L, f)[u] ELSE 0], s) \in {0, Late}
<1> DEFINE g == [u \in Seg |-> IF u \in L THEN Reanchor(L, f)[u] ELSE 0]
           A == Anchored(L)
<1> PICK best \in A :
        \E c \in Cluster(L, f, best) :
          /\ \A u \in A : Beats(L, f, best, u)
          /\ Cluster(L, f, best) \subseteq A
          /\ Reanchor(L, f) = [s \in Seg |-> IF s \in L \ Cluster(L, f, best)
                                               THEN Vote(f, c) + s ELSE f[s]]
  BY Reanchored
<1>1. PICK c \in Cluster(L, f, best) :
        /\ \A u \in A : Beats(L, f, best, u)
        /\ Cluster(L, f, best) \subseteq A
        /\ Reanchor(L, f) = [s \in Seg |-> IF s \in L \ Cluster(L, f, best)
                                             THEN Vote(f, c) + s ELSE f[s]]
  OBVIOUS
<1> DEFINE C == Cluster(L, f, best)
<1>2. L \in SUBSET Seg /\ A \in SUBSET L /\ Seg \subseteq Int /\ f \in [Seg -> Int]
  BY AnchoredSeg, SegFinite DEF Vetted
<1>3. \A s \in C : Near(Vote(f, s), Vote(f, best))
  BY DEF Cluster
<1>4. c \in C
  BY <1>1
<1>5. Late \in Nat /\ Late <= Window /\ Window \in Nat /\ Cold \in Nat /\ Cold > Window
  BY TimeAssumption
<1>6. \A s \in C : Vote(f, s) \in {0, Late}
  <2>1. CASE x \notin A \/ Vote(f, x) \in {0, Late}
    BY <1>1, <2>1
  <2>2. CASE x \in A /\ log[x] = "cold" /\ Vote(f, x) = -Cold
    <3>1. PICK y \in Good(L) : TRUE
      <4>1. x \in Bogus(L)
        BY <1>2, <2>2 DEF Bogus
      <4>2. IsFiniteSet(Bogus(L)) /\ Cardinality(Bogus(L)) \in Nat /\ Cardinality(Bogus(L)) # 0
        BY <1>2, <4>1, AnchoredSeg, SegFinite, FS_EmptySet
      <4>3. Good(L) # {}
        BY <4>2, FS_EmptySet
      <4> QED
        BY <4>3
    <3>2. y \in A /\ y # x
      BY <2>2, <3>1 DEF Anchored, Good
    <3> DEFINE Of(u) == {w \in A : Near(Vote(f, w), Vote(f, u))}
    <3>3. \A u \in A : ~(Near(Vote(f, u), Vote(f, x))) \/ u = x
      <4> SUFFICES ASSUME NEW u \in A, u # x PROVE ~Near(Vote(f, u), Vote(f, x))
        OBVIOUS
      <4>1. Vote(f, u) \in {0, Late}
        OBVIOUS
      <4> QED
        BY <1>5, <2>2, <4>1 DEF Near, Abs
    <3>4. Of(x) \subseteq {x}
      BY <3>3
    <3>5. Of(y) = A \ {x}
      <4>1. ASSUME NEW u \in A \ {x} PROVE Near(Vote(f, u), Vote(f, y))
        <5>1. Vote(f, u) \in {0, Late} /\ Vote(f, y) \in {0, Late}
          BY <3>2, <4>1
        <5> QED
          BY <1>5, <5>1 DEF Near, Abs
      <4>2. ~Near(Vote(f, x), Vote(f, y))
        <5>1. Vote(f, y) \in {0, Late}
          BY <3>2
        <5> QED
          BY <1>5, <2>2, <5>1 DEF Near, Abs
      <4> QED
        BY <4>1, <4>2
    <3>6. Backers(L, f, x) = Cardinality(Of(x)) /\ Backers(L, f, y) = Cardinality(Of(y))
      BY DEF Backers
    <3>7. Cardinality(Of(x)) \in Nat /\ Cardinality(Of(x)) <= 1
      <4>1. IsFiniteSet({x}) /\ Cardinality({x}) = 1
        BY FS_Singleton
      <4> QED
        BY <3>4, <4>1, FS_Subset, FS_CardinalityType
    <3>8. Cardinality(Of(y)) \in Nat /\ Cardinality(Of(y)) # 0
      <4>1. Of(y) \in SUBSET Seg /\ Of(y) # {}
        BY <1>2, <3>2, <3>5
      <4> HIDE DEF Of
      <4> QED
        BY <4>1, SegFinite, FS_EmptySet
    <3> HIDE DEF Of
    <3>9. best # x
      <4> SUFFICES ASSUME best = x PROVE FALSE
        OBVIOUS
      <4>1. Beats(L, f, x, y)
        BY <1>1, <3>2
      <4>2. Vote(f, y) \in {0, Late}
        BY <3>2
      <4> QED
        BY <1>5, <2>2, <3>6, <3>7, <3>8, <4>1, <4>2 DEF Beats
    <3>10. x \notin C
      <4>1. Vote(f, best) \in {0, Late}
        BY <3>9
      <4>2. ~Near(Vote(f, x), Vote(f, best))
        BY <1>5, <2>2, <4>1 DEF Near, Abs
      <4> QED
        BY <1>3, <4>2
    <3> QED
      BY <1>1, <3>10
  <2> QED
    BY <2>1, <2>2
<1>7. \A s \in Seg : g[s] = IF s \in L THEN IF s \in C THEN f[s] ELSE Vote(f, c) + s ELSE 0
  BY <1>1
<1> HIDE DEF C, g, A
<1>8. ASSUME NEW s \in L PROVE Vote(g, s) \in {0, Late}
  <2>1. s \in Seg /\ s \in Int /\ f[s] \in Int
    BY <1>2
  <2>2. CASE s \in C
    BY <1>6, <1>7, <2>1, <2>2 DEF Vote
  <2>3. CASE s \notin C
    <3>1. g[s] = Vote(f, c) + s /\ Vote(f, c) \in {0, Late} /\ Vote(g, s) = g[s] - s
      BY <1>4, <1>6, <1>7, <2>1, <2>3 DEF Vote
    <3> QED
      BY <1>5, <2>1, <3>1
  <2> QED
    BY <2>2, <2>3
<1> QED
  BY <1>8 DEF g

-----------------------------------------------------------------------------
(* The invariant.                                                           *)

\* Types, without the history.
Kinds ==
  /\ log \in [Seg -> {"none", "good", "late", "cold"}]
  /\ lag \in Lags /\ lag \in Nat /\ behind \in {0, lag}
  /\ low \in 0..N /\ \A s \in listed : s >= low /\ s < t
  /\ t \in 0..MaxTime /\ wall \in {0, -lag}

\* When the live drive was first seen, and what the clock was off by then.
Sighted ==
  \/ first = Unseen
  \/ /\ first \in [wall : Int, mono : -1..MaxTime]
     /\ first.mono \in 0..t
     /\ first.wall - first.mono \in {0, -lag}

\* The rollup lists vetted times of one timeline, which is the true one unless
\* the cold anchors were once more than the good ones.
Timeline ==
  /\ Vetted(listed, start)
  /\ Anchored(listed) # {} => Within(listed, start)
  /\ Anchored(listed) # {} /\ ~fooled => \A s \in listed : Vote(start, s) \in {0, Late}

Timed == Kinds /\ Sighted /\ Timeline /\ fooled \in BOOLEAN

LEMMA TimedTypeOK == Timed => TypeOK
<1> SUFFICES ASSUME Timed PROVE TypeOK
  OBVIOUS
<1>1. first \in [wall : Int, mono : -1..MaxTime]
  BY TimeAssumption DEF Timed, Sighted, Unseen
<1> QED
  BY <1>1 DEF Timed, Kinds, Timeline, Vetted, TypeOK

LEMMA TimedOne == Timed => OneTimeline
BY DEF Timed, Timeline, Within, OneTimeline

LEMMA TimedTrue == Timed => TrueTimeline
<1>1. \A v \in {0, Late} : Near(v, 0)
  BY TimeAssumption DEF Near, Abs
<1> QED
  BY <1>1 DEF Timed, Timeline, TrueTimeline

LEMMA TimedInit == Init => Timed
<1> SUFFICES ASSUME Init PROVE Timed
  OBVIOUS
<1>1. Kinds
  <2>1. wall \in {0, -lag}
    BY TimeAssumption DEF Init
  <2>2. 0 \in 0..N /\ 0 \in 0..MaxTime /\ (\A l \in Lags : l \in Nat)
    BY TimeAssumption
  <2> QED
    BY <2>1, <2>2 DEF Init, Kinds
<1>2. Sighted /\ fooled \in BOOLEAN
  BY DEF Init, Sighted
<1>3. Timeline
  BY AnchoredSeg DEF Init, Timeline, Vetted
<1> QED
  BY <1>1, <1>2, <1>3 DEF Timed

\* A rollup that lists L with vetted times is stored: x is the newcomer, if any.
LEMMA TimelineStore ==
  ASSUME Timed, NEW L, NEW f, Vetted(L, f), Store(L, f), log' = log, lag' = lag, behind' = behind,
         NEW x,
         ~fooled' => \A s \in Anchored(L) \ {x} : Vote(f, s) \in {0, Late},
         x \in Anchored(L) => Vote(f, x) \in {0, Late} \/ (log[x] = "cold" /\ Vote(f, x) = -Cold)
  PROVE  Timeline'
<1>1. lag \in Nat /\ behind \in {0, lag} /\ log \in [Seg -> {"none", "good", "late", "cold"}]
  BY DEF Timed, Kinds
<1> DEFINE g == [s \in Seg |-> IF s \in L THEN Reanchor(L, f)[s] ELSE 0]
<1>2. listed' = L /\ start' = g
  BY Zenon DEF Store
<1>3. Vetted(L, g) /\ (Anchored(L) # {} => Within(L, g))
  BY <1>1, Stored, Zenon
<1>4. ASSUME Anchored(L) # {}, ~fooled' PROVE \A s \in L : Vote(g, s) \in {0, Late}
  <2>1. L # {}
    BY <1>4 DEF Anchored, Good, Bogus
  <2>2. ~(Cardinality(Bogus(L)) > Cardinality(Good(L)))
    BY <1>4, <2>1, Zenon DEF Store
  <2>3. L \in SUBSET Seg
    BY DEF Vetted
  <2>4. Cardinality(Bogus(L)) \in Nat /\ Cardinality(Good(L)) \in Nat
    BY <2>3, AnchoredSeg, SegFinite
  <2>5. Cardinality(Bogus(L)) <= Cardinality(Good(L))
    BY <2>2, <2>4
  <2> QED
    BY <1>1, <1>4, <2>5, Outvoted, Zenon
<1> HIDE DEF g
<1>5. Vetted(listed, start)'
  BY <1>2, <1>3 DEF Vetted, Marks, Vote
<1>6. Anchored(listed)' = Anchored(L)
  BY <1>2 DEF Anchored, Good, Bogus
<1>7. (\A s \in listed : Vote(start, s) \in {0, Late})' <=> (\A s \in L : Vote(g, s) \in {0, Late})
  BY <1>2 DEF Vote
<1>8. Within(listed, start)' <=> Within(L, g)
  BY <1>2 DEF Within, Vote
<1> QED
  BY <1>3, <1>4, <1>5, <1>6, <1>7, <1>8 DEF Timeline

LEMMA TimelineKept ==
  ASSUME Timeline, rollup' = rollup, log' = log, lag' = lag, behind' = behind
  PROVE  Timeline' /\ (fooled \in BOOLEAN => fooled' \in BOOLEAN)
BY DEF Timeline, rollup, Vetted, Marks, Vote, Anchored, Good, Bogus, Within

LEMMA TimedFold ==
  ASSUME Timed, NEW s \in Seg, Fold(s)
  PROVE  Timed'
<1> DEFINE L == listed \cup {s}
           f == [start EXCEPT ![s] = Parsed(s)]
<1>1. Kinds /\ Sighted /\ Timeline
  BY DEF Timed
<1>2. listed \in SUBSET Seg /\ start \in [Seg -> Int] /\ Seg \subseteq Int
  BY <1>1, SegFinite DEF Timeline, Vetted
<1>3. log[s] \in {"none", "good", "late", "cold"} /\ lag \in Nat /\ behind \in {0, lag}
  BY <1>1 DEF Kinds
<1>4. /\ Parsed(s) \in Int /\ Parsed(s) - s \in Marks
      /\ log[s] \in {"good", "late"} => Parsed(s) - s \in {0, Late}
      /\ log[s] = "cold" => Parsed(s) - s = -Cold
  BY <1>2, <1>3, TimeAssumption DEF Parsed, Marks
<1>5. f \in [Seg -> Int] /\ f[s] = Parsed(s) /\ \A u \in listed : f[u] = start[u]
  BY <1>2, <1>4 DEF Fold
<1>6. Store(L, f) /\ log' = log /\ lag' = lag /\ behind' = behind
  BY DEF Fold
<1> HIDE DEF f
<1>7. \A u \in L : Vote(f, u) = IF u = s THEN Parsed(s) - s ELSE Vote(start, u)
  BY <1>5 DEF Vote
<1>8. Vetted(L, f)
  <2>1. \A u \in L : Vote(f, u) \in Marks
    BY <1>1, <1>4, <1>7 DEF Timeline, Vetted
  <2> QED
    BY <1>2, <1>5, <2>1 DEF Vetted
<1>9. ASSUME ~fooled' PROVE \A u \in Anchored(L) \ {s} : Vote(f, u) \in {0, Late}
  <2> SUFFICES ASSUME NEW u \in Anchored(L) \ {s} PROVE Vote(f, u) \in {0, Late}
    OBVIOUS
  <2>1. u \in Anchored(listed) /\ u \in listed
    BY DEF Anchored, Good, Bogus
  <2>2. ~fooled
    BY <1>6, <1>9, Zenon DEF Store
  <2>3. Vote(start, u) \in {0, Late}
    BY <1>1, <2>1, <2>2 DEF Timeline
  <2> QED
    BY <1>7, <2>1, <2>3
<1>10. s \in Anchored(L) => Vote(f, s) \in {0, Late} \/ (log[s] = "cold" /\ Vote(f, s) = -Cold)
  BY <1>4, <1>7 DEF Anchored, Good, Bogus
<1> HIDE DEF L
<1>11. Timeline'
  BY <1>6, <1>8, <1>9, <1>10, TimelineStore
<1>12. Kinds'
  <2>1. listed' = listed \cup {s}
    BY <1>6 DEF Store, L
  <2> QED
    BY <1>1, <2>1 DEF Fold, Kinds
<1>13. Sighted' /\ fooled' \in BOOLEAN
  BY <1>1, <1>6 DEF Fold, Sighted, Unseen, Store
<1> QED
  BY <1>11, <1>12, <1>13 DEF Timed

LEMMA TimedRotate ==
  ASSUME Timed, Rotate
  PROVE  Timed'
<1> DEFINE L == listed \ {low}
<1>1. Kinds /\ Sighted /\ Timeline
  BY DEF Timed
<1>2. Store(L, start) /\ log' = log /\ lag' = lag /\ behind' = behind
  BY DEF Rotate
<1>3. Vetted(L, start)
  BY <1>1 DEF Timeline, Vetted
<1>4. ASSUME ~fooled' PROVE \A u \in Anchored(L) \ {low} : Vote(start, u) \in {0, Late}
  <2> SUFFICES ASSUME NEW u \in Anchored(L) PROVE Vote(start, u) \in {0, Late}
    OBVIOUS
  <2>1. u \in Anchored(listed) /\ u \in L
    BY DEF Anchored, Good, Bogus
  <2>2. ~fooled
    <3>1. L # {}
      BY <2>1
    <3> QED
      BY <1>2, <1>4, <3>1, Zenon DEF Store
  <2> QED
    BY <1>1, <2>1, <2>2 DEF Timeline
<1>5. low \notin Anchored(L)
  BY DEF Anchored, Good, Bogus
<1>6. Timeline'
  <2> HIDE DEF L
  <2> QED
    BY <1>2, <1>3, <1>4, <1>5, TimelineStore
<1>7. Kinds'
  <2>1. listed' = listed \ {low} /\ low' = low + 1
    BY <1>2 DEF Store, Rotate
  <2>2. low \in Seg /\ \A s \in listed : s \in Int
    BY <1>1, SegFinite DEF Rotate, Timeline, Vetted
  <2>3. low' \in 0..N
    BY <1>1, <2>1, <2>2, TimeAssumption DEF Kinds, Seg
  <2>4. \A s \in listed' : s >= low' /\ s < t
    BY <1>1, <2>1, <2>2 DEF Kinds
  <2> QED
    BY <1>1, <2>3, <2>4 DEF Rotate, Kinds
<1>8. Sighted' /\ fooled' \in BOOLEAN
  BY <1>1, <1>2 DEF Rotate, Sighted, Unseen, Store
<1> QED
  BY <1>6, <1>7, <1>8 DEF Timed

LEMMA TimedRestart ==
  ASSUME Timed, Restart
  PROVE  Timed'
<1>1. Kinds /\ Sighted /\ Timeline
  BY DEF Timed
<1>2. Sighted'
  BY DEF Restart, Sighted, Unseen
<1>3. CASE rollup' = rollup
  <2>1. Kinds'
    BY <1>1, <1>3 DEF Restart, Kinds, rollup
  <2>2. Timeline' /\ fooled' \in BOOLEAN
    BY <1>1, <1>3, TimelineKept DEF Restart, Timed
  <2> QED
    BY <1>2, <2>1, <2>2 DEF Timed
<1>4. CASE Store({}, start)
  <2>1. listed' = {} /\ fooled' \in BOOLEAN
    BY <1>4 DEF Store
  <2>2. Kinds'
    BY <1>1, <2>1 DEF Restart, Kinds
  <2>3. Vetted({}, start)
    BY <1>1 DEF Timeline, Vetted
  <2>4. Anchored({}) = {}
    BY DEF Anchored, Good, Bogus
  <2>5. Timeline'
    BY <1>4, <2>3, <2>4, TimelineStore DEF Restart
  <2> QED
    BY <1>2, <2>1, <2>2, <2>5 DEF Timed
<1> QED
  BY <1>3, <1>4 DEF Restart

LEMMA TimedNext ==
  ASSUME Timed, [Next]_vars
  PROVE  Timed'
<1>1. Kinds /\ Sighted /\ Timeline
  BY DEF Timed
<1>2. ASSUME rollup' = rollup, log' = log, lag' = lag, behind' = behind, Kinds', Sighted' PROVE Timed'
  BY <1>1, <1>2, TimelineKept DEF Timed
<1>3. ASSUME NEW s \in Seg, Fold(s) PROVE Timed'
  BY <1>3, TimedFold
<1>4. CASE Rotate
  BY <1>4, TimedRotate
<1>5. CASE Restart
  BY <1>5, TimedRestart
<1>6. CASE Look
  <2>1. Kinds'
    BY <1>1, <1>6 DEF Look, Kinds, rollup
  <2>2. first' = [wall |-> t + wall, mono |-> t] /\ t' = t /\ t \in 0..MaxTime /\ wall \in {0, -lag} /\ lag' = lag /\ lag \in Nat
    BY <1>1, <1>6 DEF Look, Kinds
  <2>3. Sighted'
    BY <2>2, TimeAssumption DEF Sighted
  <2> QED
    BY <1>2, <1>6, <2>1, <2>3 DEF Look
<1>7. CASE Pass
  <2>1. t \in 0..MaxTime /\ t' = t + 1 /\ t' \in 0..MaxTime
    BY <1>1, <1>7, TimeAssumption DEF Pass, Kinds
  <2>2. Kinds'
    <3>1. \A s \in listed : s \in Int
      BY <1>1, SegFinite DEF Timeline, Vetted
    <3>2. \A s \in listed : s >= low /\ s < t + 1
      BY <1>1, <2>1, <3>1 DEF Kinds
    <3> QED
      BY <1>1, <1>7, <2>1, <3>2 DEF Pass, Kinds, rollup
  <2>3. Sighted'
    BY <1>1, <1>7, <2>1 DEF Pass, Sighted, Unseen
  <2> QED
    BY <1>2, <1>7, <2>2, <2>3 DEF Pass
<1>8. CASE ClockStep
  <2>1. Kinds' /\ Sighted'
    BY <1>1, <1>8 DEF ClockStep, Kinds, Sighted, Unseen, rollup
  <2> QED
    BY <1>2, <1>8, <2>1 DEF ClockStep
<1>9. CASE UNCHANGED vars
  <2>1. Kinds' /\ Sighted'
    BY <1>1, <1>9 DEF vars, Kinds, Sighted, Unseen, rollup
  <2> QED
    BY <1>2, <1>9, <2>1 DEF vars
<1> QED
  BY <1>3, <1>4, <1>5, <1>6, <1>7, <1>8, <1>9 DEF Next

-----------------------------------------------------------------------------
(* The live card.                                                           *)

\* The first segment listed gives the start of the summary.
LEMMA SummaryStart ==
  ASSUME Timed, listed # {}
  PROVE  \E s \in listed : Summary = start[s]
<1> DEFINE T == {start[s] : s \in listed}
<1>1. listed \in SUBSET Seg /\ start \in [Seg -> Int] /\ Seg \subseteq Nat
  BY SegFinite DEF Timed, Timeline, Vetted
<1>2. \A s \in listed : Earliest <= start[s]
  <2> TAKE s \in listed
  <2>1. Vote(start, s) \in Marks
    BY DEF Timed, Timeline, Vetted
  <2>2. Vote(start, s) \in Int /\ Earliest <= Vote(start, s)
    BY <2>1, MarksInt DEF Timed, Kinds
  <2>3. s \in Nat /\ start[s] \in Int /\ Earliest \in Int
    BY <1>1, TimeAssumption DEF Earliest, Timed, Kinds
  <2> QED
    BY <2>2, <2>3 DEF Vote
<1>3. T \in SUBSET Int /\ T # {} /\ \A v \in T : Earliest <= v
  BY <1>1, <1>2
<1> HIDE DEF T
<1>4. \E v \in T : \A w \in T : v <= w
  <2>1. Earliest \in Int
    BY TimeAssumption DEF Earliest, Timed, Kinds
  <2> QED
    BY <1>3, <2>1, Least
<1>5. Summary = CHOOSE v \in T : \A s \in listed : v <= start[s]
  BY DEF Summary, T
<1>6. \E v \in T : \A s \in listed : v <= start[s]
  BY <1>4 DEF T
<1>7. Summary \in T
  BY <1>5, <1>6
<1> QED
  BY <1>7 DEF T

LEMMA TimedLive == Timed => LiveHonest
<1> SUFFICES ASSUME Timed, first # Unseen, FarOff \/ Settled
             PROVE  /\ Elapsed \in 0..t
                    /\ \/ Elapsed >= t - first.mono
                       \/ \E s \in listed : Elapsed >= t - s - 2 * Window
  BY DEF LiveHonest
<1> DEFINE e == t + wall - Started
<1>1. /\ t \in Nat /\ t <= Day /\ wall \in {0, -lag}
      /\ behind \in {0, lag} /\ Day \in Nat /\ lag \in Nat
      /\ Cold \in Nat /\ Late \in Nat /\ Window \in Nat /\ Late <= Window
  BY TimeAssumption DEF Timed, Kinds
<1>2. /\ first.mono \in Nat /\ first.mono <= t /\ first.wall \in Int
      /\ first.wall - first.mono \in {0, -lag}
  BY <1>1 DEF Timed, Sighted
<1>3. Elapsed = IF Believed(e) THEN e ELSE t - first.mono
  BY DEF Elapsed
<1>4. CASE ~Believed(e)
  BY <1>1, <1>2, <1>3, <1>4
<1>5. CASE Believed(e) /\ listed = {}
  <2>1. Started = first.wall
    BY <1>5 DEF Started
  <2>2. 0 <= e /\ e < Day /\ Elapsed = e
    BY <1>3, <1>5 DEF Believed
  <2>3. e = t - first.mono
    <3>1. CASE FarOff
      BY <1>1, <1>2, <2>1, <2>2, <3>1 DEF FarOff
    <3>2. CASE Settled
      BY <1>1, <1>2, <1>5, <2>1, <3>2 DEF Settled
    <3> QED
      BY <3>1, <3>2
  <2> HIDE DEF e
  <2> QED
    BY <1>1, <1>2, <2>2, <2>3
<1>6. CASE Believed(e) /\ listed # {}
  <2>1. PICK s \in listed : Summary = start[s]
    BY <1>6, SummaryStart
  <2>2. Started = start[s]
    BY <1>6, <2>1 DEF Started
  <2>3. s \in Seg /\ s \in Nat /\ start[s] \in Int /\ Vote(start, s) \in Marks
    BY SegFinite DEF Timed, Timeline, Vetted
  <2>4. start[s] - s \in Marks
    BY <2>3 DEF Vote
  <2>5. s < t
    BY DEF Timed, Kinds
  <2>6. 0 <= e /\ e < Day /\ Elapsed = e
    BY <1>3, <1>6 DEF Believed
  <2>7. e = t - s \/ e = t - s - Late
    <3>1. CASE FarOff
      <4>1. start[s] - s \in {0, Late} \/ start[s] - s = -Cold \/ start[s] - s = -lag
        BY <1>1, <2>4 DEF Marks
      <4>2. start[s] - s \in {0, Late} /\ wall = -lag => e < 0
        BY <1>1, <2>2, <2>3, <2>5, <3>1 DEF FarOff
      <4>3. start[s] - s = -Cold => e < 0 \/ e >= Day
        <5>1. Cold > Day /\ (lag - Cold > Day \/ Cold - lag > Day)
          BY <1>1, <3>1 DEF FarOff, Abs
        <5>2. start[s] - s = -Cold => e = t - s + Cold + wall
          BY <1>1, <2>2, <2>3
        <5> HIDE DEF e
        <5> QED
          BY <1>1, <2>3, <2>5, <5>1, <5>2
      <4>4. start[s] - s = -lag => e = t - s \/ e >= Day
        BY <1>1, <2>2, <2>3, <2>5, <3>1 DEF FarOff
      <4>5. start[s] - s \in {0, Late} /\ wall = 0 => e = t - s \/ e = t - s - Late
        <5>1. e = t + wall - start[s]
          BY <2>2
        <5> HIDE DEF e
        <5>2. CASE start[s] = s
          BY <1>1, <2>3, <5>1, <5>2
        <5>3. CASE start[s] = s + Late
          BY <1>1, <2>3, <5>1, <5>3
        <5> QED
          BY <1>1, <2>3, <5>2, <5>3
      <4>6. (wall = 0 \/ wall = -lag) /\ e \in Int /\ Day \in Nat
        BY <1>1, <2>2, <2>3
      <4> HIDE DEF e
      <4>7. ~(e < 0) /\ ~(e >= Day)
        BY <2>6, <4>6
      <4> QED
        BY <4>1, <4>2, <4>3, <4>4, <4>5, <4>6, <4>7, Zenon
    <3>2. CASE Settled
      <4>1. wall = 0 /\ start[s] - s \in {0, Late}
        <5>1. wall = 0 /\ Anchored(listed) # {} /\ ~fooled
          BY <1>6, <3>2 DEF Settled
        <5>2. Vote(start, s) \in {0, Late}
          BY <5>1 DEF Timed, Timeline
        <5> QED
          BY <5>1, <5>2 DEF Vote
      <4>2. e = t + wall - start[s]
        BY <2>2
      <4> HIDE DEF e
      <4>3. CASE start[s] = s
        BY <1>1, <2>3, <4>1, <4>2, <4>3
      <4>4. CASE start[s] = s + Late
        BY <1>1, <2>3, <4>1, <4>2, <4>4
      <4> QED
        BY <1>1, <2>3, <4>1, <4>3, <4>4
    <3> QED
      BY <3>1, <3>2
  <2> HIDE DEF e
  <2>8. e <= t /\ e >= t - s - 2 * Window /\ e \in Int
    BY <1>1, <2>3, <2>7
  <2> QED
    BY <1>1, <2>6, <2>8
<1> QED
  BY <1>4, <1>5, <1>6

-----------------------------------------------------------------------------
LEMMA TimedAlways == Spec => []Timed
BY TimedInit, TimedNext, PTL DEF Spec

\* Every variable of Clock holds a value of its kind: what rotates away is not
\* listed, and no median or best anchor is looked for in vain.
THEOREM TypeCorrect == Spec => []TypeOK
BY TimedAlways, TimedTypeOK, PTL

\* The segments of an anchored drive lie at most two windows apart, in whatever
\* order they were indexed, rotated away or were indexed again.
THEOREM OneTimelineCorrect == Spec => []OneTimeline
BY TimedAlways, TimedOne, PTL

\* As long as the cold anchors of a rollup were never more than the good ones,
\* every segment of an anchored drive is where it was recorded, to a window.
THEOREM TrueTimelineCorrect == Spec => []TrueTimeline
BY TimedAlways, TimedTrue, PTL

\* The live card shows no more than the drive has lasted and no less than what is
\* known of it, through every step of the clock and every cold anchor while all
\* errors are beyond a day, and after errors of any size once clock and timeline
\* are right.
THEOREM LiveCorrect == Spec => []LiveHonest
BY TimedAlways, TimedLive, PTL
=============================================================================
