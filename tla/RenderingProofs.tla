---------------------------- MODULE RenderingProofs ----------------------------
(***************************************************************************)
(* Proofs about Rendering for every set of sites, any number of edits and  *)
(* every position.                                                         *)
(***************************************************************************)
EXTENDS RenderingInv, NumberFacts, SequenceTheorems, FiniteSetTheorems, TLAPS

-----------------------------------------------------------------------------
(***************************************************************************)
(* The order of render_text: what sort_by returns.                         *)
(***************************************************************************)

\* Dots are in one line.
LEMMA BeforeOrders ==
  ASSUME NEW d \in Dot, NEW e \in Dot, NEW f \in Dot
  PROVE  /\ ~Before(d, d)
         /\ Before(d, e) => ~Before(e, d)
         /\ Before(d, e) /\ Before(e, f) => Before(d, f)
         /\ d = e \/ Before(d, e) \/ Before(e, d)
<1>1. /\ d = [site |-> d.site, n |-> d.n] /\ d.site \in Nat /\ d.n \in Nat
      /\ e = [site |-> e.site, n |-> e.n] /\ e.site \in Nat /\ e.n \in Nat
      /\ f.site \in Nat /\ f.n \in Nat
  BY NameAssumption DEF Dot
<1> QED BY <1>1 DEF Before

\* No two edits share a dot.
Distinct(q) == \A i, j \in DOMAIN q : q[i].dot = q[j].dot => i = j

Rising(q) == \A i, j \in DOMAIN q : i < j => Before(q[i].dot, q[j].dot)

\* What stands in its place in a sequence of edits.
LEMMA EditAt ==
  ASSUME NEW q \in Seq(Edit)
  PROVE  DOMAIN q = 1 .. Len(q) /\ Len(q) \in Nat /\ \A i \in 1 .. Len(q) : q[i] \in Edit /\ q[i].dot \in Dot
<1>1. \A e \in Edit : e.dot \in Dot
  BY DEF Edit
<1>2. DOMAIN q = 1 .. Len(q) /\ Len(q) \in Nat /\ \A i \in 1 .. Len(q) : q[i] \in Edit
  OBVIOUS
<1> QED BY <1>1, <1>2

\* Among distinct edits each is preceded by another number of them, so that
\* each has a place of its own: sorting loses none, repeats none, and the
\* result rises.
LEMMA InOrderSorts ==
  ASSUME NEW q \in Seq(Edit), Distinct(q)
  PROVE  /\ InOrder(q) \in Seq(Edit) /\ Len(InOrder(q)) = Len(q)
         /\ Range(InOrder(q)) = Range(q)
         /\ Rising(InOrder(q))
<1> DEFINE n == Len(q)
           D == 1 .. n
           P(k) == {j \in D : Precedes(q, j, k)}
           rank == [k \in D |-> Cardinality(P(k))]
           At(i) == CHOOSE k \in D : Cardinality(P(k)) = i - 1
           p == InOrder(q)
<1>1. DOMAIN q = D /\ n \in Nat /\ \A i \in D : q[i] \in Edit /\ q[i].dot \in Dot
  BY EditAt
<1>2. IsFiniteSet(D) /\ Cardinality(D) = n
  <2>1. 1 \in Int /\ n \in Int
    BY <1>1
  <2>2. IsFiniteSet(1 .. n) /\ Cardinality(1 .. n) = IF 1 > n THEN 0 ELSE n - 1 + 1
    BY <2>1, FS_Interval
  <2> QED BY <2>2, <1>1
<1>3. \A k, l \in D : Precedes(q, k, l) <=> Before(q[k].dot, q[l].dot)
  BY <1>1, BeforeOrders DEF Precedes, Distinct
<1>4. \A k \in D : IsFiniteSet(P(k)) /\ Cardinality(P(k)) \in 0 .. n - 1
  <2> SUFFICES ASSUME NEW k \in D PROVE IsFiniteSet(P(k)) /\ Cardinality(P(k)) \in 0 .. n - 1
    OBVIOUS
  <2>1. P(k) \in SUBSET D /\ k \notin P(k)
    BY <1>1, <1>3, BeforeOrders
  <2> HIDE DEF P, D
  <2>2. IsFiniteSet(P(k)) /\ Cardinality(P(k)) <= n /\ Cardinality(P(k)) # n
    BY <1>2, <2>1, FS_Subset
  <2> QED BY <2>2, <1>1, FS_CardinalityType
<1>5. \A k, l \in D : Before(q[k].dot, q[l].dot) => rank[k] < rank[l]
  <2> SUFFICES ASSUME NEW k \in D, NEW l \in D, Before(q[k].dot, q[l].dot) PROVE rank[k] < rank[l]
    OBVIOUS
  <2>1. P(k) \in SUBSET P(l) /\ k \in P(l) /\ k \notin P(k)
    BY <1>1, <1>3, BeforeOrders
  <2>2. rank[k] = Cardinality(P(k)) /\ rank[l] = Cardinality(P(l))
    OBVIOUS
  <2> HIDE DEF P, D, rank
  <2>3. Cardinality(P(k)) <= Cardinality(P(l)) /\ Cardinality(P(k)) # Cardinality(P(l))
    BY <1>4, <2>1, FS_Subset
  <2> QED BY <2>2, <2>3, <1>4
<1>6. rank \in Injection(D, 0 .. n - 1)
  <2>1. rank \in [D -> 0 .. n - 1]
    BY <1>4
  <2>2. \A k, l \in D : rank[k] = rank[l] => k = l
    <3> SUFFICES ASSUME NEW k \in D, NEW l \in D, rank[k] = rank[l], k # l PROVE FALSE
      OBVIOUS
    <3>1. rank[k] \in 0 .. n - 1 /\ rank[l] \in 0 .. n - 1
      BY <2>1
    <3>2. Before(q[k].dot, q[l].dot) \/ Before(q[l].dot, q[k].dot)
      BY <1>1, BeforeOrders DEF Distinct
    <3>3. rank[k] < rank[l] \/ rank[l] < rank[k]
      BY <1>5, <3>2
    <3> HIDE DEF rank
    <3> QED BY <3>1, <3>3
  <2> QED BY <2>1, <2>2 DEF Injection, IsInjective
<1>7. \A i \in D : \E k \in D : rank[k] = i - 1
  <2>1. IsFiniteSet(0 .. n - 1) /\ Cardinality(0 .. n - 1) = n
    <3>1. 0 \in Int /\ n - 1 \in Int
      BY <1>1
    <3> DEFINE l == n - 1
    <3>2. IsFiniteSet(0 .. l) /\ Cardinality(0 .. l) = IF 0 > l THEN 0 ELSE l - 0 + 1
      <4> HIDE DEF l
      <4> QED BY <3>1, FS_Interval DEF l
    <3> QED BY <3>2, <1>1
  <2>2. rank \in Surjection(D, 0 .. n - 1)
    <3> HIDE DEF rank, D, n
    <3> QED BY <1>2, <1>6, <2>1, FS_Injection
  <2>3. \A i \in D : i - 1 \in 0 .. n - 1
    BY <1>1
  <2> QED BY <2>2, <2>3 DEF Surjection
<1>8. \A i \in D : At(i) \in D /\ rank[At(i)] = i - 1
  <2> SUFFICES ASSUME NEW i \in D PROVE At(i) \in D /\ rank[At(i)] = i - 1
    OBVIOUS
  <2>1. PICK k \in D : rank[k] = i - 1
    BY <1>7
  <2>2. At(i) \in D /\ Cardinality(P(At(i))) = i - 1
    BY <2>1
  <2> QED BY <2>2
<1>9. p = [i \in D |-> q[At(i)]]
  BY <1>1 DEF InOrder
<1> HIDE DEF At, rank, P, p
<1>10. p \in Seq(Edit) /\ Len(p) = n /\ DOMAIN p = D
  BY <1>1, <1>8, <1>9
<1>11. Range(p) = Range(q)
  <2>1. \A i \in DOMAIN p : \E k \in DOMAIN q : p[i] = q[k]
    BY <1>1, <1>8, <1>9, <1>10
  <2>2. \A k \in DOMAIN q : \E i \in DOMAIN p : p[i] = q[k]
    <3> SUFFICES ASSUME NEW k \in D PROVE \E i \in D : p[i] = q[k]
      BY <1>1, <1>10
    <3>1. rank[k] \in 0 .. n - 1
      BY <1>6 DEF Injection
    <3>2. rank[k] + 1 \in D /\ (rank[k] + 1) - 1 = rank[k]
      BY <3>1, <1>1
    <3>3. At(rank[k] + 1) \in D /\ rank[At(rank[k] + 1)] = rank[k]
      BY <1>8, <3>2
    <3>4. At(rank[k] + 1) = k
      BY <1>6, <3>3 DEF Injection, IsInjective
    <3> QED BY <1>9, <3>2, <3>4
  <2> QED BY <2>1, <2>2 DEF Range
<1>12. \A i, j \in D : i < j => Before(p[i].dot, p[j].dot)
  <2> SUFFICES ASSUME NEW i \in D, NEW j \in D, i < j PROVE Before(q[At(i)].dot, q[At(j)].dot)
    BY <1>9
  <2>1. At(i) \in D /\ At(j) \in D /\ rank[At(i)] = i - 1 /\ rank[At(j)] = j - 1
    BY <1>8
  <2>2. ~(rank[At(j)] < rank[At(i)]) /\ rank[At(i)] # rank[At(j)]
    BY <2>1, <1>1
  <2>3. ~Before(q[At(j)].dot, q[At(i)].dot) /\ At(i) # At(j)
    BY <2>1, <2>2, <1>5
  <2> QED BY <2>1, <2>3, <1>1, BeforeOrders DEF Distinct
<1> QED BY <1>10, <1>11, <1>12 DEF Rising, p

-----------------------------------------------------------------------------
(***************************************************************************)
(* The loop of render_text: the texts it passes through.                   *)
(***************************************************************************)

\* One turn of the loop: an edit that is not valid is passed over.
Drawn(text, e, marked) == IF e.dot \in marked THEN ApplyEdit(text, e) ELSE text

\* c[i] is the text after the first i edits of p.
TextChain(c, p, marked) ==
  /\ c[0] = << >>
  /\ \A i \in 1 .. Len(p) : c[i] = Drawn(c[i - 1], p[i], marked)

\* The texts that folding p passes through, by the sets of positions done.
Folded(g, p, k, marked) ==
  g = [s \in SUBSET (1 .. k) |->
         IF s = {} THEN << >> ELSE Drawn(g[s \ {Max(s)}], p[Max(s)], marked)]

\* The greatest of a set of positions.
LEMMA MaxOf ==
  ASSUME NEW k \in Nat, NEW s \in SUBSET (1 .. k)
  PROVE  /\ s # {} => Max(s) \in s /\ \A x \in s : x <= Max(s)
         /\ k \in s => Max(s) = k
<1>1. s \in SUBSET Nat /\ \A x \in s : x <= k
  OBVIOUS
<1>2. ASSUME s # {} PROVE Max(s) \in s /\ \A x \in s : x <= Max(s)
  <2>1. \E m \in s : \A x \in s : x <= m
    BY <1>1, <1>2, MaxExists
  <2>2. PICK m \in s : \A x \in s : m >= x
    BY <1>1, <2>1
  <2>3. Max(s) \in s /\ \A x \in s : Max(s) >= x
    BY <2>2 DEF Max
  <2> QED BY <1>1, <2>3
<1>3. ASSUME k \in s PROVE Max(s) = k
  <2>1. Max(s) \in s /\ k <= Max(s)
    BY <1>2, <1>3
  <2>2. Max(s) \in Nat /\ Max(s) <= k
    BY <1>1, <2>1
  <2> HIDE DEF Max
  <2> QED BY <2>1, <2>2
<1> QED BY <1>2, <1>3

\* There is one more turn of the loop after any number of them.
LEMMA FoldedNext ==
  ASSUME NEW p, NEW k \in Nat, NEW marked, NEW g, Folded(g, p, k, marked)
  PROVE  \E h : Folded(h, p, k + 1, marked)
<1> DEFINE h == [s \in SUBSET (1 .. k + 1) |->
                   IF k + 1 \in s THEN Drawn(g[s \ {k + 1}], p[k + 1], marked) ELSE g[s]]
           rhs(s) == IF s = {} THEN << >> ELSE Drawn(h[s \ {Max(s)}], p[Max(s)], marked)
<1>0. k + 1 \in Nat /\ \A s \in SUBSET (1 .. k) : s \in SUBSET (1 .. k + 1) /\ k + 1 \notin s
  OBVIOUS
<1>1. \A s \in SUBSET (1 .. k) :
        g[s] = IF s = {} THEN << >> ELSE Drawn(g[s \ {Max(s)}], p[Max(s)], marked)
  BY DEF Folded
<1>2. \A s \in SUBSET (1 .. k) : h[s] = g[s]
  BY <1>0
<1>3. ASSUME NEW s \in SUBSET (1 .. k + 1) PROVE h[s] = rhs(s)
  <2>1. CASE k + 1 \in s
    <3>1. Max(s) = k + 1 /\ s # {}
      BY <1>0, <2>1, MaxOf
    <3>2. s \ {k + 1} \in SUBSET (1 .. k)
      OBVIOUS
    <3>3. h[s] = Drawn(g[s \ {k + 1}], p[k + 1], marked)
      BY <2>1
    <3> HIDE DEF h
    <3>4. h[s \ {k + 1}] = g[s \ {k + 1}]
      BY <1>2, <3>2
    <3> QED BY <3>1, <3>3, <3>4
  <2>2. CASE k + 1 \notin s
    <3>1. s \in SUBSET (1 .. k)
      BY <2>2
    <3>2. s # {} => s \ {Max(s)} \in SUBSET (1 .. k)
      BY <3>1
    <3> HIDE DEF h
    <3> QED BY <1>1, <1>2, <3>1, <3>2
  <2> QED BY <2>1, <2>2
<1>4. h = [s \in SUBSET (1 .. k + 1) |-> rhs(s)]
  BY <1>3
<1>5. Folded(h, p, k + 1, marked)
  <2> HIDE DEF h
  <2> QED BY <1>4 DEF Folded
<1> QED BY <1>5

\* The loop can be run to its end, so that the fold is what it leaves.
LEMMA FoldedExists ==
  ASSUME NEW p, NEW n \in Nat, NEW marked
  PROVE  \E g : Folded(g, p, n, marked)
<1> DEFINE S == {k \in Nat : \E g : Folded(g, p, k, marked)}
<1>1. 0 \in S
  <2> DEFINE g == [s \in SUBSET (1 .. 0) |-> << >>]
  <2>1. \A s \in SUBSET (1 .. 0) : s = {}
    OBVIOUS
  <2>2. g = [s \in SUBSET (1 .. 0) |->
               IF s = {} THEN << >> ELSE Drawn(g[s \ {Max(s)}], p[Max(s)], marked)]
    BY <2>1
  <2>3. Folded(g, p, 0, marked)
    <3> HIDE DEF g
    <3> QED BY <2>2 DEF Folded
  <2> QED BY <2>3
<1>2. \A i \in 0 .. n : i < n /\ i \in S => i + 1 \in S
  <2> SUFFICES ASSUME NEW i \in 0 .. n, i \in S PROVE i + 1 \in S
    OBVIOUS
  <2>1. i \in Nat /\ i + 1 \in Nat
    OBVIOUS
  <2>2. PICK g : Folded(g, p, i, marked)
    OBVIOUS
  <2>3. \E h : Folded(h, p, i + 1, marked)
    BY <2>1, <2>2, FoldedNext
  <2> QED BY <2>1, <2>3
<1>3. n \in S
  <2> HIDE DEF S
  <2> QED BY <1>1, <1>2, Climb
<1> QED BY <1>3

\* The texts of the loop, in order.
LEMMA ChainOfTexts ==
  ASSUME NEW p \in Seq(Edit), NEW marked, NEW g, Folded(g, p, Len(p), marked)
  PROVE  TextChain([i \in 0 .. Len(p) |-> g[1 .. i]], p, marked)
<1> DEFINE n == Len(p)
           c == [i \in 0 .. n |-> g[1 .. i]]
<1>1. n \in Nat
  OBVIOUS
<1>2. c[0] = << >>
  <2>1. 1 .. 0 = {} /\ {} \in SUBSET (1 .. n) /\ 0 \in 0 .. n
    BY <1>1
  <2>2. g[{}] = << >>
    BY <2>1 DEF Folded
  <2> QED BY <2>1, <2>2
<1>3. ASSUME NEW i \in 1 .. n PROVE c[i] = Drawn(c[i - 1], p[i], marked)
  <2>1. /\ i \in Nat /\ i \in 1 .. i /\ i \in 0 .. n /\ i - 1 \in 0 .. n
        /\ 1 .. i \in SUBSET (1 .. n) /\ 1 .. i \in SUBSET (1 .. i) /\ (1 .. i) \ {i} = 1 .. i - 1
    BY <1>1
  <2>2. Max(1 .. i) = i
    BY <2>1, MaxOf
  <2>3. g[1 .. i] = Drawn(g[(1 .. i) \ {i}], p[i], marked)
    BY <2>1, <2>2 DEF Folded
  <2> QED BY <2>1, <2>3
<1> QED BY <1>2, <1>3 DEF TextChain

\* render_text returns the last text of its loop.
LEMMA RenderTextIsChain ==
  ASSUME NEW q, NEW marked, InOrder(q) \in Seq(Edit)
  PROVE  \E c : /\ TextChain(c, InOrder(q), marked)
                /\ RenderText(q, marked) = c[Len(InOrder(q))]
<1> DEFINE p == InOrder(q)
           n == Len(p)
           g == CHOOSE iter : Folded(iter, p, n, marked)
           c == [i \in 0 .. n |-> g[1 .. i]]
<1>1. n \in Nat /\ DOMAIN p = 1 .. n
  OBVIOUS
<1>2. Folded(g, p, n, marked)
  BY <1>1, FoldedExists
<1>3. RenderText(q, marked) = g[1 .. n]
  BY <1>1 DEF RenderText, FoldLeft, MapThenFoldSet, Folded, Drawn, Max
<1>4. TextChain(c, p, marked)
  <2> HIDE DEF g, p
  <2> QED BY <1>2, ChainOfTexts
<1>5. c[n] = g[1 .. n]
  BY <1>1
<1> QED BY <1>3, <1>4, <1>5

-----------------------------------------------------------------------------
(***************************************************************************)
(* Texts.                                                                  *)
(***************************************************************************)

\* Where everything stands once x is at position i of t.
LEMMA Inserted ==
  ASSUME NEW S, NEW t \in Seq(S), NEW i \in 1 .. Len(t) + 1, NEW x \in S
  PROVE  /\ InsertAt(t, i, x) \in Seq(S) /\ Len(InsertAt(t, i, x)) = Len(t) + 1
         /\ \A j \in 1 .. Len(t) + 1 :
              InsertAt(t, i, x)[j] = IF j < i THEN t[j] ELSE IF j = i THEN x ELSE t[j - 1]
<1> DEFINE a == SubSeq(t, 1, i - 1)
           b == SubSeq(t, i, Len(t))
<1>1. Len(t) \in Nat /\ i \in Int /\ i - 1 \in Int /\ 1 \in Int /\ \A j \in 1 .. Len(t) : t[j] \in S
  OBVIOUS
<1>2. a \in Seq(S) /\ Len(a) = i - 1 /\ \A j \in 1 .. i - 1 : a[j] = t[j]
  <2>1. \A j \in 1 .. i - 1 : t[j] \in S
    BY <1>1
  <2>2. /\ a \in Seq(S) /\ Len(a) = IF 1 <= i - 1 THEN i - 1 - 1 + 1 ELSE 0
        /\ \A j \in 1 .. i - 1 - 1 + 1 : a[j] = t[1 + j - 1]
    BY <1>1, <2>1, SubSeqProperties
  <2> QED BY <1>1, <2>2
<1>3. b \in Seq(S) /\ Len(b) = Len(t) - i + 1 /\ \A j \in 1 .. Len(t) - i + 1 : b[j] = t[i + j - 1]
  <2>1. \A j \in i .. Len(t) : t[j] \in S
    BY <1>1
  <2>2. /\ b \in Seq(S) /\ Len(b) = IF i <= Len(t) THEN Len(t) - i + 1 ELSE 0
        /\ \A j \in 1 .. Len(t) - i + 1 : b[j] = t[i + j - 1]
    BY <1>1, <2>1, SubSeqProperties
  <2> QED BY <1>1, <2>2
<1>4. << x >> \in Seq(S) /\ Len(<< x >>) = 1 /\ << x >>[1] = x
  OBVIOUS
<1> HIDE DEF a, b
<1>5. /\ a \o << x >> \in Seq(S) /\ Len(a \o << x >>) = i
      /\ \A j \in 1 .. i : (a \o << x >>)[j] = IF j < i THEN t[j] ELSE x
  <2>1. /\ a \o << x >> \in Seq(S) /\ Len(a \o << x >>) = Len(a) + Len(<< x >>)
        /\ \A j \in 1 .. Len(a) + Len(<< x >>) :
             (a \o << x >>)[j] = IF j <= Len(a) THEN a[j] ELSE << x >>[j - Len(a)]
    BY <1>2, <1>4, ConcatProperties
  <2> QED BY <1>1, <1>2, <1>4, <2>1
<1> DEFINE u == a \o << x >>
<1>6. /\ u \o b \in Seq(S) /\ Len(u \o b) = Len(u) + Len(b)
      /\ \A j \in 1 .. Len(u) + Len(b) : (u \o b)[j] = IF j <= Len(u) THEN u[j] ELSE b[j - Len(u)]
  <2>1. u \in Seq(S)
    BY <1>5
  <2> HIDE DEF u
  <2> QED BY <1>3, <2>1, ConcatProperties
<1>7. InsertAt(t, i, x) = u \o b
  BY DEF InsertAt, a, b
<1> HIDE DEF u
<1>8. Len(u) = i /\ Len(b) = Len(t) - i + 1 /\ \A j \in 1 .. i : u[j] = IF j < i THEN t[j] ELSE x
  BY <1>3, <1>5 DEF u
<1>9. ASSUME NEW j \in 1 .. Len(t) + 1
      PROVE  (u \o b)[j] = IF j < i THEN t[j] ELSE IF j = i THEN x ELSE t[j - 1]
  <2>1. (u \o b)[j] = IF j <= i THEN u[j] ELSE b[j - i]
    BY <1>1, <1>6, <1>8
  <2>2. j <= i => u[j] = IF j < i THEN t[j] ELSE x
    BY <1>1, <1>8
  <2>3. ~(j <= i) => b[j - i] = t[j - 1]
    <3> SUFFICES ASSUME ~(j <= i) PROVE b[j - i] = t[j - 1]
      OBVIOUS
    <3>1. j - i \in 1 .. Len(t) - i + 1 /\ i + (j - i) - 1 = j - 1
      BY <1>1
    <3> QED BY <1>3, <3>1
  <2> QED BY <1>1, <2>1, <2>2, <2>3
<1> QED BY <1>1, <1>6, <1>7, <1>8, <1>9

\* Where everything stands once position i of t is taken out.
LEMMA Removed ==
  ASSUME NEW S, NEW t \in Seq(S), NEW i \in 1 .. Len(t)
  PROVE  /\ RemoveAt(t, i) \in Seq(S) /\ Len(RemoveAt(t, i)) = Len(t) - 1
         /\ \A j \in 1 .. Len(t) - 1 : RemoveAt(t, i)[j] = IF j < i THEN t[j] ELSE t[j + 1]
<1> DEFINE a == SubSeq(t, 1, i - 1)
           b == SubSeq(t, i + 1, Len(t))
<1>1. /\ Len(t) \in Nat /\ i \in Int /\ i - 1 \in Int /\ i + 1 \in Int /\ 1 \in Int
      /\ \A j \in 1 .. Len(t) : t[j] \in S
  OBVIOUS
<1>2. a \in Seq(S) /\ Len(a) = i - 1 /\ \A j \in 1 .. i - 1 : a[j] = t[j]
  <2>1. \A j \in 1 .. i - 1 : t[j] \in S
    BY <1>1
  <2>2. /\ a \in Seq(S) /\ Len(a) = IF 1 <= i - 1 THEN i - 1 - 1 + 1 ELSE 0
        /\ \A j \in 1 .. i - 1 - 1 + 1 : a[j] = t[1 + j - 1]
    BY <1>1, <2>1, SubSeqProperties
  <2> QED BY <1>1, <2>2
<1>3. b \in Seq(S) /\ Len(b) = Len(t) - i /\ \A j \in 1 .. Len(t) - i : b[j] = t[i + j]
  <2>1. \A j \in i + 1 .. Len(t) : t[j] \in S
    BY <1>1
  <2>2. /\ b \in Seq(S) /\ Len(b) = IF i + 1 <= Len(t) THEN Len(t) - (i + 1) + 1 ELSE 0
        /\ \A j \in 1 .. Len(t) - (i + 1) + 1 : b[j] = t[(i + 1) + j - 1]
    BY <1>1, <2>1, SubSeqProperties
  <2> QED BY <1>1, <2>2
<1> HIDE DEF a, b
<1>4. /\ a \o b \in Seq(S) /\ Len(a \o b) = Len(a) + Len(b)
      /\ \A j \in 1 .. Len(a) + Len(b) : (a \o b)[j] = IF j <= Len(a) THEN a[j] ELSE b[j - Len(a)]
  BY <1>2, <1>3, ConcatProperties
<1>5. RemoveAt(t, i) = a \o b
  BY DEF RemoveAt, a, b
<1>6. ASSUME NEW j \in 1 .. Len(t) - 1
      PROVE  (a \o b)[j] = IF j < i THEN t[j] ELSE t[j + 1]
  <2>1. (a \o b)[j] = IF j <= i - 1 THEN a[j] ELSE b[j - (i - 1)]
    BY <1>1, <1>2, <1>3, <1>4
  <2>2. j < i => a[j] = t[j]
    BY <1>1, <1>2
  <2>3. ~(j < i) => b[j - (i - 1)] = t[j + 1]
    <3> SUFFICES ASSUME ~(j < i) PROVE b[j - (i - 1)] = t[j + 1]
      OBVIOUS
    <3>1. j - (i - 1) \in 1 .. Len(t) - i /\ i + (j - (i - 1)) = j + 1
      BY <1>1
    <3> QED BY <1>3, <3>1
  <2> QED BY <1>1, <2>1, <2>2, <2>3
<1>7. Len(a) + Len(b) = Len(t) - 1
  BY <1>1, <1>2, <1>3
<1>8. a \o b \in Seq(S) /\ Len(a \o b) = Len(t) - 1
  BY <1>4, <1>7
<1> QED BY <1>5, <1>6, <1>8

\* Taking out what was put in gives the text back.
LEMMA RemoveInserted ==
  ASSUME NEW S, NEW t \in Seq(S), NEW i \in 1 .. Len(t) + 1, NEW x \in S
  PROVE  RemoveAt(InsertAt(t, i, x), i) = t
<1> DEFINE u == InsertAt(t, i, x)
           v == RemoveAt(u, i)
<1>1. /\ u \in Seq(S) /\ Len(u) = Len(t) + 1
      /\ \A j \in 1 .. Len(t) + 1 : u[j] = IF j < i THEN t[j] ELSE IF j = i THEN x ELSE t[j - 1]
  BY Inserted
<1> HIDE DEF u
<1>2. i \in 1 .. Len(u) /\ Len(t) \in Nat /\ Len(u) - 1 = Len(t)
  BY <1>1
<1>3. v \in Seq(S) /\ Len(v) = Len(t) /\ \A j \in 1 .. Len(t) : v[j] = IF j < i THEN u[j] ELSE u[j + 1]
  BY <1>1, <1>2, Removed
<1> HIDE DEF v
<1>4. ASSUME NEW j \in 1 .. Len(t) PROVE v[j] = t[j]
  <2>1. j \in 1 .. Len(t) + 1 /\ j + 1 \in 1 .. Len(t) + 1 /\ (j + 1) - 1 = j
    BY <1>2
  <2>2. CASE j < i
    BY <1>1, <1>3, <2>1, <2>2
  <2>3. CASE ~(j < i)
    <3>1. ~(j + 1 < i) /\ j + 1 # i
      BY <2>1, <2>3
    <3> QED BY <1>1, <1>3, <2>1, <2>3, <3>1
  <2> QED BY <2>2, <2>3
<1>5. v = t
  BY <1>3, <1>4
<1> QED BY <1>5 DEF u, v

\* A character that was not there yet is there once after its insert.
LEMMA InsertKeeps ==
  ASSUME NEW S, NEW t \in Seq(S), IsInjective(t), NEW i \in 1 .. Len(t) + 1,
         NEW x \in S, x \notin Range(t)
  PROVE  /\ InsertAt(t, i, x) \in Seq(S) /\ IsInjective(InsertAt(t, i, x))
         /\ Range(InsertAt(t, i, x)) \subseteq Range(t) \union {x}
<1> DEFINE u == InsertAt(t, i, x)
<1>1. /\ u \in Seq(S) /\ Len(u) = Len(t) + 1
      /\ \A j \in 1 .. Len(t) + 1 : u[j] = IF j < i THEN t[j] ELSE IF j = i THEN x ELSE t[j - 1]
  BY Inserted
<1>2. Len(t) \in Nat /\ DOMAIN t = 1 .. Len(t)
  OBVIOUS
<1> HIDE DEF u
<1>3. DOMAIN u = 1 .. Len(t) + 1
  BY <1>1
<1> DEFINE from(j) == IF j < i THEN j ELSE j - 1
<1>4. ASSUME NEW j \in 1 .. Len(t) + 1, j # i PROVE from(j) \in DOMAIN t /\ u[j] = t[from(j)]
  <2>1. from(j) \in 1 .. Len(t)
    BY <1>2, <1>4
  <2>2. u[j] = t[from(j)]
    BY <1>1, <1>4
  <2> QED BY <1>2, <2>1, <2>2
<1>5. u[i] = x
  BY <1>1, <1>2
<1>6. \A j \in DOMAIN t : t[j] \in Range(t)
  BY DEF Range
<1>7. \A j, k \in 1 .. Len(t) + 1 : j # i /\ k # i /\ from(j) = from(k) => j = k
  BY <1>2
<1>8. \A j, k \in DOMAIN t : t[j] = t[k] => j = k
  BY DEF IsInjective
<1> HIDE DEF from
<1>9. IsInjective(u)
  <2> SUFFICES ASSUME NEW j \in 1 .. Len(t) + 1, NEW k \in 1 .. Len(t) + 1, u[j] = u[k] PROVE j = k
    BY <1>3 DEF IsInjective
  <2>1. CASE j = i \/ k = i
    BY <1>4, <1>5, <1>6, <2>1
  <2>2. CASE j # i /\ k # i
    BY <1>4, <1>7, <1>8, <2>2
  <2> QED BY <2>1, <2>2
<1>10. Range(u) \subseteq Range(t) \union {x}
  BY <1>3, <1>4, <1>5, <1>6 DEF Range
<1> QED BY <1>1, <1>9, <1>10 DEF u

\* The characters a delete leaves are those that were there, each once.
LEMMA RemoveKeeps ==
  ASSUME NEW S, NEW t \in Seq(S), IsInjective(t), NEW i \in 1 .. Len(t)
  PROVE  /\ RemoveAt(t, i) \in Seq(S) /\ IsInjective(RemoveAt(t, i))
         /\ Range(RemoveAt(t, i)) \subseteq Range(t)
<1> DEFINE u == RemoveAt(t, i)
           from(j) == IF j < i THEN j ELSE j + 1
<1>1. /\ u \in Seq(S) /\ Len(u) = Len(t) - 1
      /\ \A j \in 1 .. Len(t) - 1 : u[j] = IF j < i THEN t[j] ELSE t[j + 1]
  BY Removed
<1>2. Len(t) \in Nat /\ DOMAIN t = 1 .. Len(t)
  OBVIOUS
<1> HIDE DEF u
<1>3. DOMAIN u = 1 .. Len(t) - 1
  BY <1>1
<1>4. \A j \in 1 .. Len(t) - 1 : from(j) \in DOMAIN t /\ u[j] = t[from(j)]
  BY <1>1, <1>2
<1>5. \A j, k \in 1 .. Len(t) - 1 : from(j) = from(k) => j = k
  BY <1>2
<1>6. \A j, k \in DOMAIN t : t[j] = t[k] => j = k
  BY DEF IsInjective
<1> HIDE DEF from
<1>7. IsInjective(u)
  BY <1>3, <1>4, <1>5, <1>6 DEF IsInjective
<1>8. Range(u) \subseteq Range(t)
  BY <1>3, <1>4 DEF Range
<1> QED BY <1>1, <1>7, <1>8 DEF u

\* The dots of the valid inserts among the first i edits of p.
Shown(p, i, marked) ==
  {p[j].dot : j \in {l \in 1 .. i : p[l].kind = "Insert" /\ p[l].dot \in marked}}

\* A text of the loop: characters of valid inserts done so far, each once.
Legible(text, p, i, marked) ==
  text \in Seq(Dot) /\ IsInjective(text) /\ Range(text) \subseteq Shown(p, i, marked)

\* A turn of the loop leaves such a text.
LEMMA TurnKeeps ==
  ASSUME NEW p \in Seq(Edit), Rising(p), NEW marked, NEW i \in 1 .. Len(p), NEW text,
         Legible(text, p, i - 1, marked)
  PROVE  Legible(Drawn(text, p[i], marked), p, i, marked)
<1> DEFINE e == p[i]
<1>1. /\ DOMAIN p = 1 .. Len(p) /\ Len(p) \in Nat
      /\ \A j \in 1 .. Len(p) : p[j] \in Edit /\ p[j].dot \in Dot
  BY EditAt
<1>2. text \in Seq(Dot) /\ IsInjective(text) /\ Range(text) \subseteq Shown(p, i - 1, marked)
  BY DEF Legible
<1>3. Shown(p, i - 1, marked) \subseteq Shown(p, i, marked)
  BY <1>1 DEF Shown
<1>4. e.dot \notin Range(text)
  <2>1. \A j \in 1 .. i - 1 : p[j].dot # e.dot
    <3> SUFFICES ASSUME NEW j \in 1 .. i - 1 PROVE p[j].dot # e.dot
      OBVIOUS
    <3>1. j \in DOMAIN p /\ i \in DOMAIN p /\ j < i
      BY <1>1
    <3>2. Before(p[j].dot, e.dot)
      BY <3>1 DEF Rising
    <3> QED BY <1>1, <3>1, <3>2, BeforeOrders
  <2> QED BY <1>2, <2>1 DEF Shown
<1>5. e.kind \in {"Insert", "Delete"} /\ e.pos \in Nat
  BY <1>1, BoundAssumption DEF Edit
<1>6. Len(text) \in Nat
  BY <1>2
<1> HIDE DEF e
<1>7. CASE e.dot \notin marked
  BY <1>2, <1>3, <1>7 DEF Legible, Drawn, e
<1>8. CASE e.dot \in marked /\ e.kind = "Insert"
  <2> DEFINE at == (IF e.pos <= Len(text) THEN e.pos ELSE Len(text)) + 1
  <2>1. at \in 1 .. Len(text) + 1
    BY <1>5, <1>6
  <2>2. Drawn(text, e, marked) = InsertAt(text, at, e.dot)
    BY <1>8 DEF Drawn, ApplyEdit
  <2>3. e.dot \in Shown(p, i, marked)
    BY <1>8 DEF Shown, e
  <2>4. e.dot \in Dot
    BY <1>1 DEF e
  <2> HIDE DEF at
  <2>5. /\ InsertAt(text, at, e.dot) \in Seq(Dot) /\ IsInjective(InsertAt(text, at, e.dot))
        /\ Range(InsertAt(text, at, e.dot)) \subseteq Range(text) \union {e.dot}
    BY <1>2, <1>4, <2>1, <2>4, InsertKeeps
  <2>6. Legible(InsertAt(text, at, e.dot), p, i, marked)
    BY <1>2, <1>3, <2>3, <2>5 DEF Legible
  <2> QED BY <2>2, <2>6 DEF e
<1>9. CASE e.dot \in marked /\ e.kind # "Insert" /\ e.pos < Len(text)
  <2> DEFINE at == e.pos + 1
  <2>1. at \in 1 .. Len(text)
    BY <1>5, <1>6, <1>9
  <2>2. Drawn(text, e, marked) = RemoveAt(text, at)
    BY <1>9 DEF Drawn, ApplyEdit
  <2> HIDE DEF at
  <2>3. /\ RemoveAt(text, at) \in Seq(Dot) /\ IsInjective(RemoveAt(text, at))
        /\ Range(RemoveAt(text, at)) \subseteq Range(text)
    BY <1>2, <2>1, RemoveKeeps
  <2>4. Legible(RemoveAt(text, at), p, i, marked)
    BY <1>2, <1>3, <2>3 DEF Legible
  <2> QED BY <2>2, <2>4 DEF e
<1>10. CASE e.dot \in marked /\ e.kind # "Insert" /\ ~(e.pos < Len(text))
  <2>1. Drawn(text, e, marked) = text
    BY <1>10 DEF Drawn, ApplyEdit
  <2> QED BY <1>2, <1>3, <2>1 DEF Legible, e
<1> QED BY <1>7, <1>8, <1>9, <1>10

\* So does the whole loop.
LEMMA ChainLegible ==
  ASSUME NEW p \in Seq(Edit), Rising(p), NEW marked, NEW c, TextChain(c, p, marked)
  PROVE  \A i \in 0 .. Len(p) : Legible(c[i], p, i, marked)
<1> DEFINE S == {i \in 0 .. Len(p) : Legible(c[i], p, i, marked)}
<1>1. Len(p) \in Nat
  OBVIOUS
<1>2. 0 \in S
  <2>1. << >> \in Seq(Dot) /\ IsInjective(<< >>) /\ Range(<< >>) = {}
    BY DEF IsInjective, Range
  <2>2. c[0] = << >>
    BY DEF TextChain
  <2>3. Legible(<< >>, p, 0, marked)
    BY <2>1 DEF Legible
  <2> QED BY <1>1, <2>2, <2>3
<1>3. \A i \in 0 .. Len(p) : i < Len(p) /\ i \in S => i + 1 \in S
  <2> SUFFICES ASSUME NEW i \in 0 .. Len(p), i < Len(p), i \in S PROVE i + 1 \in S
    OBVIOUS
  <2>1. i + 1 \in 1 .. Len(p) /\ (i + 1) - 1 = i
    BY <1>1
  <2>2. c[i + 1] = Drawn(c[i], p[i + 1], marked)
    BY <2>1 DEF TextChain
  <2>3. Legible(c[i], p, (i + 1) - 1, marked)
    BY <2>1
  <2>4. Legible(Drawn(c[i], p[i + 1], marked), p, i + 1, marked)
    BY <2>1, <2>3, TurnKeeps
  <2> QED BY <2>1, <2>2, <2>4
<1>4. \A i \in 0 .. Len(p) : i \in S
  <2> HIDE DEF S
  <2> QED BY <1>1, <1>2, <1>3, Climb
<1> QED BY <1>4

-----------------------------------------------------------------------------
(***************************************************************************)
(* What a text depends on: the valid edits and nothing else.               *)
(***************************************************************************)

\* The valid ones of the first i edits of p.
MarkedUpTo(p, i, marked) == {p[j] : j \in {l \in 1 .. i : p[l].dot \in marked}}

\* An edit that is not valid adds nothing to them; one that is, is the last of them.
LEMMA LastMarked ==
  ASSUME NEW p \in Seq(Edit), Rising(p), NEW marked, NEW i \in 1 .. Len(p)
  PROVE  /\ p[i].dot \notin marked => MarkedUpTo(p, i, marked) = MarkedUpTo(p, i - 1, marked)
         /\ p[i].dot \in marked =>
              /\ p[i] \in MarkedUpTo(p, i, marked)
              /\ \A f \in MarkedUpTo(p, i, marked) : f = p[i] \/ Before(f.dot, p[i].dot)
              /\ MarkedUpTo(p, i - 1, marked) = MarkedUpTo(p, i, marked) \ {p[i]}
<1>1. /\ DOMAIN p = 1 .. Len(p) /\ Len(p) \in Nat
      /\ \A j \in 1 .. Len(p) : p[j] \in Edit /\ p[j].dot \in Dot
  BY EditAt
<1>2. 1 .. i = (1 .. i - 1) \union {i} /\ 1 .. i \subseteq 1 .. Len(p)
  BY <1>1
<1>3. ASSUME NEW j \in 1 .. i - 1 PROVE Before(p[j].dot, p[i].dot) /\ p[j] # p[i]
  <2>1. j \in DOMAIN p /\ i \in DOMAIN p /\ j < i
    BY <1>1
  <2>2. Before(p[j].dot, p[i].dot)
    BY <2>1 DEF Rising
  <2> QED BY <1>1, <2>1, <2>2, BeforeOrders
<1>4. ASSUME p[i].dot \notin marked
      PROVE  MarkedUpTo(p, i, marked) = MarkedUpTo(p, i - 1, marked)
  BY <1>2, <1>4 DEF MarkedUpTo
<1>5. ASSUME p[i].dot \in marked
      PROVE  MarkedUpTo(p, i, marked) = MarkedUpTo(p, i - 1, marked) \union {p[i]}
  BY <1>2, <1>5 DEF MarkedUpTo
<1>6. \A f \in MarkedUpTo(p, i - 1, marked) : Before(f.dot, p[i].dot) /\ f # p[i]
  BY <1>3 DEF MarkedUpTo
<1> QED BY <1>4, <1>5, <1>6

\* Two loops that have done the same valid edits are at the same text, whatever
\* edits that are not valid either has passed over.
LEMMA SameMarkedSameText ==
  ASSUME NEW p \in Seq(Edit), Rising(p), NEW m, NEW c, TextChain(c, p, m),
         NEW r \in Seq(Edit), Rising(r), NEW l, NEW d, TextChain(d, r, l)
  PROVE  \A i \in 0 .. Len(p), j \in 0 .. Len(r) :
           MarkedUpTo(p, i, m) = MarkedUpTo(r, j, l) => c[i] = d[j]
<1> DEFINE Good(i, j) == MarkedUpTo(p, i, m) = MarkedUpTo(r, j, l) => c[i] = d[j]
           n == Len(p) + Len(r)
           S == {k \in Nat : \A i \in 0 .. Len(p), j \in 0 .. Len(r) : i + j <= k => Good(i, j)}
<1>1. /\ DOMAIN p = 1 .. Len(p) /\ Len(p) \in Nat /\ DOMAIN r = 1 .. Len(r) /\ Len(r) \in Nat
      /\ \A i \in 1 .. Len(p) : p[i] \in Edit /\ p[i].dot \in Dot
      /\ \A i \in 1 .. Len(r) : r[i] \in Edit /\ r[i].dot \in Dot
  BY EditAt
<1>2. Good(0, 0)
  BY DEF TextChain
<1>3. ASSUME NEW i \in 1 .. Len(p), NEW j \in 0 .. Len(r), p[i].dot \notin m, Good(i - 1, j)
      PROVE  Good(i, j)
  <2>1. MarkedUpTo(p, i, m) = MarkedUpTo(p, i - 1, m)
    BY <1>3, LastMarked
  <2>2. c[i] = c[i - 1]
    BY <1>3 DEF TextChain, Drawn
  <2> QED BY <1>3, <2>1, <2>2
<1>4. ASSUME NEW i \in 0 .. Len(p), NEW j \in 1 .. Len(r), r[j].dot \notin l, Good(i, j - 1)
      PROVE  Good(i, j)
  <2>1. MarkedUpTo(r, j, l) = MarkedUpTo(r, j - 1, l)
    BY <1>4, LastMarked
  <2>2. d[j] = d[j - 1]
    BY <1>4 DEF TextChain, Drawn
  <2> QED BY <1>4, <2>1, <2>2
<1>5. ASSUME NEW i \in 1 .. Len(p), NEW j \in 1 .. Len(r), p[i].dot \in m, r[j].dot \in l,
             Good(i - 1, j - 1)
      PROVE  Good(i, j)
  <2> SUFFICES ASSUME MarkedUpTo(p, i, m) = MarkedUpTo(r, j, l) PROVE c[i] = d[j]
    OBVIOUS
  <2>1. /\ p[i] \in MarkedUpTo(p, i, m)
        /\ \A f \in MarkedUpTo(p, i, m) : f = p[i] \/ Before(f.dot, p[i].dot)
        /\ MarkedUpTo(p, i - 1, m) = MarkedUpTo(p, i, m) \ {p[i]}
    BY <1>5, LastMarked
  <2>2. /\ r[j] \in MarkedUpTo(r, j, l)
        /\ \A f \in MarkedUpTo(r, j, l) : f = r[j] \/ Before(f.dot, r[j].dot)
        /\ MarkedUpTo(r, j - 1, l) = MarkedUpTo(r, j, l) \ {r[j]}
    BY <1>5, LastMarked
  <2>3. p[i] = r[j]
    <3>1. r[j] = p[i] \/ (Before(r[j].dot, p[i].dot) /\ Before(p[i].dot, r[j].dot))
      BY <2>1, <2>2
    <3> QED BY <1>1, <3>1, BeforeOrders
  <2>4. c[i - 1] = d[j - 1]
    BY <1>5, <2>1, <2>2, <2>3
  <2>5. c[i] = Drawn(c[i - 1], p[i], m) /\ d[j] = Drawn(d[j - 1], r[j], l)
    BY DEF TextChain
  <2> QED BY <1>5, <2>3, <2>4, <2>5 DEF Drawn
<1>6. ASSUME NEW i \in 1 .. Len(p), p[i].dot \in m PROVE Good(i, 0)
  <2>1. p[i] \in MarkedUpTo(p, i, m)
    BY <1>6, LastMarked
  <2>2. MarkedUpTo(r, 0, l) = {}
    BY DEF MarkedUpTo
  <2> QED BY <2>1, <2>2
<1>7. ASSUME NEW j \in 1 .. Len(r), r[j].dot \in l PROVE Good(0, j)
  <2>1. r[j] \in MarkedUpTo(r, j, l)
    BY <1>7, LastMarked
  <2>2. MarkedUpTo(p, 0, m) = {}
    BY DEF MarkedUpTo
  <2> QED BY <2>1, <2>2
<1> HIDE DEF Good
<1>8. 0 \in S
  <2>1. \A i \in 0 .. Len(p), j \in 0 .. Len(r) : i + j <= 0 => i = 0 /\ j = 0
    BY <1>1
  <2> QED BY <1>2, <2>1
<1>9. \A k \in 0 .. n : k < n /\ k \in S => k + 1 \in S
  <2> SUFFICES ASSUME NEW k \in 0 .. n, k \in S, NEW i \in 0 .. Len(p), NEW j \in 0 .. Len(r),
                      i + j <= k + 1
               PROVE  Good(i, j)
    BY <1>1
  <2>1. i > 0 => i \in 1 .. Len(p) /\ i - 1 \in 0 .. Len(p) /\ (i - 1) + j <= k
    BY <1>1
  <2>2. j > 0 => j \in 1 .. Len(r) /\ j - 1 \in 0 .. Len(r) /\ i + (j - 1) <= k
    BY <1>1
  <2>3. i > 0 \/ i = 0
    BY <1>1
  <2>4. j > 0 \/ j = 0
    BY <1>1
  <2>5. i > 0 => Good(i - 1, j)
    BY <2>1
  <2>6. j > 0 => Good(i, j - 1)
    BY <2>2
  <2>7. CASE i > 0 /\ p[i].dot \notin m
    BY <1>3, <2>1, <2>5, <2>7
  <2>8. CASE j > 0 /\ r[j].dot \notin l
    BY <1>4, <2>2, <2>6, <2>8
  <2>9. CASE i > 0 /\ p[i].dot \in m /\ j > 0 /\ r[j].dot \in l
    <3>1. (i - 1) + (j - 1) <= k
      BY <1>1, <2>1, <2>2
    <3>2. Good(i - 1, j - 1)
      BY <2>1, <2>2, <2>9, <3>1
    <3> QED BY <1>5, <2>1, <2>2, <2>9, <3>2
  <2>10. CASE i > 0 /\ p[i].dot \in m /\ j = 0
    BY <1>6, <2>1, <2>10
  <2>11. CASE i = 0 /\ j > 0 /\ r[j].dot \in l
    BY <1>7, <2>2, <2>11
  <2>12. CASE i = 0 /\ j = 0
    BY <1>2, <2>12
  <2> QED BY <2>3, <2>4, <2>7, <2>8, <2>9, <2>10, <2>11, <2>12
<1>10. ASSUME NEW i \in 0 .. Len(p), NEW j \in 0 .. Len(r) PROVE Good(i, j)
  <2>1. n \in Nat /\ i + j \in 0 .. n
    BY <1>1
  <2>2. \A k \in 0 .. n : k \in S
    <3> HIDE DEF S, n
    <3> QED BY <1>8, <1>9, <2>1, Climb
  <2> QED BY <2>1, <2>2
<1> QED BY <1>10 DEF Good

-----------------------------------------------------------------------------
(***************************************************************************)
(* The invariant.                                                          *)
(***************************************************************************)

\* No log holds a dot twice.
EachOnce == \A s \in Site : Distinct(log[s])

\* An edit that enters a log is held there, once, and by no other site.
LEMMA EntryKeeps ==
  ASSUME TextTyped, OnlyIssued, EachOnce, NEW s \in Site, NEW e \in Edit,
         e.dot \notin DotsIn(log[s]), log' = [log EXCEPT ![s] = Append(@, e)],
         Judge(s, e.dot), issued \subseteq issued', e \in issued'
  PROVE  /\ log' \in [Site -> Seq(Edit)] /\ valid' \in [Site -> SUBSET Dot]
         /\ OnlyIssued' /\ EachOnce'
<1>1. log \in [Site -> Seq(Edit)] /\ valid \in [Site -> SUBSET Dot]
  BY DEF TextTyped
<1>2. e.dot \in Dot
  BY DEF Edit
<1> DEFINE q == log[s]
           l == Append(q, e)
<1>3. q \in Seq(Edit) /\ Len(q) \in Nat /\ DOMAIN q = 1 .. Len(q)
  BY <1>1
<1>4. /\ l \in Seq(Edit) /\ Len(l) = Len(q) + 1
      /\ \A i \in 1 .. Len(q) : l[i] = q[i]
      /\ l[Len(q) + 1] = e
  <2> HIDE DEF q
  <2> QED BY <1>3, AppendProperties
<1>5. log'[s] = l /\ \A r \in Site : r # s => log'[r] = log[r]
  BY <1>1
<1>6. /\ \A d \in valid'[s] : d \in valid[s] \/ d = e.dot
      /\ \A r \in Site : r # s => valid'[r] = valid[r]
      /\ valid' \in [Site -> SUBSET Dot]
  BY <1>1, <1>2 DEF Judge
<1>7. log' \in [Site -> Seq(Edit)]
  <2> HIDE DEF l
  <2> QED BY <1>1, <1>4 DEF l
<1> HIDE DEF l, q
<1>8. DOMAIN l = DOMAIN q \union {Len(q) + 1} /\ Len(q) + 1 \notin DOMAIN q
  BY <1>3, <1>4
<1>9. Range(l) = Range(q) \union {e}
  BY <1>3, <1>4, <1>8 DEF Range
<1>10. DotsIn(l) = DotsIn(q) \union {e.dot}
  BY <1>9 DEF DotsIn
<1>11. OnlyIssued'
  <2> SUFFICES ASSUME NEW r \in Site
               PROVE  Range(log'[r]) \subseteq issued' /\ valid'[r] \subseteq DotsIn(log'[r])
    BY DEF OnlyIssued, DotsIn
  <2>1. Range(log[r]) \subseteq issued /\ valid[r] \subseteq DotsIn(log[r])
    BY DEF OnlyIssued
  <2> QED BY <1>5, <1>6, <1>9, <1>10, <2>1 DEF q
<1>12. Distinct(l)
  <2>1. \A i, j \in DOMAIN q : q[i].dot = q[j].dot => i = j
    BY DEF EachOnce, Distinct, q
  <2>2. \A i \in DOMAIN q : q[i].dot # e.dot
    BY DEF DotsIn, Range, q
  <2>3. \A i \in DOMAIN l : (i \in DOMAIN q /\ l[i] = q[i]) \/ (i = Len(q) + 1 /\ l[i] = e)
    BY <1>3, <1>4, <1>8
  <2> QED BY <2>1, <2>2, <2>3 DEF Distinct
<1>13. EachOnce'
  <2> SUFFICES ASSUME NEW r \in Site PROVE Distinct(log'[r])
    BY DEF EachOnce, Distinct
  <2>1. Distinct(log[r])
    BY DEF EachOnce
  <2> QED BY <1>5, <1>12, <2>1
<1> QED BY <1>6, <1>7, <1>11, <1>13

\* The invariant, with the part about logs by its name.
LEMMA RenderingParts ==
  RenderingIInv <=> /\ TextTyped /\ OnlyIssued /\ EachOnce /\ NumbersTaken
                    /\ \A e, d \in issued : e.dot = d.dot => e = d
  BY DEF RenderingIInv, DotsName, EachOnce, Distinct

\* A new edit takes a number no edit has.
LEMMA UpdateKeeps ==
  ASSUME RenderingIInv, NEW s \in Site, NEW kind \in {"Insert", "Delete"},
         NEW pos \in 0 .. MaxPos, UpdateDocument(s, kind, pos)
  PROVE  RenderingIInv' /\ issued \subseteq issued'
<1> DEFINE own == IssuedBy(s)
           num == Cardinality(own) + 1
           new == [dot |-> [site |-> s, n |-> num], kind |-> kind, pos |-> pos,
                   past |-> DotsIn(log[s])]
<1>1. /\ TextTyped /\ OnlyIssued /\ EachOnce /\ NumbersTaken
      /\ \A e, d \in issued : e.dot = d.dot => e = d
  BY RenderingParts
<1>2. /\ issued' = issued \union {new} /\ log' = [log EXCEPT ![s] = Append(@, new)]
      /\ Judge(s, new.dot)
  BY DEF UpdateDocument, IssuedBy
<1>3. issued \subseteq Edit /\ \A e \in issued : e.dot \in Dot
  BY <1>1 DEF TextTyped, Edit
<1>4. IsFiniteSet(own) /\ Cardinality(own) \in Nat /\ \A e \in own : e.dot.n <= Cardinality(own)
  <2>1. IsFiniteSet(own) /\ \A e \in own : e.dot.n <= Cardinality(own)
    BY <1>1 DEF NumbersTaken
  <2> HIDE DEF own
  <2> QED BY <2>1, FS_CardinalityType
<1> HIDE DEF own
<1>5. num \in Nat \ {0}
  BY <1>4
<1>6. Range(log[s]) \subseteq issued
  BY <1>1 DEF OnlyIssued
<1>7. DotsIn(log[s]) \in SUBSET Dot
  BY <1>3, <1>6 DEF DotsIn
<1>8. new \in Edit /\ new.dot \in Dot /\ new.dot.site = s /\ new.dot.n = num
  BY <1>5, <1>7 DEF Edit, Dot
<1>9. \A e \in issued : e.dot # new.dot
  <2> SUFFICES ASSUME NEW e \in issued, e.dot = new.dot PROVE FALSE
    OBVIOUS
  <2>1. e.dot.site = s /\ e.dot.n = num
    BY <1>8
  <2>2. e \in own
    BY <2>1 DEF own, IssuedBy
  <2>3. num <= Cardinality(own)
    BY <1>4, <2>1, <2>2
  <2> QED BY <1>4, <2>3
<1> HIDE DEF new
<1>10. new.dot \notin DotsIn(log[s])
  BY <1>6, <1>9 DEF DotsIn
<1>11. issued \subseteq issued' /\ new \in issued' /\ issued' \subseteq Edit
  BY <1>2, <1>3, <1>8
<1>12. /\ log' \in [Site -> Seq(Edit)] /\ valid' \in [Site -> SUBSET Dot]
       /\ OnlyIssued' /\ EachOnce'
  BY <1>1, <1>2, <1>8, <1>10, <1>11, EntryKeeps
<1>13. TextTyped'
  BY <1>11, <1>12 DEF TextTyped
<1>14. \A e, d \in issued' : e.dot = d.dot => e = d
  BY <1>1, <1>2, <1>9
<1>15. NumbersTaken'
  <2> SUFFICES ASSUME NEW r \in Site
               PROVE  /\ IsFiniteSet(IssuedBy(r)')
                      /\ \A e \in IssuedBy(r)' : e.dot.n <= Cardinality(IssuedBy(r)')
    BY DEF NumbersTaken, IssuedBy
  <2>1. CASE r # s
    <3>1. IssuedBy(r)' = IssuedBy(r)
      BY <1>2, <1>8, <2>1 DEF IssuedBy
    <3> QED BY <1>1, <3>1 DEF NumbersTaken
  <2>2. CASE r = s
    <3>1. IssuedBy(r)' = own \union {new}
      BY <1>2, <1>8, <2>2 DEF IssuedBy, own
    <3>2. new \notin own
      BY <1>9 DEF own, IssuedBy
    <3>3. IsFiniteSet(own \union {new}) /\ Cardinality(own \union {new}) = num
      BY <1>4, <3>2, FS_AddElement
    <3>4. ASSUME NEW e \in own \union {new} PROVE e.dot.n <= num
      <4>1. CASE e = new
        BY <1>5, <1>8, <4>1
      <4>2. CASE e \in own
        <5>1. e.dot.n \in Nat /\ e.dot.n <= Cardinality(own)
          BY <1>3, <1>4, <4>2 DEF own, IssuedBy, Dot
        <5> QED BY <1>4, <5>1
      <4> QED BY <4>1, <4>2
    <3> QED BY <3>1, <3>3, <3>4
  <2> QED BY <2>1, <2>2
<1>16. RenderingIInv'
  BY <1>12, <1>13, <1>14, <1>15 DEF RenderingIInv, DotsName, EachOnce, Distinct
<1> QED BY <1>11, <1>16

\* An edit is taken from a peer only where its dot is not held yet.
LEMMA ReceiveKeeps ==
  ASSUME RenderingIInv, NEW s \in Site, NEW e \in issued, ReceiveDocument(s, e)
  PROVE  RenderingIInv' /\ issued \subseteq issued'
<1>1. /\ TextTyped /\ OnlyIssued /\ EachOnce /\ NumbersTaken
      /\ \A f, d \in issued : f.dot = d.dot => f = d
  BY RenderingParts
<1>2. /\ e.dot \notin DotsIn(log[s]) /\ log' = [log EXCEPT ![s] = Append(@, e)]
      /\ Judge(s, e.dot) /\ issued' = issued
  BY DEF ReceiveDocument
<1>3. e \in Edit
  BY <1>1 DEF TextTyped
<1>4. /\ log' \in [Site -> Seq(Edit)] /\ valid' \in [Site -> SUBSET Dot]
      /\ OnlyIssued' /\ EachOnce'
  BY <1>1, <1>2, <1>3, EntryKeeps
<1>5. TextTyped' /\ NumbersTaken'
  BY <1>1, <1>2, <1>4 DEF TextTyped, NumbersTaken, IssuedBy
<1>6. RenderingIInv'
  BY <1>1, <1>2, <1>4, <1>5 DEF RenderingIInv, DotsName, EachOnce, Distinct
<1> QED BY <1>2, <1>6

\* A rebuild judges what the site holds.
LEMMA RejudgeKeeps ==
  ASSUME RenderingIInv, NEW s \in Site, Rejudge(s)
  PROVE  RenderingIInv' /\ issued \subseteq issued'
<1>1. TextTyped /\ OnlyIssued /\ DotsName /\ NumbersTaken
  BY DEF RenderingIInv
<1>2. issued' = issued /\ log' = log
  BY DEF Rejudge
<1>3. PICK marked \in SUBSET DotsIn(log[s]) : valid' = [valid EXCEPT ![s] = marked]
  BY DEF Rejudge
<1>4. marked \subseteq Dot
  BY <1>1, <1>3 DEF TextTyped, OnlyIssued, DotsIn, Edit
<1>5. valid' \in [Site -> SUBSET Dot]
  BY <1>1, <1>3, <1>4 DEF TextTyped
<1>6. \A r \in Site : valid'[r] = IF r = s THEN marked ELSE valid[r]
  BY <1>1, <1>3 DEF TextTyped
<1>7. OnlyIssued'
  BY <1>1, <1>2, <1>6 DEF OnlyIssued, DotsIn
<1>8. TextTyped'
  BY <1>1, <1>2, <1>5 DEF TextTyped
<1>9. DotsName' /\ NumbersTaken'
  BY <1>1, <1>2 DEF DotsName, NumbersTaken, IssuedBy
<1> QED BY <1>2, <1>7, <1>8, <1>9 DEF RenderingIInv

\* Every step keeps the invariant, and no edit is ever unmade.
LEMMA RenderingStep ==
  ASSUME RenderingIInv, [Next]_vars
  PROVE  RenderingIInv' /\ issued \subseteq issued'
<1>1. CASE UNCHANGED vars
  <2>1. issued' = issued /\ log' = log /\ valid' = valid
    BY <1>1 DEF vars
  <2> QED BY <2>1 DEF RenderingIInv, TextTyped, OnlyIssued, DotsName, NumbersTaken, IssuedBy, DotsIn
<1>2. CASE Next
  <2>1. PICK s \in Site :
          \/ \E kind \in {"Insert", "Delete"}, pos \in 0 .. MaxPos : UpdateDocument(s, kind, pos)
          \/ \E e \in issued : ReceiveDocument(s, e)
          \/ Rejudge(s)
    BY <1>2 DEF Next
  <2> QED BY <2>1, UpdateKeeps, ReceiveKeeps, RejudgeKeeps
<1> QED BY <1>1, <1>2

\* Initially nothing is issued.
LEMMA RenderingInit == Init => RenderingIInv
<1> SUFFICES ASSUME Init PROVE RenderingIInv
  OBVIOUS
<1>1. issued = {} /\ log = [s \in Site |-> << >>] /\ valid = [s \in Site |-> {}]
  BY DEF Init
<1>2. TextTyped /\ OnlyIssued /\ DotsName
  BY <1>1 DEF TextTyped, OnlyIssued, DotsName, Range
<1>3. \A s \in Site : IssuedBy(s) = {}
  BY <1>1 DEF IssuedBy
<1>4. NumbersTaken
  BY <1>3, FS_EmptySet DEF NumbersTaken
<1> QED BY <1>2, <1>4 DEF RenderingIInv

\* The invariant behind the texts: a dot names one edit, no log has one twice,
\* and only edits that are held are judged.
THEOREM RenderingInvariance == Spec => []RenderingIInv
<1> QED BY RenderingInit, RenderingStep, PTL DEF Spec

-----------------------------------------------------------------------------
(***************************************************************************)
(* The text of a site.                                                     *)
(***************************************************************************)

\* The edits of q in their order, the loop over them and the text it leaves,
\* where known are the edits that have names.
Renders(p, c, q, m, known) ==
  /\ p \in Seq(Edit) /\ Rising(p) /\ Range(p) = Range(q)
  /\ TextChain(c, p, m) /\ RenderText(q, m) = c[Len(p)]
  /\ MarkedUpTo(p, Len(p), m) = {e \in known : e.dot \in m}

\* A log is rendered so: all that is judged valid is in it, so that the text is
\* a matter of the edits judged valid.
LEMMA LogRenders ==
  ASSUME NEW q \in Seq(Edit), Distinct(q), NEW known, Range(q) \subseteq known,
         \A e, d \in known : e.dot = d.dot => e = d, NEW m \in SUBSET DotsIn(q)
  PROVE  \E c : Renders(InOrder(q), c, q, m, known)
<1> DEFINE p == InOrder(q)
<1>1. p \in Seq(Edit) /\ Len(p) = Len(q) /\ Range(p) = Range(q) /\ Rising(p)
  BY InOrderSorts
<1>2. PICK c : TextChain(c, p, m) /\ RenderText(q, m) = c[Len(p)]
  BY <1>1, RenderTextIsChain
<1> HIDE DEF p
<1>3. DOMAIN p = 1 .. Len(p)
  BY <1>1
<1>4. MarkedUpTo(p, Len(p), m) = {e \in Range(p) : e.dot \in m}
  BY <1>3 DEF MarkedUpTo, Range
<1>5. {e \in Range(q) : e.dot \in m} = {e \in known : e.dot \in m}
  <2> SUFFICES ASSUME NEW e \in known, e.dot \in m PROVE e \in Range(q)
    OBVIOUS
  <2>1. PICK d \in Range(q) : d.dot = e.dot
    BY DEF DotsIn
  <2> QED BY <2>1
<1> QED BY <1>1, <1>2, <1>4, <1>5 DEF Renders, p

\* What the invariant says of one log, and the text that comes of it.
LEMMA TextRenders ==
  ASSUME RenderingIInv, NEW s \in Site
  PROVE  \E c : Renders(InOrder(log[s]), c, log[s], valid[s], issued)
<1>1. /\ log[s] \in Seq(Edit) /\ Distinct(log[s]) /\ Range(log[s]) \subseteq issued
      /\ \A e, d \in issued : e.dot = d.dot => e = d
      /\ valid[s] \in SUBSET DotsIn(log[s])
  BY RenderingParts DEF TextTyped, OnlyIssued, EachOnce
<1> QED BY <1>1, LogRenders

\* The same after a step.
LEMMA TextRendersNext ==
  ASSUME RenderingIInv', NEW s \in Site
  PROVE  \E c : Renders(InOrder(log'[s]), c, log'[s], valid'[s], issued')
<1>1. /\ log'[s] \in Seq(Edit) /\ Range(log'[s]) \subseteq issued'
      /\ \A e, d \in issued' : e.dot = d.dot => e = d
      /\ valid'[s] \in SUBSET DotsIn(log'[s])
      /\ \A i, j \in DOMAIN log'[s] : log'[s][i].dot = log'[s][j].dot => i = j
  BY DEF RenderingIInv, TextTyped, OnlyIssued, DotsName, DotsIn
<1>2. Distinct(log'[s])
  BY <1>1 DEF Distinct
<1> QED BY <1>1, <1>2, LogRenders

\* Every character in a text was brought by a valid insert and is there once.
THEOREM RenderingTypeCorrect == Spec => []TypeOK
<1>1. RenderingIInv => TypeOK
  <2> SUFFICES ASSUME RenderingIInv, NEW s \in Site
               PROVE  /\ IsInjective(Text(s))
                      /\ Range(Text(s)) \subseteq
                           {e.dot : e \in {d \in issued : d.kind = "Insert" /\ d.dot \in valid[s]}}
    BY DEF TypeOK, RenderingIInv, TextTyped, OnlyIssued
  <2> DEFINE p == InOrder(log[s])
  <2>1. PICK c : Renders(p, c, log[s], valid[s], issued)
    BY TextRenders
  <2>2. /\ p \in Seq(Edit) /\ Rising(p) /\ Range(p) = Range(log[s]) /\ TextChain(c, p, valid[s])
        /\ Text(s) = c[Len(p)]
    BY <2>1 DEF Renders, Text
  <2>3. Range(log[s]) \subseteq issued
    BY DEF RenderingIInv, OnlyIssued
  <2> HIDE DEF p
  <2>4. Len(p) \in 0 .. Len(p) /\ DOMAIN p = 1 .. Len(p)
    BY <2>2
  <2>5. Legible(Text(s), p, Len(p), valid[s])
    BY <2>2, <2>4, ChainLegible
  <2>6. Shown(p, Len(p), valid[s]) \subseteq
          {e.dot : e \in {d \in Range(p) : d.kind = "Insert" /\ d.dot \in valid[s]}}
    BY <2>4 DEF Shown, Range
  <2> QED BY <2>2, <2>3, <2>5, <2>6 DEF Legible
<1> QED BY <1>1, RenderingInvariance, PTL

\* Sites that consider the same edits valid show the same text.
THEOREM SameEditsShowSameText == Spec => []SameEditsSameText
<1>1. RenderingIInv => SameEditsSameText
  <2> SUFFICES ASSUME RenderingIInv, NEW s \in Site, NEW r \in Site, valid[s] = valid[r]
               PROVE  Text(s) = Text(r)
    BY DEF SameEditsSameText
  <2> DEFINE p == InOrder(log[s])
             o == InOrder(log[r])
  <2>1. PICK c : Renders(p, c, log[s], valid[s], issued)
    BY TextRenders
  <2>2. PICK d : Renders(o, d, log[r], valid[r], issued)
    BY TextRenders
  <2>3. Text(s) = c[Len(p)] /\ Text(r) = d[Len(o)]
    BY <2>1, <2>2 DEF Renders, Text
  <2> HIDE DEF p, o
  <2>4. /\ p \in Seq(Edit) /\ Rising(p) /\ TextChain(c, p, valid[s])
        /\ o \in Seq(Edit) /\ Rising(o) /\ TextChain(d, o, valid[r])
        /\ MarkedUpTo(p, Len(p), valid[s]) = MarkedUpTo(o, Len(o), valid[r])
    BY <2>1, <2>2 DEF Renders
  <2>5. Len(p) \in 0 .. Len(p) /\ Len(o) \in 0 .. Len(o)
    BY <2>4
  <2> QED BY <2>3, <2>4, <2>5, SameMarkedSameText
<1> QED BY <1>1, RenderingInvariance, PTL

\* The text is a function of the edits judged valid: any two logs that agree on
\* these, of two sites or of one at two times, are rendered alike, whatever else
\* is in them and however often edits were undone and redone in between.
THEOREM ValidEditsMakeTheText ==
  ASSUME NEW q \in Seq(Edit), Distinct(q), NEW m \in SUBSET DotsIn(q),
         NEW r \in Seq(Edit), Distinct(r), NEW l \in SUBSET DotsIn(r),
         {e \in Range(q) : e.dot \in m} = {e \in Range(r) : e.dot \in l}
  PROVE  RenderText(q, m) = RenderText(r, l)
<1> DEFINE p == InOrder(q)
           o == InOrder(r)
<1>1. ASSUME NEW t \in Seq(Edit), Distinct(t)
      PROVE  \A e, d \in Range(t) : e.dot = d.dot => e = d
  BY <1>1 DEF Distinct, Range
<1>2. PICK c : Renders(p, c, q, m, Range(q))
  BY <1>1, LogRenders
<1>3. PICK d : Renders(o, d, r, l, Range(r))
  BY <1>1, LogRenders
<1> HIDE DEF p, o
<1>4. RenderText(q, m) = c[Len(p)] /\ RenderText(r, l) = d[Len(o)]
  BY <1>2, <1>3 DEF Renders
<1>5. /\ p \in Seq(Edit) /\ Rising(p) /\ TextChain(c, p, m)
      /\ o \in Seq(Edit) /\ Rising(o) /\ TextChain(d, o, l)
      /\ MarkedUpTo(p, Len(p), m) = MarkedUpTo(o, Len(o), l)
  BY <1>2, <1>3 DEF Renders
<1>6. Len(p) \in 0 .. Len(p) /\ Len(o) \in 0 .. Len(o)
  BY <1>5
<1> QED BY <1>4, <1>5, <1>6, SameMarkedSameText

\* An edit does to a text what its author asked for.
LEMMA AppliedTakesEffect ==
  ASSUME NEW text \in Seq(Dot), NEW e \in Edit
  PROVE  TakesEffect(e, text, ApplyEdit(text, e))
<1>1. Len(text) \in Nat /\ e.pos \in Nat /\ e.dot \in Dot
  BY BoundAssumption DEF Edit
<1>2. ASSUME NEW at \in 1 .. Len(text) + 1, NEW x \in Dot
      PROVE  /\ Len(InsertAt(text, at, x)) = Len(text) + 1
             /\ InsertAt(text, at, x)[at] = x
             /\ RemoveAt(InsertAt(text, at, x), at) = text
  <2> DEFINE after == InsertAt(text, at, x)
  <2>1. /\ Len(after) = Len(text) + 1
        /\ \A j \in 1 .. Len(text) + 1 :
             after[j] = IF j < at THEN text[j] ELSE IF j = at THEN x ELSE text[j - 1]
    BY Inserted
  <2>2. RemoveAt(after, at) = text
    BY RemoveInserted
  <2>3. at \in 1 .. Len(text) + 1 /\ ~(at < at)
    BY <1>1
  <2> HIDE DEF after
  <2>4. after[at] = x
    BY <2>1, <2>3
  <2> QED BY <2>1, <2>2, <2>4 DEF after
<1>3. CASE e.kind = "Insert"
  <2> DEFINE at == (IF e.pos <= Len(text) THEN e.pos ELSE Len(text)) + 1
             x == e.dot
             after == InsertAt(text, at, x)
  <2>1. at \in 1 .. Len(text) + 1 /\ (at = e.pos + 1 \/ (at = Len(text) + 1 /\ e.pos >= at))
    BY <1>1
  <2>2. ApplyEdit(text, e) = after
    BY <1>3 DEF ApplyEdit
  <2>3. x \in Dot
    BY <1>1
  <2> HIDE DEF at, x
  <2>4. Len(after) = Len(text) + 1 /\ after[at] = x /\ RemoveAt(after, at) = text
    BY <1>2, <2>1, <2>3
  <2> HIDE DEF after
  <2>5. at \in 1 .. Len(after) /\ (at = e.pos + 1 \/ (at = Len(after) /\ e.pos >= at))
    BY <2>1, <2>4
  <2> QED BY <1>3, <2>2, <2>4, <2>5 DEF TakesEffect, x
<1>4. CASE e.kind # "Insert"
  BY <1>4 DEF TakesEffect, ApplyEdit
<1> QED BY <1>3, <1>4

\* The step at which an edit becomes valid by itself and is the last in order:
\* nothing valid comes after it, and what comes before it gives the text as it was.
LEMMA LastEditStep ==
  ASSUME RenderingIInv, RenderingIInv', issued \subseteq issued',
         NEW s \in Site, NEW e \in issued', e.dot \notin valid[s],
         valid'[s] = valid[s] \union {e.dot},
         \A d \in valid[s] : Before(d, e.dot)
  PROVE  TakesEffect(e, Text(s), TextAfter(s))
<1> DEFINE p == InOrder(log[s])
           r == InOrder(log'[s])
           m == valid[s]
           l == valid'[s]
<1>1. PICK c : Renders(p, c, log[s], m, issued)
  BY TextRenders
<1>2. PICK d : Renders(r, d, log'[s], l, issued')
  BY TextRendersNext
<1>3. Text(s) = c[Len(p)] /\ TextAfter(s) = d[Len(r)]
  BY <1>1, <1>2 DEF Renders, Text, TextAfter
<1>4. /\ Range(log[s]) \subseteq issued /\ m \subseteq DotsIn(log[s]) /\ m \subseteq Dot
      /\ \A f, g \in issued' : f.dot = g.dot => f = g
      /\ issued' \subseteq Edit
  BY DEF RenderingIInv, OnlyIssued, DotsName, TextTyped
<1> HIDE DEF p, r
<1>5. /\ p \in Seq(Edit) /\ Rising(p) /\ TextChain(c, p, m)
      /\ r \in Seq(Edit) /\ Rising(r) /\ TextChain(d, r, l)
      /\ MarkedUpTo(p, Len(p), m) = {f \in issued : f.dot \in m}
      /\ MarkedUpTo(r, Len(r), l) = {f \in issued' : f.dot \in l}
  BY <1>1, <1>2 DEF Renders
<1>6. /\ DOMAIN r = 1 .. Len(r) /\ Len(r) \in Nat /\ Len(p) \in Nat
      /\ \A i \in 1 .. Len(r) : r[i] \in Edit /\ r[i].dot \in Dot
  BY <1>5, EditAt
<1>7. PICK k \in 1 .. Len(r) : r[k] = e
  <2>1. e \in MarkedUpTo(r, Len(r), l)
    BY <1>5
  <2> QED BY <2>1 DEF MarkedUpTo
<1>8. e.dot \in Dot /\ e \in Edit
  BY <1>6, <1>7
<1>9. /\ MarkedUpTo(r, k, l) = MarkedUpTo(r, Len(r), l)
      /\ MarkedUpTo(r, k - 1, l) = MarkedUpTo(r, k, l) \ {e}
  <2>1. MarkedUpTo(r, k - 1, l) = MarkedUpTo(r, k, l) \ {r[k]}
    BY <1>5, <1>7, LastMarked
  <2>2. ASSUME NEW i \in 1 .. Len(r), r[i].dot \in l PROVE i \in 1 .. k
    <3> SUFFICES ASSUME k < i PROVE FALSE
      BY <1>6
    <3>1. Before(e.dot, r[i].dot)
      BY <1>5, <1>6, <1>7 DEF Rising
    <3>2. r[i].dot = e.dot \/ Before(r[i].dot, e.dot)
      BY <2>2
    <3> QED BY <1>6, <1>8, <3>1, <3>2, BeforeOrders
  <2>3. 1 .. k \subseteq 1 .. Len(r)
    BY <1>6
  <2>4. MarkedUpTo(r, k, l) = MarkedUpTo(r, Len(r), l)
    BY <2>2, <2>3 DEF MarkedUpTo
  <2> QED BY <1>7, <2>1, <2>4
<1>10. MarkedUpTo(r, k - 1, l) = MarkedUpTo(p, Len(p), m)
  <2>1. {f \in issued' : f.dot \in l} \ {e} = {f \in issued' : f.dot \in m}
    BY <1>4
  <2>2. {f \in issued' : f.dot \in m} = {f \in issued : f.dot \in m}
    <3> SUFFICES ASSUME NEW f \in issued', f.dot \in m PROVE f \in issued
      OBVIOUS
    <3>1. PICK g \in Range(log[s]) : g.dot = f.dot
      BY <1>4 DEF DotsIn
    <3> QED BY <1>4, <3>1
  <2> QED BY <1>5, <1>9, <2>1, <2>2
<1>11. k \in 0 .. Len(r) /\ k - 1 \in 0 .. Len(r) /\ Len(r) \in 0 .. Len(r) /\ Len(p) \in 0 .. Len(p)
  BY <1>6
<1>12. d[Len(r)] = d[k]
  BY <1>5, <1>9, <1>11, SameMarkedSameText
<1>13. d[k - 1] = c[Len(p)]
  <2> DEFINE j == k - 1
             n == Len(p)
  <2>1. j \in 0 .. Len(r) /\ n \in 0 .. Len(p) /\ MarkedUpTo(p, n, m) = MarkedUpTo(r, j, l)
    BY <1>10, <1>11
  <2> HIDE DEF j, n
  <2>2. c[n] = d[j]
    BY <1>5, <2>1, SameMarkedSameText
  <2> QED BY <2>2 DEF j, n
<1>14. d[k] = ApplyEdit(d[k - 1], e)
  BY <1>5, <1>7 DEF TextChain, Drawn
<1>15. d[k - 1] \in Seq(Dot)
  BY <1>5, <1>11, ChainLegible DEF Legible
<1> QED BY <1>3, <1>8, <1>12, <1>13, <1>14, <1>15, AppliedTakesEffect

\* The edits of the last author are never moved or lost: one that becomes valid
\* by itself has the effect its author asked for on the text as it is.
THEOREM LastEditsAreExact == Spec => LastEditExact
<1> DEFINE Exact ==
      \A s \in Site : \A e \in issued' :
        /\ e.dot \notin valid[s]
        /\ valid'[s] = valid[s] \union {e.dot}
        /\ \A d \in valid[s] : d.site < e.dot.site \/ (d.site = e.dot.site /\ d.n < e.dot.n)
        => TakesEffect(e, Text(s), TextAfter(s))
<1>1. RenderingIInv /\ RenderingIInv' /\ [Next]_vars => Exact
  <2> SUFFICES ASSUME RenderingIInv, RenderingIInv', [Next]_vars,
                      NEW s \in Site, NEW e \in issued',
                      e.dot \notin valid[s], valid'[s] = valid[s] \union {e.dot},
                      \A d \in valid[s] : d.site < e.dot.site \/ (d.site = e.dot.site /\ d.n < e.dot.n)
               PROVE  TakesEffect(e, Text(s), TextAfter(s))
    OBVIOUS
  <2>1. \A d \in valid[s] : Before(d, e.dot)
    BY DEF Before
  <2> QED BY <2>1, RenderingStep, LastEditStep
<1> HIDE DEF Exact
<1>2. Spec => [][Exact]_vars
  BY <1>1, RenderingInvariance, PTL DEF Spec
<1> QED BY <1>2 DEF Exact, LastEditExact
=============================================================================
