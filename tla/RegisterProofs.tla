----------------------------- MODULE RegisterProofs -----------------------------
(***************************************************************************)
(* Proofs about the validity register: what the graph of a tuple and the   *)
(* sweeps of rebuild_validity compute, for every log a site may have.      *)
(***************************************************************************)
EXTENDS AccureProofs, FiniteSetTheorems

-----------------------------------------------------------------------------
(***************************************************************************)
(* Ancestors: the operations an operation depends on, directly or not.     *)
(***************************************************************************)
BfsEq(f, g) ==
  f = [seen \in SUBSET g.nodes |->
         [queue \in SUBSET g.nodes |->
            IF queue = {}
              THEN seen
              ELSE f[seen \union queue]
                    [(UNION {Parents(g, x) : x \in queue}) \ (seen \union queue)]]]

Bfs(g) == CHOOSE f : BfsEq(f, g)

\* Ancestors is the result of the search.
LEMMA AncestorsIs == ASSUME NEW g, NEW d PROVE Ancestors(g, d) = Bfs(g)[{}][Parents(g, d)]
BY DEF Ancestors, Bfs, BfsEq

IsDag(g) == IsFiniteSet(g.nodes) /\ g.edges \subseteq g.nodes \X g.nodes

\* Edges come from nodes.
LEMMA ParentsAreNodes ==
  ASSUME NEW g, IsDag(g), NEW d
  PROVE  Parents(g, d) \subseteq g.nodes
BY DEF Parents, IsDag

\* The search as a loop over what it has seen and what it has queued; a round
\* adds the queue to what was seen, and the first may have them overlap.
SearchStates(g) == (SUBSET g.nodes) \X (SUBSET g.nodes)
SearchEnds(g) == {x \in SearchStates(g) : x[2] = {}}
Found(g) == [x \in SearchStates(g) |-> x[1]]
Unseen(g, s, q) == (UNION {Parents(g, x) : x \in q}) \ (s \union q)
SearchRound(g) == [x \in SearchStates(g) |-> << x[1] \union x[2], Unseen(g, x[1], x[2]) >>]
RoundsLeft(g) ==
  [x \in SearchStates(g) |->
     2 * Cardinality(g.nodes \ x[1]) + (IF x[2] \cap x[1] = {} THEN 0 ELSE 1)]

\* Every round leaves fewer.
LEMMA SearchRoundsEnd ==
  ASSUME NEW g, IsDag(g)
  PROVE  LoopEnds(SearchStates(g), SearchEnds(g), SearchRound(g), RoundsLeft(g))
<1> DEFINE N == g.nodes
<1>1. ASSUME NEW s \in SUBSET N, NEW q \in SUBSET N
      PROVE  << s, q >> \in SearchStates(g) /\ Unseen(g, s, q) \in SUBSET N
  BY ParentsAreNodes DEF SearchStates, Unseen
<1>2. ASSUME NEW s \in SUBSET N, NEW q \in SUBSET N
      PROVE  /\ Cardinality(N \ s) \in Nat
             /\ q \cap s = {} => RoundsLeft(g)[<< s, q >>] = 2 * Cardinality(N \ s)
             /\ q \cap s # {} => RoundsLeft(g)[<< s, q >>] = 2 * Cardinality(N \ s) + 1
  <2>1. IsFiniteSet(N \ s)
    BY FS_Subset DEF IsDag
  <2>2. Cardinality(N \ s) \in Nat
    BY <2>1, FS_CardinalityType
  <2> DEFINE c == Cardinality(N \ s)
  <2>3. RoundsLeft(g)[<< s, q >>] = 2 * c + (IF q \cap s = {} THEN 0 ELSE 1)
    BY <1>1 DEF RoundsLeft
  <2> HIDE DEF c
  <2>4. c \in Nat
    BY <2>2 DEF c
  <2> QED BY <2>3, <2>4 DEF c
<1>3. ASSUME NEW s \in SUBSET N, NEW q \in SUBSET N, q # {}
      PROVE  /\ << s \union q, Unseen(g, s, q) >> \in SearchStates(g)
             /\ RoundsLeft(g)[<< s \union q, Unseen(g, s, q) >>] < RoundsLeft(g)[<< s, q >>]
  <2> DEFINE a == Cardinality(N \ s)
             b == Cardinality(N \ (s \union q))
             u == Unseen(g, s, q)
  <2>1. a \in Nat /\ b \in Nat /\ b <= a /\ (~(q \subseteq s) => b < a)
    <3>1. IsFiniteSet(N \ s)
      BY FS_Subset DEF IsDag
    <3>2. N \ (s \union q) \subseteq N \ s
      OBVIOUS
    <3>3. ~(q \subseteq s) => N \ (s \union q) # N \ s
      OBVIOUS
    <3> QED BY <3>1, <3>2, <3>3, FS_Subset, FS_CardinalityType
  <2>2. u \in SUBSET N /\ s \union q \in SUBSET N
    BY <1>1
  <2>3. u \cap (s \union q) = {}
    BY DEF Unseen
  <2> DEFINE v == RoundsLeft(g)[<< s \union q, u >>]
             w == RoundsLeft(g)[<< s, q >>]
  <2>4. v = 2 * b
    BY <1>2, <2>2, <2>3
  <2>5. (q \cap s = {} => w = 2 * a) /\ (q \cap s # {} => w = 2 * a + 1)
    BY <1>2
  <2>6. << s \union q, u >> \in SearchStates(g)
    BY <1>1, <2>2
  <2>7. q \subseteq s => q \cap s # {}
    BY <1>3
  <2> HIDE DEF a, b, u, v, w
  <2>8. v < w
    BY <2>1, <2>4, <2>5, <2>7
  <2> QED BY <2>6, <2>8 DEF u, v, w
<1>4. ASSUME NEW x \in SearchStates(g) PROVE RoundsLeft(g)[x] \in Nat
  <2>1. PICK s \in SUBSET N, q \in SUBSET N : x = << s, q >>
    BY DEF SearchStates
  <2> DEFINE c == Cardinality(N \ s)
             w == RoundsLeft(g)[x]
  <2>2. c \in Nat /\ (w = 2 * c \/ w = 2 * c + 1)
    BY <1>2, <2>1
  <2> HIDE DEF c, w
  <2>3. w \in Nat
    BY <2>2
  <2> QED BY <2>3 DEF w
<1>5. ASSUME NEW x \in SearchStates(g), x \notin SearchEnds(g)
      PROVE  /\ SearchRound(g)[x] \in SearchStates(g)
             /\ RoundsLeft(g)[SearchRound(g)[x]] < RoundsLeft(g)[x]
  <2>1. PICK s \in SUBSET N, q \in SUBSET N : x = << s, q >>
    BY DEF SearchStates
  <2>2. q # {} /\ SearchRound(g)[x] = << s \union q, Unseen(g, s, q) >>
    BY <1>5, <2>1 DEF SearchRound, SearchEnds
  <2> QED BY <1>3, <2>1, <2>2
<1> QED BY <1>4, <1>5 DEF LoopEnds

Search(g) == [x \in SearchStates(g) |-> Bfs(g)[x[1]][x[2]]]

\* The search ends, and the function it computes is the loop.
LEMMA SearchIsLoop ==
  ASSUME NEW g, IsDag(g)
  PROVE  LoopOn(Search(g), SearchStates(g), SearchEnds(g), Found(g), SearchRound(g))
<1> DEFINE N == g.nodes
           Dom == SearchStates(g)
           stop == SearchEnds(g)
           value == Found(g)
           step == SearchRound(g)
           m == RoundsLeft(g)
<1>1. PICK h : LoopOn(h, Dom, stop, value, step)
  <2>1. LoopEnds(Dom, stop, step, m)
    BY SearchRoundsEnd
  <2> HIDE DEF Dom, stop, value, step, m
  <2> QED BY <2>1, LoopExists
<1> DEFINE f == [s \in SUBSET N |-> [q \in SUBSET N |-> h[<< s, q >>]]]
<1>2. ASSUME NEW s \in SUBSET N, NEW q \in SUBSET N
      PROVE  /\ << s, q >> \in Dom
             /\ << s, q >> \in stop <=> q = {}
             /\ value[<< s, q >>] = s
             /\ step[<< s, q >>] = << s \union q, Unseen(g, s, q) >>
             /\ s \union q \in SUBSET N /\ Unseen(g, s, q) \in SUBSET N
  BY ParentsAreNodes DEF SearchStates, SearchEnds, Found, SearchRound, Unseen
<1>3. ASSUME NEW s \in SUBSET N, NEW q \in SUBSET N
      PROVE  f[s][q] = IF q = {} THEN s ELSE f[s \union q][Unseen(g, s, q)]
  <2>1. h[<< s, q >>] = IF << s, q >> \in stop THEN value[<< s, q >>] ELSE h[step[<< s, q >>]]
    BY <1>1, <1>2 DEF LoopOn
  <2>2. f[s][q] = h[<< s, q >>] /\ f[s \union q][Unseen(g, s, q)] = h[<< s \union q, Unseen(g, s, q) >>]
    BY <1>2
  <2> HIDE DEF Dom, stop, value, step, f
  <2>3. /\ << s, q >> \in stop <=> q = {}
        /\ value[<< s, q >>] = s /\ step[<< s, q >>] = << s \union q, Unseen(g, s, q) >>
    BY <1>2
  <2> QED BY <2>1, <2>2, <2>3
<1>4. BfsEq(f, g)
  <2> DEFINE k == [s \in SUBSET N |-> [q \in SUBSET N |->
                     IF q = {} THEN s ELSE f[s \union q][Unseen(g, s, q)]]]
             l == f
  <2>1. l = [s \in SUBSET N |-> [q \in SUBSET N |-> l[s][q]]]
    OBVIOUS
  <2>2. \A s, q \in SUBSET N : l[s][q] = IF q = {} THEN s ELSE l[s \union q][Unseen(g, s, q)]
    BY <1>3
  <2> HIDE DEF f
  <2>3. l = [s \in SUBSET N |-> [q \in SUBSET N |->
               IF q = {} THEN s ELSE l[s \union q][Unseen(g, s, q)]]]
    BY <2>1, <2>2
  <2> QED BY <2>3 DEF BfsEq, Unseen
<1>5. BfsEq(Bfs(g), g)
  BY <1>4 DEF Bfs
<1> HIDE DEF f
<1>6. ASSUME NEW s \in SUBSET N, NEW q \in SUBSET N
      PROVE  Bfs(g)[s][q] = IF q = {} THEN s ELSE Bfs(g)[s \union q][Unseen(g, s, q)]
  <2> DEFINE b == Bfs(g)
  <2>1. b = [seen \in SUBSET N |-> [queue \in SUBSET N |->
               IF queue = {} THEN seen ELSE b[seen \union queue][Unseen(g, seen, queue)]]]
    BY <1>5 DEF BfsEq, Unseen
  <2> HIDE DEF b
  <2>2. b[s] = [queue \in SUBSET N |->
                  IF queue = {} THEN s ELSE b[s \union queue][Unseen(g, s, queue)]]
    BY <2>1
  <2>3. b[s][q] = IF q = {} THEN s ELSE b[s \union q][Unseen(g, s, q)]
    BY <2>2
  <2> QED BY <2>3 DEF b
<1>7. ASSUME NEW x \in Dom
      PROVE  Search(g)[x] = IF x \in stop THEN value[x] ELSE Search(g)[step[x]]
  <2>1. PICK s \in SUBSET N, q \in SUBSET N : x = << s, q >>
    BY DEF SearchStates
  <2>2. Search(g)[<< s, q >>] = Bfs(g)[s][q]
    BY <1>2 DEF Search
  <2>3. Search(g)[<< s \union q, Unseen(g, s, q) >>] = Bfs(g)[s \union q][Unseen(g, s, q)]
    <3>1. << s \union q, Unseen(g, s, q) >> \in Dom
      BY <1>2
    <3> QED BY <3>1 DEF Search
  <2>4. Bfs(g)[s][q] = IF q = {} THEN s ELSE Bfs(g)[s \union q][Unseen(g, s, q)]
    BY <1>6
  <2>5. /\ x \in stop <=> q = {}
        /\ value[x] = s
        /\ step[x] = << s \union q, Unseen(g, s, q) >>
    BY <1>2, <2>1
  <2> HIDE DEF Dom, stop, value, step
  <2>6. CASE q = {}
    BY <2>1, <2>2, <2>4, <2>5, <2>6
  <2>7. CASE q # {}
    <3>1. Search(g)[x] = Search(g)[step[x]]
      BY <2>1, <2>2, <2>3, <2>4, <2>5, <2>7
    <3> QED BY <2>5, <2>7, <3>1
  <2> QED BY <2>6, <2>7
<1> QED BY <1>7 DEF LoopOn, Search

(***************************************************************************)
(* The ancestors of a node are the least set that holds its parents and,   *)
(* with a node, that node's parents.                                       *)
(***************************************************************************)
UpClosed(g, X) == \A x \in X : Parents(g, x) \subseteq X

\* The ancestors are the least such set that has the operation's parents.
LEMMA AncestorsLeast ==
  ASSUME NEW g, IsDag(g), NEW d
  PROVE  /\ Parents(g, d) \subseteq Ancestors(g, d)
         /\ UpClosed(g, Ancestors(g, d))
         /\ \A X : Parents(g, d) \subseteq X /\ UpClosed(g, X) => Ancestors(g, d) \subseteq X
<1> DEFINE N == g.nodes
           Dom == SearchStates(g)
           stop == SearchEnds(g)
           value == Found(g)
           step == SearchRound(g)
           m == RoundsLeft(g)
           h == Search(g)
           x0 == << {}, Parents(g, d) >>
<1>1. x0 \in Dom /\ h[x0] = Ancestors(g, d)
  <2>1. x0 \in Dom
    BY ParentsAreNodes DEF SearchStates
  <2> QED BY <2>1, AncestorsIs DEF Search
<1>2. LoopEnds(Dom, stop, step, m) /\ LoopOn(h, Dom, stop, value, step)
  BY SearchRoundsEnd, SearchIsLoop
<1>3. \A x \in Dom : IF x \in stop THEN x[2] = {} /\ value[x] = x[1]
                                 ELSE step[x] = << x[1] \union x[2], Unseen(g, x[1], x[2]) >>
  BY DEF SearchEnds, Found, SearchRound
<1>4. Parents(g, d) \subseteq Ancestors(g, d) /\ UpClosed(g, Ancestors(g, d))
  <2> DEFINE I == {x \in Dom : /\ Parents(g, d) \subseteq x[1] \union x[2]
                             /\ \A y \in x[1] : Parents(g, y) \subseteq x[1] \union x[2]}
             Good == {A \in SUBSET N : Parents(g, d) \subseteq A /\ UpClosed(g, A)}
  <2>1. x0 \in Dom \cap I
    BY <1>1
  <2>2. ASSUME NEW x \in Dom \cap I
        PROVE  IF x \in stop THEN value[x] \in Good ELSE step[x] \in I
    <3>1. x[1] \in SUBSET N /\ x[2] \in SUBSET N
      BY DEF SearchStates
    <3>2. CASE x \in stop
      BY <1>3, <3>1, <3>2 DEF UpClosed
    <3>3. CASE x \notin stop
      <4> DEFINE s == x[1] \union x[2]
                 u == Unseen(g, x[1], x[2])
      <4>1. step[x] = << s, u >> /\ step[x] \in Dom
        BY <1>2, <1>3, <3>3 DEF LoopEnds
      <4>2. \A y \in s : Parents(g, y) \subseteq s \union u
        BY DEF Unseen
      <4>3. Parents(g, d) \subseteq s \union u
        OBVIOUS
      <4> HIDE DEF s, u, step, Dom
      <4> QED BY <4>1, <4>2, <4>3, <3>3
    <3> QED BY <3>2, <3>3
  <2> HIDE DEF I, Good, Dom, stop, value, step, m, h, x0
  <2>3. h[x0] \in Good
    <3>1. LoopKeeps(Dom, stop, value, step, I, Good)
      BY <2>2 DEF LoopKeeps
    <3> QED BY <1>2, <2>1, <3>1, LoopInvariant
  <2> QED BY <1>1, <2>3 DEF Good
<1>5. ASSUME NEW X, Parents(g, d) \subseteq X, UpClosed(g, X) PROVE Ancestors(g, d) \subseteq X
  <2> DEFINE I == {x \in Dom : x[1] \union x[2] \subseteq X}
             Good == SUBSET X
  <2>1. x0 \in Dom \cap I
    BY <1>1, <1>5
  <2>2. ASSUME NEW x \in Dom \cap I
        PROVE  IF x \in stop THEN value[x] \in Good ELSE step[x] \in I
    <3>1. CASE x \in stop
      BY <1>3, <3>1
    <3>2. CASE x \notin stop
      <4> DEFINE s == x[1] \union x[2]
                 u == Unseen(g, x[1], x[2])
      <4>1. step[x] = << s, u >> /\ step[x] \in Dom
        BY <1>2, <1>3, <3>2 DEF LoopEnds
      <4>2. s \subseteq X /\ u \subseteq X
        BY <1>5 DEF Unseen, UpClosed
      <4> HIDE DEF s, u, step, Dom
      <4> QED BY <4>1, <4>2, <3>2
    <3> QED BY <3>1, <3>2
  <2> HIDE DEF I, Good, Dom, stop, value, step, m, h, x0
  <2>3. h[x0] \in Good
    <3>1. LoopKeeps(Dom, stop, value, step, I, Good)
      BY <2>2 DEF LoopKeeps
    <3> QED BY <1>2, <2>1, <3>1, LoopInvariant
  <2> QED BY <1>1, <2>3 DEF Good
<1> QED BY <1>4, <1>5

\* An ancestor's ancestors are ancestors, and nothing else is besides the parents.
LEMMA AncestorsAreTransitive ==
  ASSUME NEW g, IsDag(g), NEW d
  PROVE  /\ \A x \in Ancestors(g, d) : Ancestors(g, x) \subseteq Ancestors(g, d)
         /\ Ancestors(g, d) =
              Parents(g, d) \union UNION {Ancestors(g, x) : x \in Parents(g, d)}
<1> DEFINE R == Parents(g, d) \union UNION {Ancestors(g, x) : x \in Parents(g, d)}
<1>1. ASSUME NEW x \in Ancestors(g, d) PROVE Ancestors(g, x) \subseteq Ancestors(g, d)
  <2>1. Parents(g, x) \subseteq Ancestors(g, d) /\ UpClosed(g, Ancestors(g, d))
    BY AncestorsLeast DEF UpClosed
  <2> QED BY <2>1, AncestorsLeast
<1>2. UpClosed(g, R)
  <2> SUFFICES ASSUME NEW x \in R PROVE Parents(g, x) \subseteq R
    BY DEF UpClosed
  <2>1. CASE x \in Parents(g, d)
    BY <2>1, AncestorsLeast
  <2>2. CASE x \notin Parents(g, d)
    <3>1. PICK y \in Parents(g, d) : x \in Ancestors(g, y)
      BY <2>2
    <3>2. Parents(g, x) \subseteq Ancestors(g, y)
      BY <3>1, AncestorsLeast DEF UpClosed
    <3> QED BY <3>1, <3>2
  <2> QED BY <2>1, <2>2
<1>3. Ancestors(g, d) \subseteq R
  BY <1>2, AncestorsLeast
<1>4. R \subseteq Ancestors(g, d)
  BY <1>1, AncestorsLeast
<1> QED BY <1>1, <1>3, <1>4

-----------------------------------------------------------------------------
(***************************************************************************)
(* The graph of a tuple in a log.                                          *)
(***************************************************************************)
\* A log as the sites have them: every operation once, after its dependencies.
Ordered(pol) ==
  /\ pol \in Seq(PolicyOp)
  /\ \A i, j \in DOMAIN pol : pol[i].dot = pol[j].dot => i = j
  /\ \A i \in DOMAIN pol : \A x \in pol[i].deps :
       \E j \in 1 .. i - 1 : pol[j].dot = x /\ TupleOf(pol[j]) = TupleOf(pol[i])

\* What this says of the operations, their order left aside.
LEMMA OrderedOps ==
  ASSUME NEW pol, Ordered(pol)
  PROVE  /\ Range(pol) \subseteq PolicyOp
         /\ \A p, q \in Range(pol) : p.dot = q.dot => p = q
         /\ \A p \in Range(pol) : \A x \in p.deps : \E q \in PoliciesOn(pol, TupleOf(p)) : q.dot = x
<1>1. pol \in Seq(PolicyOp) /\ DOMAIN pol = 1 .. Len(pol) /\ Len(pol) \in Nat
  BY DEF Ordered
<1>2. Range(pol) \subseteq PolicyOp
  BY <1>1 DEF Range
<1>3. \A p, q \in Range(pol) : p.dot = q.dot => p = q
  BY DEF Ordered, Range
<1>4. ASSUME NEW p \in Range(pol), NEW x \in p.deps
      PROVE  \E q \in PoliciesOn(pol, TupleOf(p)) : q.dot = x
  <2>1. PICK i \in DOMAIN pol : p = pol[i]
    BY DEF Range
  <2>2. PICK j \in 1 .. i - 1 : pol[j].dot = x /\ TupleOf(pol[j]) = TupleOf(pol[i])
    BY <1>4, <2>1 DEF Ordered
  <2>3. j \in DOMAIN pol
    BY <1>1
  <2>4. pol[j] \in PoliciesOn(pol, TupleOf(p))
    BY <2>1, <2>2, <2>3 DEF PoliciesOn, Range
  <2> QED BY <2>2, <2>4
<1> QED BY <1>2, <1>3, <1>4

\* The nodes are the operations on the tuple, the parents their dependencies.
LEMMA DagIs ==
  ASSUME NEW pol, Ordered(pol), NEW t
  PROVE  /\ DagOf(pol, t).nodes = DotsOf(PoliciesOn(pol, t))
         /\ IsDag(DagOf(pol, t))
         /\ \A p \in PoliciesOn(pol, t) : Parents(DagOf(pol, t), p.dot) = p.deps
<1> DEFINE ops == PoliciesOn(pol, t)
           g == DagOf(pol, t)
<1>1. /\ g.nodes = DotsOf(ops) \union UNION {p.deps : p \in ops}
      /\ g.edges = UNION {{<< dep, p.dot >> : dep \in p.deps} : p \in ops}
  BY DEF DagOf
<1>2. \A p \in ops : \A x \in p.deps : x \in DotsOf(ops)
  <2> SUFFICES ASSUME NEW p \in ops, NEW x \in p.deps PROVE x \in DotsOf(ops)
    OBVIOUS
  <2>1. p \in Range(pol) /\ TupleOf(p) = t
    BY DEF PoliciesOn
  <2>2. PICK q \in PoliciesOn(pol, t) : q.dot = x
    BY <2>1, OrderedOps
  <2> QED BY <2>2 DEF DotsOf
<1>3. g.nodes = DotsOf(ops)
  BY <1>1, <1>2
<1>4. IsFiniteSet(g.nodes)
  <2>1. DOMAIN pol = 1 .. Len(pol) /\ Len(pol) \in Nat
    BY DEF Ordered
  <2> DEFINE I == {i \in DOMAIN pol : TupleOf(pol[i]) = t}
             T == DotsOf(ops)
             f == [i \in I |-> pol[i].dot]
  <2>2. IsFiniteSet(I)
    <3>1. IsFiniteSet(DOMAIN pol)
      BY <2>1, FS_Interval
    <3> QED BY <3>1, FS_Subset
  <2>3. f \in Surjection(I, T)
    <3>1. \A i \in I : f[i] \in T
      BY DEF DotsOf, PoliciesOn, Range
    <3>2. \A x \in T : \E i \in I : f[i] = x
      BY DEF DotsOf, PoliciesOn, Range
    <3>3. f \in [I -> T]
      BY <3>1
    <3> QED BY <3>2, <3>3 DEF Surjection
  <2>4. IsFiniteSet(T)
    <3> HIDE DEF I, T, f
    <3> QED BY <2>2, <2>3, FS_Surjection
  <2> QED BY <1>3, <2>4
<1>5. g.edges \subseteq g.nodes \X g.nodes
  <2> HIDE DEF g, ops
  <2> SUFFICES ASSUME NEW e \in g.edges PROVE e \in g.nodes \X g.nodes
    OBVIOUS
  <2>1. PICK p \in ops : \E dep \in p.deps : e = << dep, p.dot >>
    BY <1>1
  <2>2. PICK dep \in p.deps : e = << dep, p.dot >>
    BY <2>1
  <2>3. dep \in DotsOf(ops) /\ p.dot \in DotsOf(ops)
    BY <1>2 DEF DotsOf
  <2> QED BY <1>3, <2>2, <2>3
<1>6. ASSUME NEW p \in ops PROVE Parents(g, p.dot) = p.deps
  <2> HIDE DEF g
  <2>1. ASSUME NEW x \in Parents(g, p.dot) PROVE x \in p.deps
    <3>1. PICK e \in g.edges : e[2] = p.dot /\ x = e[1]
      BY <2>1 DEF Parents
    <3>2. PICK q \in ops : \E dep \in q.deps : e = << dep, q.dot >>
      BY <1>1, <3>1
    <3>3. PICK dep \in q.deps : e = << dep, q.dot >>
      BY <3>2
    <3>4. q = p
      BY <3>1, <3>3, OrderedOps DEF PoliciesOn
    <3> QED BY <3>1, <3>3, <3>4
  <2>2. ASSUME NEW x \in p.deps PROVE x \in Parents(g, p.dot)
    <3>1. << x, p.dot >> \in g.edges
      BY <1>1, <2>2
    <3> QED BY <3>1 DEF Parents
  <2> QED BY <2>1, <2>2
<1> QED BY <1>3, <1>4, <1>5, <1>6 DEF IsDag

\* What the newest operation of a log changes.
LEMMA OrderedBefore ==
  ASSUME NEW pol \in Seq(PolicyOp), NEW p \in PolicyOp, Ordered(Append(pol, p))
  PROVE  /\ Ordered(pol)
         /\ Range(Append(pol, p)) = Range(pol) \union {p}
         /\ p.dot \notin DotsOf(Range(pol))
         /\ \A x \in p.deps : x \in DotsOf(PoliciesOn(pol, TupleOf(p)))
<1> DEFINE new == Append(pol, p)
           n == Len(pol)
<1>1. /\ new \in Seq(PolicyOp)
      /\ DOMAIN pol = 1 .. n /\ DOMAIN new = 1 .. n + 1 /\ n \in Nat
      /\ \A i \in 1 .. n : new[i] = pol[i]
      /\ new[n + 1] = p
  <2>1. /\ new \in Seq(PolicyOp) /\ Len(new) = n + 1
        /\ \A i \in 1 .. n : new[i] = pol[i]
        /\ new[n + 1] = p
    BY AppendProperties
  <2> QED BY <2>1
<1>2. Ordered(new)
  OBVIOUS
<1>3. Range(new) = Range(pol) \union {p}
  BY RangeAppend
<1> HIDE DEF new
<1>4. Ordered(pol)
  <2>1. \A i, j \in DOMAIN pol : pol[i].dot = pol[j].dot => i = j
    BY <1>1, <1>2 DEF Ordered
  <2>2. ASSUME NEW i \in DOMAIN pol, NEW x \in pol[i].deps
        PROVE  \E j \in 1 .. i - 1 : pol[j].dot = x /\ TupleOf(pol[j]) = TupleOf(pol[i])
    <3>1. i \in DOMAIN new /\ new[i] = pol[i]
      BY <1>1
    <3>2. PICK j \in 1 .. i - 1 : new[j].dot = x /\ TupleOf(new[j]) = TupleOf(new[i])
      BY <1>2, <2>2, <3>1 DEF Ordered
    <3>3. j \in 1 .. n
      BY <1>1, <3>1
    <3> QED BY <1>1, <3>1, <3>2, <3>3
  <2> QED BY <2>1, <2>2 DEF Ordered
<1>5. p.dot \notin DotsOf(Range(pol))
  <2> SUFFICES ASSUME NEW i \in 1 .. n, pol[i].dot = p.dot PROVE FALSE
    BY <1>1 DEF DotsOf, Range
  <2>1. i \in DOMAIN new /\ n + 1 \in DOMAIN new /\ i # n + 1
    BY <1>1
  <2> QED BY <1>1, <1>2, <2>1 DEF Ordered
<1>6. ASSUME NEW x \in p.deps PROVE x \in DotsOf(PoliciesOn(pol, TupleOf(p)))
  <2>1. n + 1 \in DOMAIN new /\ x \in new[n + 1].deps
    BY <1>1, <1>6
  <2>2. PICK j \in 1 .. (n + 1) - 1 : new[j].dot = x /\ TupleOf(new[j]) = TupleOf(p)
    BY <1>1, <1>2, <2>1 DEF Ordered
  <2>3. j \in 1 .. n
    BY <1>1
  <2> QED BY <1>1, <2>2, <2>3 DEF DotsOf, PoliciesOn, Range
<1> QED BY <1>3, <1>4, <1>5, <1>6 DEF new

\* Ancestors are operations of the log on the same tuple.
LEMMA AncestorsInLog ==
  ASSUME NEW pol, Ordered(pol), NEW t, NEW d
  PROVE  Ancestors(DagOf(pol, t), d) \subseteq DotsOf(PoliciesOn(pol, t))
<1> DEFINE g == DagOf(pol, t)
<1>1. IsDag(g) /\ g.nodes = DotsOf(PoliciesOn(pol, t))
  BY DagIs
<1> HIDE DEF g
<1>2. Parents(g, d) \subseteq g.nodes /\ UpClosed(g, g.nodes)
  BY <1>1, ParentsAreNodes DEF UpClosed
<1>3. Ancestors(g, d) \subseteq g.nodes
  BY <1>1, <1>2, AncestorsLeast
<1> QED BY <1>1, <1>3 DEF g

\* The operations on a tuple after one more.
LEMMA PoliciesOnAppend ==
  ASSUME NEW pol \in Seq(PolicyOp), NEW p \in PolicyOp, NEW t
  PROVE  PoliciesOn(Append(pol, p), t) =
           IF TupleOf(p) = t THEN PoliciesOn(pol, t) \union {p} ELSE PoliciesOn(pol, t)
<1>1. Range(Append(pol, p)) = Range(pol) \union {p}
  BY RangeAppend
<1> QED BY <1>1 DEF PoliciesOn

\* A new operation leaves the ancestors of all others as they are, since nobody
\* depends on it.
LEMMA AncestorsKept ==
  ASSUME NEW pol \in Seq(PolicyOp), NEW p \in PolicyOp, Ordered(Append(pol, p)),
         NEW t, NEW q \in PoliciesOn(pol, t)
  PROVE  Ancestors(DagOf(Append(pol, p), t), q.dot) = Ancestors(DagOf(pol, t), q.dot)
<1> DEFINE new == Append(pol, p)
           g == DagOf(pol, t)
           h == DagOf(new, t)
           N == DotsOf(PoliciesOn(pol, t))
<1>1. Ordered(pol) /\ Ordered(new)
  BY OrderedBefore
<1>2. PoliciesOn(pol, t) \subseteq PoliciesOn(new, t)
  BY PoliciesOnAppend
<1>3. IsDag(g) /\ IsDag(h)
  BY <1>1, DagIs
<1>4. \A r \in PoliciesOn(pol, t) : Parents(g, r.dot) = r.deps /\ Parents(h, r.dot) = r.deps
  BY <1>1, <1>2, DagIs
<1>5. \A x \in N : Parents(g, x) = Parents(h, x)
  BY <1>4 DEF DotsOf
<1>6. Ancestors(g, q.dot) \subseteq N /\ q.dot \in N
  BY <1>1, AncestorsInLog DEF DotsOf
<1> HIDE DEF new, g, h, N
<1>7. Ancestors(h, q.dot) \subseteq Ancestors(g, q.dot)
  <2>1. UpClosed(h, Ancestors(g, q.dot))
    BY <1>3, <1>5, <1>6, AncestorsLeast DEF UpClosed
  <2>2. Parents(h, q.dot) \subseteq Ancestors(g, q.dot)
    BY <1>3, <1>5, <1>6, AncestorsLeast
  <2> QED BY <1>3, <2>1, <2>2, AncestorsLeast
<1>8. Ancestors(g, q.dot) \subseteq Ancestors(h, q.dot)
  <2>1. UpClosed(g, Ancestors(h, q.dot))
    BY <1>3, <1>5, <1>6, <1>7, AncestorsLeast DEF UpClosed
  <2>2. Parents(g, q.dot) \subseteq Ancestors(h, q.dot)
    BY <1>3, <1>5, <1>6, AncestorsLeast
  <2> QED BY <1>3, <2>1, <2>2, AncestorsLeast
<1> QED BY <1>7, <1>8 DEF new, g, h

\* The ancestors of the new operation are older.
LEMMA NewestAncestors ==
  ASSUME NEW pol \in Seq(PolicyOp), NEW p \in PolicyOp, Ordered(Append(pol, p))
  PROVE  LET t == TupleOf(p)
             h == DagOf(Append(pol, p), t)
         IN  /\ Parents(h, p.dot) = p.deps
             /\ p.deps \subseteq DotsOf(PoliciesOn(pol, t))
             /\ Ancestors(h, p.dot) \subseteq DotsOf(PoliciesOn(pol, t))
             /\ p.dot \notin DotsOf(PoliciesOn(pol, t))
<1> DEFINE t == TupleOf(p)
           g == DagOf(pol, t)
           h == DagOf(Append(pol, p), t)
           N == DotsOf(PoliciesOn(pol, t))
<1>1. Ordered(pol) /\ p.deps \subseteq N /\ p.dot \notin DotsOf(Range(pol))
  BY OrderedBefore
<1>2. p.dot \notin N
  BY <1>1 DEF DotsOf, PoliciesOn
<1>3. IsDag(h) /\ Parents(h, p.dot) = p.deps
  <2>1. p \in PoliciesOn(Append(pol, p), t)
    BY PoliciesOnAppend
  <2> QED BY <2>1, DagIs
<1>4. ASSUME NEW x \in p.deps PROVE Ancestors(h, x) \subseteq N
  <2>1. PICK q \in PoliciesOn(pol, t) : q.dot = x
    BY <1>1, <1>4 DEF DotsOf
  <2>2. Ancestors(h, x) = Ancestors(g, x)
    BY <2>1, AncestorsKept
  <2> QED BY <1>1, <2>2, AncestorsInLog
<1> HIDE DEF t, g, h, N
<1>5. Ancestors(h, p.dot) \subseteq N
  BY <1>1, <1>3, <1>4, AncestorsAreTransitive
<1> QED BY <1>1, <1>2, <1>3, <1>5 DEF t, h, N

-----------------------------------------------------------------------------
(***************************************************************************)
(* Sweeps.                                                                 *)
(***************************************************************************)
SweptEq(f, pol, V, strategy) ==
  f = [i \in 0 .. Len(pol) |->
         IF i = 0 THEN V ELSE Reevaluate(pol[i], pol, f[i - 1], strategy)]

Swept(pol, V, strategy) == CHOOSE f : SweptEq(f, pol, V, strategy)

\* A sweep is the last of the registers it goes through.
LEMMA SweepIs ==
  ASSUME NEW pol, NEW V, NEW strategy
  PROVE  Sweep(pol, V, strategy) = Swept(pol, V, strategy)[Len(pol)]
BY DEF Sweep, Swept, SweptEq

Entries(pol) == DotsOf(Range(pol))

\* These registers exist and have entries for operations of the log only.
LEMMA SweptExists ==
  ASSUME NEW pol \in Seq(PolicyOp), NEW V \in SUBSET Entries(pol), NEW strategy
  PROVE  /\ Swept(pol, V, strategy)[0] = V
         /\ \A i \in 1 .. Len(pol) : Swept(pol, V, strategy)[i] =
              Reevaluate(pol[i], pol, Swept(pol, V, strategy)[i - 1], strategy)
<1> DEFINE Dom == SUBSET Entries(pol)
           n == Len(pol)
           next == [i \in 1 .. n |-> [W \in Dom |-> Reevaluate(pol[i], pol, W, strategy)]]
<1>1. n \in Nat /\ DOMAIN pol = 1 .. n
  OBVIOUS
<1>2. \A i \in 1 .. n : \A W \in Dom : Reevaluate(pol[i], pol, W, strategy) \in Dom
  BY <1>1 DEF Reevaluate, Entries, DotsOf, Range
<1>3. PICK h : ChainOn(h, n, V, next)
  BY <1>1, ChainExists
<1>4. \A i \in 0 .. n : h[i] = IF i = 0 THEN V ELSE next[i][h[i - 1]]
  BY <1>3 DEF ChainOn
<1>5. \A i \in 0 .. n : h[i] \in Dom
  <2> DEFINE S == {i \in 0 .. n : h[i] \in Dom}
  <2>1. 0 \in S
    <3>1. 0 \in 0 .. n
      BY <1>1
    <3>2. h[0] = V
      BY <1>4, <3>1
    <3>3. V \in Dom
      OBVIOUS
    <3> HIDE DEF Dom, next
    <3> QED BY <3>1, <3>2, <3>3
  <2>2. ASSUME NEW i \in 0 .. n, i < n, i \in S PROVE i + 1 \in S
    <3>1. i + 1 \in 1 .. n /\ i + 1 \in 0 .. n /\ i + 1 # 0 /\ (i + 1) - 1 = i
      BY <1>1, <2>2
    <3>2. h[i + 1] = next[i + 1][h[i]]
      BY <1>4, <3>1
    <3>3. h[i + 1] = Reevaluate(pol[i + 1], pol, h[i], strategy)
      BY <2>2, <3>1, <3>2
    <3> QED BY <1>2, <2>2, <3>1, <3>3
  <2> HIDE DEF S
  <2>3. \A i \in 0 .. n : i \in S
    BY <1>1, <2>1, <2>2, Climb
  <2> QED BY <2>3 DEF S
<1>6. \A i \in 0 .. n : i # 0 => i \in 1 .. n /\ i - 1 \in 0 .. n
  BY <1>1
<1>7. \A i \in 0 .. n : h[i] = IF i = 0 THEN V ELSE Reevaluate(pol[i], pol, h[i - 1], strategy)
  BY <1>4, <1>5, <1>6
<1>8. SweptEq(h, pol, V, strategy)
  <2>1. h = [i \in 0 .. n |-> h[i]]
    BY <1>3 DEF ChainOn
  <2> HIDE DEF next, Dom
  <2> QED BY <1>7, <2>1 DEF SweptEq
<1>9. SweptEq(Swept(pol, V, strategy), pol, V, strategy)
  BY <1>8 DEF Swept
<1> DEFINE f == Swept(pol, V, strategy)
<1> HIDE DEF f
<1>10. \A i \in 0 .. n : f[i] = IF i = 0 THEN V ELSE Reevaluate(pol[i], pol, f[i - 1], strategy)
  BY <1>9 DEF SweptEq, f
<1>11. 0 \in 0 .. n /\ \A i \in 1 .. n : i \in 0 .. n /\ i # 0
  BY <1>1
<1>12. f[0] = V /\ \A i \in 1 .. n : f[i] = Reevaluate(pol[i], pol, f[i - 1], strategy)
  BY <1>10, <1>11
<1> QED BY <1>12 DEF f

\* The register between T, which the entries before position i have reached, and
\* V, which the others still are in.
Midway(pol, T, V, i) ==
  {x \in Entries(pol) : \E j \in DOMAIN pol : pol[j].dot = x /\ IF j < i THEN x \in T ELSE x \in V}

(***************************************************************************)
(* A sweep takes a register V to T if every operation, evaluated when the  *)
(* ones before it have reached T, is valid exactly if T says so.           *)
(***************************************************************************)
LEMMA SweepReaches ==
  ASSUME NEW pol, Ordered(pol), NEW strategy,
         NEW V \in SUBSET Entries(pol), NEW T \in SUBSET Entries(pol),
         \A i \in DOMAIN pol :
           IsValidPolicy(pol[i], pol, Midway(pol, T, V, i), strategy) <=> pol[i].dot \in T
  PROVE  Sweep(pol, V, strategy) = T
<1> DEFINE n == Len(pol)
           f == Swept(pol, V, strategy)
           S == {i \in 0 .. n : f[i] = Midway(pol, T, V, i + 1)}
<1>1. /\ pol \in Seq(PolicyOp) /\ n \in Nat /\ DOMAIN pol = 1 .. n
      /\ \A i, j \in 1 .. n : pol[i].dot = pol[j].dot => i = j
      /\ \A x : x \in Entries(pol) <=> \E j \in 1 .. n : pol[j].dot = x
  BY DEF Ordered, Entries, DotsOf, Range
<1>2. f[0] = V /\ \A i \in 1 .. n : f[i] = Reevaluate(pol[i], pol, f[i - 1], strategy)
  BY <1>1, SweptExists
<1> HIDE DEF f
<1>3. 0 \in S
  <2>1. \A j \in 1 .. n : ~(j < 1)
    BY <1>1
  <2>2. Midway(pol, T, V, 1) = V
    BY <1>1, <2>1 DEF Midway
  <2> QED BY <1>1, <1>2, <2>2
<1>4. ASSUME NEW i \in 0 .. n, i < n, i \in S PROVE i + 1 \in S
  <2> DEFINE k == i + 1
             W == Midway(pol, T, V, k)
             x == pol[k].dot
  <2>1. k \in 1 .. n /\ k \in 0 .. n /\ k - 1 = i
    BY <1>1, <1>4
  <2>2. f[k] = IF x \in T THEN W \union {x} ELSE W \ {x}
    <3>1. f[i] = W
      BY <1>4
    <3>2. f[k] = Reevaluate(pol[k], pol, W, strategy)
      BY <1>2, <2>1, <3>1
    <3>3. IsValidPolicy(pol[k], pol, W, strategy) <=> x \in T
      BY <1>1, <2>1
    <3> QED BY <3>2, <3>3 DEF Reevaluate
  <2>3. \A j \in 1 .. n : j # k => (j < k + 1 <=> j < k)
    BY <1>1, <2>1
  <2>4. k < k + 1 /\ ~(k < k)
    BY <2>1
  <2>5. \A j \in 1 .. n : pol[j].dot = x => j = k
    BY <1>1, <2>1
  <2>6. \A y \in Entries(pol) : y # x => (y \in Midway(pol, T, V, k + 1) <=> y \in W)
    <3> SUFFICES ASSUME NEW j \in 1 .. n, pol[j].dot # x
                 PROVE  pol[j].dot \in Midway(pol, T, V, k + 1) <=> pol[j].dot \in W
      BY <1>1
    <3>1. j # k
      OBVIOUS
    <3>2. \A l \in 1 .. n : pol[l].dot = pol[j].dot => l = j
      BY <1>1
    <3> HIDE DEF k, x
    <3> QED BY <1>1, <2>3, <3>1, <3>2 DEF Midway
  <2>7. x \in Midway(pol, T, V, k + 1) <=> x \in T
    BY <1>1, <2>1, <2>4, <2>5 DEF Midway
  <2>8. Midway(pol, T, V, k + 1) \subseteq Entries(pol) /\ W \subseteq Entries(pol) /\ x \in Entries(pol)
    BY <1>1, <2>1 DEF Midway
  <2> HIDE DEF k, W, x
  <2>9. Midway(pol, T, V, k + 1) = f[k]
    BY <2>2, <2>6, <2>7, <2>8
  <2>10. k \in S
    BY <2>1, <2>9
  <2> QED BY <2>10 DEF k
<1> HIDE DEF S
<1>5. \A i \in 0 .. n : i \in S
  BY <1>1, <1>3, <1>4, Climb
<1>6. f[n] = Midway(pol, T, V, n + 1)
  BY <1>1, <1>5 DEF S
<1>7. Midway(pol, T, V, n + 1) = T
  <2>1. \A j \in 1 .. n : j < n + 1
    BY <1>1
  <2> QED BY <1>1, <2>1 DEF Midway
<1> QED BY <1>6, <1>7, SweepIs DEF f

\* A sweep enters operations of the log only.
LEMMA SweepTyped ==
  ASSUME NEW pol \in Seq(PolicyOp), NEW V \in SUBSET Entries(pol), NEW strategy
  PROVE  Sweep(pol, V, strategy) \in SUBSET Entries(pol)
<1> DEFINE Dom == SUBSET Entries(pol)
           n == Len(pol)
           f == Swept(pol, V, strategy)
           S == {i \in 0 .. n : f[i] \in Dom}
<1>1. n \in Nat /\ DOMAIN pol = 1 .. n
  OBVIOUS
<1>2. \A i \in 1 .. n : \A W \in Dom : Reevaluate(pol[i], pol, W, strategy) \in Dom
  BY <1>1 DEF Reevaluate, Entries, DotsOf, Range
<1>3. f[0] = V /\ \A i \in 1 .. n : f[i] = Reevaluate(pol[i], pol, f[i - 1], strategy)
  BY SweptExists
<1> HIDE DEF f
<1>4. 0 \in S
  BY <1>1, <1>3
<1>5. ASSUME NEW i \in 0 .. n, i < n, i \in S PROVE i + 1 \in S
  <2>1. i + 1 \in 1 .. n /\ i + 1 \in 0 .. n /\ (i + 1) - 1 = i
    BY <1>1, <1>5
  <2>2. f[i + 1] = Reevaluate(pol[i + 1], pol, f[i], strategy)
    BY <1>3, <2>1
  <2> QED BY <1>2, <1>5, <2>1, <2>2
<1> HIDE DEF S
<1>6. \A i \in 0 .. n : i \in S
  BY <1>1, <1>4, <1>5, Climb
<1>7. n \in 0 .. n
  BY <1>1
<1>8. f[n] \in Dom
  BY <1>6, <1>7 DEF S
<1> QED BY <1>8, SweepIs DEF f

SweepsEq(f, pol, strategy) ==
  f = [k \in 1 .. SweepLimit(pol) |->
         [W \in SUBSET Entries(pol) |->
            LET new == Sweep(pol, W, strategy)
            IN  IF new = W \/ k = SweepLimit(pol) THEN new ELSE f[k + 1][new]]]

Sweeps(pol, strategy) == CHOOSE f : SweepsEq(f, pol, strategy)

\* SweepUntilStable begins the sweeps with the first one.
LEMMA SweepUntilStableIs ==
  ASSUME NEW pol, NEW V, NEW strategy
  PROVE  SweepUntilStable(pol, V, strategy) = Sweeps(pol, strategy)[1][V]
BY DEF SweepUntilStable, Sweeps, SweepsEq, Entries

\* The limit is far enough for the sweeps that are needed.
LEMMA LimitIs ==
  ASSUME NEW pol \in Seq(PolicyOp)
  PROVE  SweepLimit(pol) \in Nat /\ SweepLimit(pol) >= 8
<1>1. Len(pol) \in Nat
  OBVIOUS
<1> QED BY <1>1 DEF SweepLimit

\* The rounds of sweeps come to an end.
LEMMA SweepsExist ==
  ASSUME NEW pol \in Seq(PolicyOp), NEW strategy
  PROVE  \A k \in 1 .. SweepLimit(pol) : \A W \in SUBSET Entries(pol) :
           Sweeps(pol, strategy)[k][W] =
             IF Sweep(pol, W, strategy) = W \/ k = SweepLimit(pol)
               THEN Sweep(pol, W, strategy)
               ELSE Sweeps(pol, strategy)[k + 1][Sweep(pol, W, strategy)]
<1> DEFINE K == SweepLimit(pol)
           R == SUBSET Entries(pol)
           sweep(W) == Sweep(pol, W, strategy)
           Dom == (1 .. K) \X R
           stop == {x \in Dom : sweep(x[2]) = x[2] \/ x[1] = K}
           value == [x \in Dom |-> sweep(x[2])]
           step == [x \in Dom |-> << x[1] + 1, sweep(x[2]) >>]
           m == [x \in Dom |-> K - x[1]]
<1>1. K \in Nat /\ K >= 8
  BY LimitIs
<1>2. \A W \in R : sweep(W) \in R
  BY SweepTyped
<1> HIDE DEF K, R, sweep
<1>3. ASSUME NEW k \in 1 .. K, NEW W \in R
      PROVE  /\ << k, W >> \in Dom
             /\ (<< k, W >> \in stop) <=> (sweep(W) = W \/ k = K)
             /\ value[<< k, W >>] = sweep(W)
             /\ step[<< k, W >>] = << k + 1, sweep(W) >>
             /\ m[<< k, W >>] = K - k
             /\ k # K => k + 1 \in 1 .. K /\ K - (k + 1) < K - k
             /\ K - k \in Nat
  BY <1>1
<1>4. LoopEnds(Dom, stop, step, m)
  <2> SUFFICES ASSUME NEW x \in Dom
               PROVE  /\ m[x] \in Nat
                      /\ x \notin stop => step[x] \in Dom /\ m[step[x]] < m[x]
    BY DEF LoopEnds
  <2>1. PICK k \in 1 .. K, W \in R : x = << k, W >>
    OBVIOUS
  <2>2. x \notin stop => << k + 1, sweep(W) >> \in Dom /\ m[<< k + 1, sweep(W) >>] = K - (k + 1)
    BY <1>2, <1>3, <2>1
  <2>3. /\ (x \in stop) <=> (sweep(W) = W \/ k = K)
        /\ step[x] = << k + 1, sweep(W) >>
        /\ m[x] = K - k
        /\ k # K => K - (k + 1) < K - k
        /\ K - k \in Nat
    BY <1>3, <2>1
  <2> HIDE DEF Dom, stop, step, m
  <2> QED BY <2>2, <2>3
<1>5. PICK h : LoopOn(h, Dom, stop, value, step)
  <2> HIDE DEF Dom, stop, value, step, m
  <2> QED BY <1>4, LoopExists
<1> DEFINE f == [k \in 1 .. K |-> [W \in R |-> h[<< k, W >>]]]
<1>6. ASSUME NEW k \in 1 .. K, NEW W \in R
      PROVE  f[k][W] = IF sweep(W) = W \/ k = K THEN sweep(W) ELSE f[k + 1][sweep(W)]
  <2>1. h[<< k, W >>] = IF << k, W >> \in stop THEN value[<< k, W >>] ELSE h[step[<< k, W >>]]
    <3>1. << k, W >> \in Dom
      BY <1>3
    <3> HIDE DEF Dom, stop, value, step
    <3> QED BY <1>5, <3>1 DEF LoopOn
  <2>2. f[k][W] = h[<< k, W >>]
    OBVIOUS
  <2>3. k # K => f[k + 1][sweep(W)] = h[<< k + 1, sweep(W) >>]
    BY <1>2, <1>3
  <2>4. /\ (<< k, W >> \in stop) <=> (sweep(W) = W \/ k = K)
        /\ value[<< k, W >>] = sweep(W)
        /\ step[<< k, W >>] = << k + 1, sweep(W) >>
    BY <1>3
  <2> HIDE DEF Dom, stop, value, step, f
  <2>5. CASE sweep(W) = W \/ k = K
    BY <2>1, <2>2, <2>4, <2>5
  <2>6. CASE ~(sweep(W) = W \/ k = K)
    BY <2>1, <2>2, <2>3, <2>4, <2>6
  <2> QED BY <2>5, <2>6
<1>7. SweepsEq(f, pol, strategy)
  <2> DEFINE l == f
  <2>1. l = [k \in 1 .. K |-> [W \in R |-> l[k][W]]]
    OBVIOUS
  <2> HIDE DEF f
  <2>2. l = [k \in 1 .. K |-> [W \in R |->
               IF sweep(W) = W \/ k = K THEN sweep(W) ELSE l[k + 1][sweep(W)]]]
    BY <1>6, <2>1
  <2> QED BY <2>2 DEF SweepsEq, K, R, sweep
<1>8. SweepsEq(Sweeps(pol, strategy), pol, strategy)
  BY <1>7 DEF Sweeps
<1> DEFINE b == Sweeps(pol, strategy)
<1>9. b = [k \in 1 .. K |-> [W \in R |->
             IF sweep(W) = W \/ k = K THEN sweep(W) ELSE b[k + 1][sweep(W)]]]
  BY <1>8 DEF SweepsEq, K, R, sweep
<1> HIDE DEF b
<1>10. ASSUME NEW k \in 1 .. K, NEW W \in R
       PROVE  b[k][W] = IF sweep(W) = W \/ k = K THEN sweep(W) ELSE b[k + 1][sweep(W)]
  <2>1. b[k] = [X \in R |-> IF sweep(X) = X \/ k = K THEN sweep(X) ELSE b[k + 1][sweep(X)]]
    BY <1>9
  <2> QED BY <2>1
<1> QED BY <1>10 DEF b, K, R, sweep

(***************************************************************************)
(* When the third sweep would change nothing any more, the rounds end with *)
(* what the second has left, and not because of the limit.                 *)
(***************************************************************************)
LEMMA TwoSweepsSuffice ==
  ASSUME NEW pol \in Seq(PolicyOp), NEW V \in SUBSET Entries(pol), NEW strategy,
         NEW W, W = Sweep(pol, V, strategy), NEW X, X = Sweep(pol, W, strategy),
         Sweep(pol, X, strategy) = X
  PROVE  SweepUntilStable(pol, V, strategy) = X
<1> DEFINE K == SweepLimit(pol)
           b == Sweeps(pol, strategy)
<1>1. 1 \in 1 .. K /\ 2 \in 1 .. K /\ 3 \in 1 .. K /\ 1 # K /\ 2 # K /\ 1 + 1 = 2 /\ 2 + 1 = 3
  BY LimitIs
<1>2. W \in SUBSET Entries(pol) /\ X \in SUBSET Entries(pol)
  BY SweepTyped
<1>3. b[3][X] = X
  BY <1>1, <1>2, SweepsExist
<1>4. b[2][W] = X
  <2>1. b[2][W] = IF X = W THEN X ELSE b[3][X]
    BY <1>1, <1>2, SweepsExist
  <2> QED BY <1>3, <2>1
<1>5. b[1][V] = X
  <2>1. b[1][V] = IF W = V THEN W ELSE b[2][W]
    BY <1>1, SweepsExist
  <2> QED BY <1>4, <2>1
<1> QED BY <1>5, SweepUntilStableIs

-----------------------------------------------------------------------------
(***************************************************************************)
(* Fixed points.                                                           *)
(***************************************************************************)
\* The register agrees with is_valid_policy on every operation of the log.
Fixed(pol, W, strategy) ==
  \A q \in Range(pol) : q.dot \in W <=> IsValidPolicy(q, pol, W, strategy)

\* A sweep leaves such a register alone.
LEMMA FixedIsSwept ==
  ASSUME NEW pol, Ordered(pol), NEW strategy, NEW W \in SUBSET Entries(pol),
         Fixed(pol, W, strategy)
  PROVE  Sweep(pol, W, strategy) = W
<1>1. \A i : Midway(pol, W, W, i) = W
  BY DEF Midway, Entries, DotsOf, Range
<1>2. \A i \in DOMAIN pol : IsValidPolicy(pol[i], pol, Midway(pol, W, W, i), strategy)
                              <=> pol[i].dot \in W
  BY <1>1 DEF Fixed, Range
<1> QED BY <1>2, SweepReaches

\* The concurrent operations of opposite effect.
Rivals(pol, q) ==
  {c \in PoliciesOn(pol, TupleOf(q)) :
     c.effect # q.effect /\ Concurrent(DagOf(pol, TupleOf(q)), c.dot, q.dot)}

\* is_valid of a policy operation, in words of its rivals.
LEMMA ValidIs ==
  ASSUME NEW pol, NEW q, NEW W, NEW strategy
  PROVE  IsValidPolicy(q, pol, W, strategy) <=>
           /\ q.deps \subseteq W
           /\ q.effect = Favoured(strategy) \/ \A c \in Rivals(pol, q) : c.dot \notin W
BY DEF IsValidPolicy, Rivals, OpWinsAgainst

\* The newest operation is a rival to whatever it does not depend on.
LEMMA RivalsAppend ==
  ASSUME NEW pol \in Seq(PolicyOp), NEW p \in PolicyOp, Ordered(Append(pol, p))
  PROVE  LET t == TupleOf(p)
             above == Ancestors(DagOf(Append(pol, p), t), p.dot)
         IN  /\ \A q \in Range(pol) : Rivals(Append(pol, p), q) =
                   IF TupleOf(q) = t /\ p.effect # q.effect /\ q.dot \notin above
                     THEN Rivals(pol, q) \union {p} ELSE Rivals(pol, q)
             /\ Rivals(Append(pol, p), p) =
                   {c \in PoliciesOn(pol, t) : c.effect # p.effect /\ c.dot \notin above}
<1> DEFINE new == Append(pol, p)
           t == TupleOf(p)
           above == Ancestors(DagOf(new, t), p.dot)
           N == DotsOf(PoliciesOn(pol, t))
<1>1. Ordered(pol) /\ above \subseteq N /\ p.dot \notin N
  BY OrderedBefore, NewestAncestors
<1>2. \A u : PoliciesOn(new, u) = IF t = u THEN PoliciesOn(pol, u) \union {p} ELSE PoliciesOn(pol, u)
  BY PoliciesOnAppend
<1>3. \A u : \A q \in PoliciesOn(pol, u) :
        Ancestors(DagOf(new, u), q.dot) = Ancestors(DagOf(pol, u), q.dot)
  BY AncestorsKept
<1>4. \A u : \A q, c \in PoliciesOn(pol, u) :
        Concurrent(DagOf(new, u), c.dot, q.dot) <=> Concurrent(DagOf(pol, u), c.dot, q.dot)
  BY <1>3 DEF Concurrent
<1>5. ASSUME NEW q \in PoliciesOn(pol, t)
      PROVE  /\ Concurrent(DagOf(new, t), p.dot, q.dot) <=> q.dot \notin above
             /\ Concurrent(DagOf(new, t), q.dot, p.dot) <=> q.dot \notin above
  <2>1. q.dot \in N /\ q.dot # p.dot
    BY <1>1 DEF DotsOf
  <2>2. p.dot \notin Ancestors(DagOf(new, t), q.dot)
    BY <1>1, <1>3, AncestorsInLog
  <2> QED BY <2>1, <2>2 DEF Concurrent
<1> HIDE DEF new, above
<1>6. ASSUME NEW q \in Range(pol)
      PROVE  Rivals(new, q) = IF TupleOf(q) = t /\ p.effect # q.effect /\ q.dot \notin above
                                THEN Rivals(pol, q) \union {p} ELSE Rivals(pol, q)
  <2> DEFINE u == TupleOf(q)
  <2>1. q \in PoliciesOn(pol, u)
    BY DEF PoliciesOn
  <2>2. \A c \in PoliciesOn(pol, u) : c \in Rivals(new, q) <=> c \in Rivals(pol, q)
    BY <1>2, <1>4, <2>1 DEF Rivals
  <2>3. Rivals(pol, q) \subseteq PoliciesOn(pol, u) /\ Rivals(new, q) \subseteq PoliciesOn(new, u)
    BY DEF Rivals
  <2>4. CASE u # t
    <3>1. PoliciesOn(new, u) = PoliciesOn(pol, u)
      BY <1>2, <2>4
    <3> QED BY <2>2, <2>3, <2>4, <3>1
  <2>5. CASE u = t
    <3>1. PoliciesOn(new, u) = PoliciesOn(pol, u) \union {p}
      BY <1>2, <2>5
    <3>2. p \in Rivals(new, q) <=> p.effect # q.effect /\ q.dot \notin above
      BY <1>5, <2>1, <2>5, <3>1 DEF Rivals
    <3>3. p \notin PoliciesOn(pol, u)
      BY <1>1, <2>5 DEF DotsOf
    <3> DEFINE a == Rivals(new, q)
               b == Rivals(pol, q)
               on == PoliciesOn(pol, u)
    <3>4. /\ a \subseteq on \union {p} /\ b \subseteq on /\ p \notin on
          /\ \A c \in on : c \in a <=> c \in b
      BY <2>2, <2>3, <3>1, <3>3
    <3> HIDE DEF a, b, on, u, t
    <3>5. IF p \in a THEN a = b \union {p} ELSE a = b
      <4>1. \A c : c \in b <=> c \in a /\ c # p
        BY <3>4
      <4>2. ASSUME p \in a PROVE a = b \union {p}
        BY <4>1, <4>2
      <4>3. ASSUME p \notin a PROVE a = b
        BY <4>1, <4>3
      <4> QED BY <4>2, <4>3
    <3>6. p \in a <=> u = t /\ p.effect # q.effect /\ q.dot \notin above
      BY <2>5, <3>2 DEF a
    <3> QED BY <3>5, <3>6 DEF a, b, u
  <2> QED BY <2>4, <2>5
<1>7. Rivals(new, p) = {c \in PoliciesOn(pol, t) : c.effect # p.effect /\ c.dot \notin above}
  <2>1. PoliciesOn(new, t) = PoliciesOn(pol, t) \union {p}
    BY <1>2
  <2> QED BY <1>5, <2>1 DEF Rivals
<1> QED BY <1>6, <1>7 DEF new, above

\* An operation and its log, before the register holds the operation: all
\* others are as valid as they were.
LEMMA OthersAsBefore ==
  ASSUME NEW pol \in Seq(PolicyOp), NEW p \in PolicyOp, Ordered(Append(pol, p)),
         NEW W, p.dot \notin W, NEW strategy, NEW q \in Range(pol)
  PROVE  IsValidPolicy(q, Append(pol, p), W, strategy) <=> IsValidPolicy(q, pol, W, strategy)
<1> DEFINE new == Append(pol, p)
<1>1. \A c : c.dot \in W => (c \in Rivals(new, q) <=> c \in Rivals(pol, q))
  BY RivalsAppend
<1> HIDE DEF new
<1>2. IsValidPolicy(q, new, W, strategy) <=> IsValidPolicy(q, pol, W, strategy)
  BY <1>1, ValidIs
<1> QED BY <1>2 DEF new

(***************************************************************************)
(* What a favoured operation brings down: its rivals and whatever depends  *)
(* on one of them.                                                         *)
(***************************************************************************)
Falls(new, p) ==
  LET g      == DagOf(new, TupleOf(p))
      beaten == DotsOf(Rivals(new, p))
  IN  {x \in DotsOf(PoliciesOn(new, TupleOf(p))) :
         x \in beaten \/ \E y \in Ancestors(g, x) : y \in beaten}

\* What falls with an operation is not what it depends on, and is closed
\* downwards: with an operation falls whatever depends on it.
LEMMA FallsIs ==
  ASSUME NEW pol \in Seq(PolicyOp), NEW p \in PolicyOp, Ordered(Append(pol, p))
  PROVE  LET new == Append(pol, p)
             t == TupleOf(p)
             F == Falls(new, p)
         IN  /\ p.dot \notin F /\ Ancestors(DagOf(new, t), p.dot) \cap F = {}
             /\ \A x \in PoliciesOn(new, t) :
                  x.dot \in F <=> x \in Rivals(new, p) \/ \E d \in x.deps : d \in F
             /\ \A x \in Range(new) : TupleOf(x) # t => x.dot \notin F /\ x.deps \cap F = {}
<1> DEFINE new == Append(pol, p)
           t == TupleOf(p)
           g == DagOf(new, t)
           above == Ancestors(g, p.dot)
           N == DotsOf(PoliciesOn(new, t))
           beaten == DotsOf(Rivals(new, p))
           F == Falls(new, p)
<1>1. Ordered(new) /\ IsDag(g) /\ p \in PoliciesOn(new, t)
  BY PoliciesOnAppend, DagIs
<1>2. F = {x \in N : x \in beaten \/ \E y \in Ancestors(g, x) : y \in beaten}
  BY DEF Falls
<1>3. /\ Rivals(new, p) = {c \in PoliciesOn(pol, t) : c.effect # p.effect /\ c.dot \notin above}
      /\ p.dot \notin DotsOf(PoliciesOn(pol, t))
  BY RivalsAppend, NewestAncestors
<1> HIDE DEF new
<1>4. above \cap beaten = {} /\ p.dot \notin beaten
  BY <1>3 DEF DotsOf
<1>5. p.dot \notin F
  BY <1>2, <1>4
<1>6. ASSUME NEW x \in above PROVE x \notin F
  <2>1. Ancestors(g, x) \subseteq above
    BY <1>1, AncestorsAreTransitive
  <2> QED BY <1>2, <1>4, <2>1
<1>7. \A x, y \in Range(new) : x.dot = y.dot => x = y
  BY <1>1, OrderedOps
<1>8. ASSUME NEW x \in PoliciesOn(new, t)
      PROVE  x.dot \in F <=> x \in Rivals(new, p) \/ \E d \in x.deps : d \in F
  <2>1. Ancestors(g, x.dot) = x.deps \union UNION {Ancestors(g, d) : d \in x.deps}
    BY <1>1, DagIs, AncestorsAreTransitive
  <2>2. x.deps \subseteq N
    <3>1. x \in Range(new) /\ TupleOf(x) = t
      BY DEF PoliciesOn
    <3> QED BY <1>1, <3>1, OrderedOps DEF DotsOf
  <2>3. x.dot \in beaten <=> x \in Rivals(new, p)
    BY <1>7 DEF DotsOf, Rivals, PoliciesOn
  <2>4. x.dot \in N
    BY DEF DotsOf
  <2> HIDE DEF g, N, beaten, F
  <2>5. (\E y \in Ancestors(g, x.dot) : y \in beaten) <=> \E d \in x.deps : d \in F
    BY <1>2, <2>1, <2>2
  <2> QED BY <1>2, <2>3, <2>4, <2>5
<1>9. ASSUME NEW x \in Range(new), TupleOf(x) # t PROVE x.dot \notin F /\ x.deps \cap F = {}
  <2>1. x.dot \notin N
    BY <1>7, <1>9 DEF DotsOf, PoliciesOn
  <2>2. ASSUME NEW d \in x.deps PROVE d \notin N
    <3>1. PICK q \in PoliciesOn(new, TupleOf(x)) : q.dot = d
      BY <1>1, OrderedOps
    <3> QED BY <1>7, <1>9, <3>1 DEF DotsOf, PoliciesOn
  <2> QED BY <1>2, <2>1, <2>2
<1> QED BY <1>5, <1>6, <1>8, <1>9 DEF new

\* A register before a favoured operation p, and what p makes of it.
Disputed(pol, p, V, strategy) ==
  /\ pol \in Seq(PolicyOp) /\ p \in PolicyOp
  /\ Ordered(Append(pol, p))
  /\ V \in SUBSET Entries(pol)
  /\ Fixed(pol, V, strategy)
  /\ p.effect = Favoured(strategy) /\ p.deps \subseteq V

Outcome(pol, p, V) == (V \union {p.dot}) \ Falls(Append(pol, p), p)

\* p and what it depends on are in the outcome, and so is what was valid on
\* other tuples.
LEMMA OutcomeHas ==
  ASSUME NEW pol, NEW p, NEW V, NEW strategy, Disputed(pol, p, V, strategy)
  PROVE  LET above == Ancestors(DagOf(Append(pol, p), TupleOf(p)), p.dot)
         IN  p.dot \in Outcome(pol, p, V) /\ above \subseteq V \cap Outcome(pol, p, V)
<1> DEFINE new == Append(pol, p)
           t == TupleOf(p)
           g == DagOf(new, t)
           above == Ancestors(g, p.dot)
           X == {x \in DotsOf(PoliciesOn(pol, t)) : x \in V}
<1>1. /\ pol \in Seq(PolicyOp) /\ p \in PolicyOp /\ Ordered(new) /\ Ordered(pol)
      /\ IsDag(g) /\ Parents(g, p.dot) = p.deps /\ p.deps \subseteq X
  <2>1. pol \in Seq(PolicyOp) /\ p \in PolicyOp /\ Ordered(new) /\ p.deps \subseteq V
    BY DEF Disputed
  <2> QED BY <2>1, OrderedBefore, DagIs, NewestAncestors
<1>2. UpClosed(g, X)
  <2> SUFFICES ASSUME NEW q \in PoliciesOn(pol, t), q.dot \in V PROVE Parents(g, q.dot) \subseteq X
    BY DEF UpClosed, DotsOf
  <2>1. q \in Range(pol) /\ TupleOf(q) = t /\ q \in PoliciesOn(new, t)
    BY <1>1, PoliciesOnAppend DEF PoliciesOn
  <2>2. Parents(g, q.dot) = q.deps
    BY <1>1, <2>1, DagIs
  <2>3. q.deps \subseteq V
    BY <2>1, ValidIs DEF Disputed, Fixed
  <2>4. q.deps \subseteq DotsOf(PoliciesOn(pol, t))
    BY <1>1, <2>1, OrderedOps DEF DotsOf
  <2> QED BY <2>2, <2>3, <2>4
<1>3. above \subseteq X
  BY <1>1, <1>2, AncestorsLeast
<1>4. p.dot \notin Falls(new, p) /\ above \cap Falls(new, p) = {}
  BY <1>1, FallsIs
<1> QED BY <1>3, <1>4 DEF Outcome

(***************************************************************************)
(* Whatever register a sweep meets on the way from V with p to the         *)
(* outcome, it evaluates an operation to what the outcome says of it, once *)
(* the entries of its dependencies have got there.                         *)
(***************************************************************************)
LEMMA TowardsOutcome ==
  ASSUME NEW pol, NEW p, NEW V, NEW strategy, Disputed(pol, p, V, strategy),
         NEW x \in Range(Append(pol, p)), NEW W,
         Outcome(pol, p, V) \subseteq W, W \subseteq V \union {p.dot},
         \A d \in x.deps : d \in W <=> d \in Outcome(pol, p, V)
  PROVE  IsValidPolicy(x, Append(pol, p), W, strategy) <=> x.dot \in Outcome(pol, p, V)
<1> DEFINE new == Append(pol, p)
           t == TupleOf(p)
           above == Ancestors(DagOf(new, t), p.dot)
           F == Falls(new, p)
           T == Outcome(pol, p, V)
           fav == Favoured(strategy)
<1>1. /\ pol \in Seq(PolicyOp) /\ p \in PolicyOp /\ Ordered(new) /\ Ordered(pol)
      /\ V \subseteq Entries(pol) /\ Fixed(pol, V, strategy)
      /\ p.effect = fav /\ p.deps \subseteq V
      /\ Range(new) = Range(pol) \union {p} /\ p.dot \notin Entries(pol)
  <2>1. pol \in Seq(PolicyOp) /\ p \in PolicyOp /\ Ordered(new)
    BY DEF Disputed
  <2> QED BY <2>1, OrderedBefore DEF Disputed, Entries
<1>2. T = (V \union {p.dot}) \ F /\ p.dot \in T /\ above \subseteq V \cap T
  BY OutcomeHas DEF Outcome
<1>3. /\ \A y \in PoliciesOn(new, t) :
           y.dot \in F <=> y \in Rivals(new, p) \/ \E d \in y.deps : d \in F
      /\ \A y \in Range(new) : TupleOf(y) # t => y.dot \notin F /\ y.deps \cap F = {}
  BY <1>1, FallsIs
<1>4. \A q \in Range(pol) : Rivals(new, q) =
        IF TupleOf(q) = t /\ p.effect # q.effect /\ q.dot \notin above
          THEN Rivals(pol, q) \union {p} ELSE Rivals(pol, q)
  BY <1>1, RivalsAppend
<1>5. Rivals(new, p) = {c \in PoliciesOn(pol, t) : c.effect # p.effect /\ c.dot \notin above}
  BY <1>1, RivalsAppend
<1>6. \A q \in Range(pol) : q.deps \subseteq Entries(pol) /\ q.dot # p.dot /\ q.dot \in Entries(pol)
  <2>1. \A q \in Range(pol) : \A d \in q.deps : \E r \in PoliciesOn(pol, TupleOf(q)) : r.dot = d
    BY <1>1, OrderedOps
  <2> QED BY <1>1, <2>1 DEF Entries, DotsOf, PoliciesOn
<1>7. /\ x.dot \in Entries(pol) \union {p.dot}
      /\ \A q, r \in Range(new) : q.dot = r.dot => q = r
      /\ T \subseteq W /\ W \subseteq V \union {p.dot}
      /\ \A d \in x.deps : d \in W <=> d \in T
  BY <1>1, <1>6, OrderedOps
<1>8. IsValidPolicy(x, new, W, strategy) <=>
        /\ x.deps \subseteq T
        /\ x.effect = fav \/ \A c \in Rivals(new, x) : c.dot \notin W
  BY <1>7, ValidIs
<1>9. x \in Range(pol) => (x.dot \in V <=>
        /\ x.deps \subseteq V
        /\ x.effect = fav \/ \A c \in Rivals(pol, x) : c.dot \notin V)
  BY <1>1, ValidIs DEF Fixed
<1>10. x \in Range(pol) => (x.deps \subseteq T <=> x.deps \subseteq V /\ x.deps \cap F = {})
  BY <1>2, <1>6, <1>1
<1>11. \A c \in Rivals(pol, x) : c \in Range(pol) /\ TupleOf(c) = TupleOf(x)
  BY DEF Rivals, PoliciesOn
<1>12. CASE x = p
  <2>1. p.deps \subseteq above
    <3>1. Parents(DagOf(new, t), p.dot) = p.deps
      BY <1>1, NewestAncestors
    <3>2. IsDag(DagOf(new, t))
      BY <1>1, DagIs
    <3> QED BY <3>1, <3>2, AncestorsLeast
  <2> QED BY <1>1, <1>2, <1>8, <1>12, <2>1
<1>13. CASE x \in Range(pol) /\ TupleOf(x) # t
  <2>1. x.dot \notin F /\ x.deps \cap F = {} /\ x \in Range(new) /\ x.dot # p.dot
    BY <1>1, <1>3, <1>6, <1>13
  <2>2. Rivals(new, x) = Rivals(pol, x)
    BY <1>4, <1>13
  <2>3. \A c \in Rivals(pol, x) : c.dot \in W <=> c.dot \in V
    <3> SUFFICES ASSUME NEW c \in Rivals(pol, x) PROVE c.dot \in W <=> c.dot \in V
      OBVIOUS
    <3>1. c \in Range(new) /\ TupleOf(c) # t /\ c.dot # p.dot
      BY <1>1, <1>6, <1>11, <1>13
    <3>2. c.dot \notin F
      BY <1>3, <3>1
    <3> QED BY <1>2, <1>7, <3>1, <3>2
  <2>4. x.dot \in T <=> x.dot \in V
    BY <1>2, <2>1
  <2>5. x.deps \subseteq T <=> x.deps \subseteq V
    BY <1>10, <1>13, <2>1
  <2> QED BY <1>8, <1>9, <1>13, <2>2, <2>3, <2>4, <2>5
<1>14. ASSUME x \in Range(pol), TupleOf(x) = t
       PROVE  /\ x.dot # p.dot
              /\ x.dot \in T <=> x.dot \in V /\ x \notin Rivals(new, p) /\ x.deps \cap F = {}
              /\ x \in Rivals(new, p) <=> x.effect # fav /\ x.dot \notin above
  <2>1. x \in PoliciesOn(new, t) /\ x \in PoliciesOn(pol, t)
    BY <1>1, <1>14 DEF PoliciesOn
  <2>2. x.dot \in F <=> x \in Rivals(new, p) \/ \E d \in x.deps : d \in F
    BY <1>3, <2>1
  <2>3. x.dot # p.dot
    BY <1>6, <1>14
  <2>4. x \in Rivals(new, p) <=> x.effect # fav /\ x.dot \notin above
    BY <1>1, <1>5, <2>1
  <2> QED BY <1>2, <2>2, <2>3, <2>4
<1>15. CASE x \in Range(pol) /\ TupleOf(x) = t /\ x.effect = fav
  <2>1. x \notin Rivals(new, p)
    BY <1>14, <1>15
  <2>2. x.dot \in V <=> x.deps \subseteq V
    BY <1>9, <1>15
  <2>3. x.dot \in T <=> x.deps \subseteq V /\ x.deps \cap F = {}
    BY <1>14, <1>15, <2>1, <2>2
  <2> QED BY <1>8, <1>10, <1>15, <2>3
<1>16. CASE x \in Range(pol) /\ TupleOf(x) = t /\ x.effect # fav
  <2>1. Rivals(new, x) = IF x.dot \notin above THEN Rivals(pol, x) \union {p} ELSE Rivals(pol, x)
    BY <1>1, <1>4, <1>16
  <2>2. ASSUME x.dot \in T PROVE IsValidPolicy(x, new, W, strategy)
    <3>1. x.dot \in V /\ x.dot \in above /\ x.deps \cap F = {}
      BY <1>14, <1>16, <2>2
    <3>2. x.deps \subseteq V /\ \A c \in Rivals(pol, x) : c.dot \notin V
      BY <1>9, <1>16, <3>1
    <3>3. \A c \in Rivals(new, x) : c.dot \notin W
      BY <1>6, <1>7, <1>11, <2>1, <3>1, <3>2
    <3> QED BY <1>8, <1>10, <1>16, <3>1, <3>2, <3>3
  <2>3. ASSUME IsValidPolicy(x, new, W, strategy) PROVE x.dot \in T
    <3>1. \A c \in Rivals(new, x) : c.dot \notin W
      BY <1>8, <1>16, <2>3
    <3>2. p.dot \in W
      BY <1>2, <1>7
    <3>3. x.dot \in above
      BY <2>1, <3>1, <3>2
    <3> QED BY <1>2, <3>3
  <2> QED BY <2>2, <2>3
<1>17. x = p \/ x \in Range(pol)
  BY <1>1
<1> QED BY <1>12, <1>13, <1>15, <1>16, <1>17

\* On the way from V down to T, a register lies between the two, and the entries
\* an operation depends on have arrived when it is evaluated.
LEMMA MidwayDown ==
  ASSUME NEW pol, Ordered(pol), NEW V \in SUBSET Entries(pol), NEW T, T \subseteq V,
         NEW i \in DOMAIN pol
  PROVE  /\ T \subseteq Midway(pol, T, V, i) /\ Midway(pol, T, V, i) \subseteq V
         /\ \A d \in pol[i].deps : d \in Midway(pol, T, V, i) <=> d \in T
<1> DEFINE M == Midway(pol, T, V, i)
<1>1. /\ pol \in Seq(PolicyOp) /\ DOMAIN pol = 1 .. Len(pol) /\ Len(pol) \in Nat
      /\ \A j, k \in DOMAIN pol : pol[j].dot = pol[k].dot => j = k
      /\ \A x : x \in Entries(pol) <=> \E j \in DOMAIN pol : pol[j].dot = x
  BY DEF Ordered, Entries, DotsOf, Range
<1>2. T \subseteq M /\ M \subseteq V
  <2>1. ASSUME NEW x \in T PROVE x \in M
    <3>1. x \in V /\ x \in Entries(pol)
      OBVIOUS
    <3>2. PICK j \in DOMAIN pol : pol[j].dot = x
      BY <1>1, <3>1
    <3> QED BY <2>1, <3>1, <3>2 DEF Midway
  <2>2. ASSUME NEW x \in M PROVE x \in V
    BY <2>2 DEF Midway
  <2> QED BY <2>1, <2>2
<1>3. ASSUME NEW d \in pol[i].deps PROVE d \in M <=> d \in T
  <2>1. PICK j \in 1 .. i - 1 : pol[j].dot = d
    BY <1>3 DEF Ordered
  <2>2. j \in DOMAIN pol /\ j < i
    BY <1>1
  <2>3. \A k \in DOMAIN pol : pol[k].dot = d => k = j
    BY <1>1, <2>1, <2>2
  <2>4. d \in Entries(pol)
    BY <1>1, <2>1, <2>2
  <2> QED BY <2>1, <2>2, <2>3, <2>4 DEF Midway
<1> QED BY <1>2, <1>3

(***************************************************************************)
(* Algorithm 1 ends.  From a register that agreed with is_valid_policy on  *)
(* every operation of a log, the sweeps lead to one that agrees with it on *)
(* the log with one operation more: at most two of them change anything.   *)
(* A favoured operation whose dependencies are valid is itself valid then. *)
(***************************************************************************)
LEMMA PolicyRebuild ==
  ASSUME NEW pol \in Seq(PolicyOp), NEW p \in PolicyOp, Ordered(Append(pol, p)), NEW strategy,
         NEW V \in SUBSET Entries(pol), Fixed(pol, V, strategy)
  PROVE  LET X == SweepUntilStable(Append(pol, p), V, strategy)
         IN  /\ X \subseteq Entries(Append(pol, p)) /\ Fixed(Append(pol, p), X, strategy)
             /\ p.effect = Favoured(strategy) /\ p.deps \subseteq V => p.dot \in X
<1> DEFINE new == Append(pol, p)
           n == Len(pol)
           V1 == V \union {p.dot}
           fav == Favoured(strategy)
<1>1. /\ Ordered(new) /\ Ordered(pol) /\ new \in Seq(PolicyOp)
      /\ Range(new) = Range(pol) \union {p} /\ p.dot \notin Entries(pol)
  BY OrderedBefore DEF Entries
<1>2. Entries(new) = Entries(pol) \union {p.dot} /\ V1 \in SUBSET Entries(new) /\ V \in SUBSET Entries(new)
  BY <1>1 DEF Entries, DotsOf
<1>3. /\ DOMAIN new = 1 .. n + 1 /\ n \in Nat /\ new[n + 1] = p
      /\ \A i \in 1 .. n : new[i] = pol[i]
  <2>1. Len(new) = n + 1 /\ new[n + 1] = p /\ \A i \in 1 .. n : new[i] = pol[i]
    BY AppendProperties
  <2> QED BY <1>1, <2>1
<1>4. \A q \in Range(pol) : q.deps \subseteq Entries(pol) /\ q.dot \in Entries(pol)
  <2>1. \A q \in Range(pol) : \A d \in q.deps : \E r \in PoliciesOn(pol, TupleOf(q)) : r.dot = d
    BY <1>1, OrderedOps
  <2> QED BY <2>1 DEF Entries, DotsOf, PoliciesOn
<1>5. \A q \in Range(pol) : q.dot \in V <=> IsValidPolicy(q, new, V, strategy)
  BY <1>1, OthersAsBefore DEF Fixed
<1>6. SUFFICES ASSUME NEW W, W = Sweep(new, V, strategy)
               PROVE  \E X \in SUBSET Entries(new) :
                        /\ X = Sweep(new, W, strategy)
                        /\ Fixed(new, X, strategy)
                        /\ p.effect = fav /\ p.deps \subseteq V => p.dot \in X
  <2>1. PICK X \in SUBSET Entries(new) :
          /\ X = Sweep(new, Sweep(new, V, strategy), strategy) /\ Fixed(new, X, strategy)
          /\ p.effect = fav /\ p.deps \subseteq V => p.dot \in X
    BY <1>6
  <2>2. Sweep(new, X, strategy) = X
    BY <1>1, <2>1, FixedIsSwept
  <2> HIDE DEF new
  <2>3. SweepUntilStable(new, V, strategy) = X
    BY <1>1, <1>2, <2>1, <2>2, TwoSweepsSuffice
  <2> QED BY <2>1, <2>3 DEF new
<1>7. CASE ~IsValidPolicy(p, new, V, strategy)
  <2>1. Fixed(new, V, strategy)
    BY <1>1, <1>5, <1>7 DEF Fixed
  <2>2. Sweep(new, V, strategy) = V
    BY <1>1, <1>2, <2>1, FixedIsSwept
  <2>3. ~(p.effect = fav /\ p.deps \subseteq V)
    BY <1>7, ValidIs
  <2> QED BY <1>2, <1>6, <2>1, <2>2, <2>3
<1>8. CASE IsValidPolicy(p, new, V, strategy)
  <2>1. p.deps \subseteq V
    BY <1>8, ValidIs
  <2>2. W = V1
    <3>1. ASSUME NEW i \in DOMAIN new
          PROVE  IsValidPolicy(new[i], new, Midway(new, V1, V, i), strategy) <=> new[i].dot \in V1
      <4>1. Midway(new, V1, V, i) = V
        <5>1. ASSUME NEW j \in DOMAIN new, j < i PROVE new[j].dot # p.dot
          <6>1. j \in 1 .. n
            BY <1>3, <5>1
          <6>2. pol[j] \in Range(pol) /\ new[j] = pol[j]
            BY <1>3, <6>1 DEF Range
          <6> QED BY <1>1, <1>4, <6>2
        <5>2. \A x \in Entries(new) : \E j \in DOMAIN new : new[j].dot = x
          BY DEF Entries, DotsOf, Range
        <5> HIDE DEF new
        <5>3. ASSUME NEW x \in Entries(new) PROVE x \in Midway(new, V1, V, i) <=> x \in V
          BY <5>1, <5>2, <5>3 DEF Midway
        <5>4. Midway(new, V1, V, i) \subseteq Entries(new)
          BY DEF Midway
        <5> QED BY <1>2, <5>3, <5>4
      <4>2. new[i] \in Range(new)
        BY DEF Range
      <4>3. new[i] \in Range(pol) => new[i].dot # p.dot
        BY <1>1, <1>4
      <4> QED BY <1>1, <1>5, <1>8, <4>1, <4>2, <4>3
    <3> HIDE DEF new, V1
    <3> QED BY <1>1, <1>2, <1>6, <3>1, SweepReaches
  <2>3. CASE p.effect # fav
    <3>1. Fixed(new, V1, strategy)
      <4>1. \A q \in Range(pol) : Rivals(new, q) =
              IF TupleOf(q) = TupleOf(p) /\ p.effect # q.effect
                 /\ q.dot \notin Ancestors(DagOf(new, TupleOf(p)), p.dot)
                THEN Rivals(pol, q) \union {p} ELSE Rivals(pol, q)
        BY <1>1, RivalsAppend
      <4>2. \A q \in Range(new) : \A c \in Rivals(pol, q) : c.dot # p.dot
        BY <1>1, <1>4 DEF Rivals, PoliciesOn
      <4>3. Rivals(new, p) \subseteq PoliciesOn(pol, TupleOf(p))
        BY <1>1, RivalsAppend
      <4>4. p.dot \notin p.deps /\ \A c \in Rivals(new, p) : c.dot # p.dot
        BY <1>1, <1>2, <1>4, <2>1, <4>3 DEF PoliciesOn
      <4>5. IsValidPolicy(p, new, V1, strategy)
        <5>1. IsValidPolicy(p, new, V, strategy)
          BY <1>8
        <5> HIDE DEF new
        <5> QED BY <4>4, <5>1, ValidIs
      <4>6. ASSUME NEW q \in Range(pol)
            PROVE  q.dot \in V1 <=> IsValidPolicy(q, new, V1, strategy)
        <5>1. q.effect # fav => q.effect = p.effect
          <6>1. q \in PolicyOp /\ p \in PolicyOp
            BY <1>1, OrderedOps
          <6>2. q.effect \in {"Allow", "Deny"} /\ p.effect \in {"Allow", "Deny"}
            BY <6>1 DEF PolicyOp, Effect
          <6> QED BY <2>3, <6>2 DEF Favoured
        <5>2. q.dot # p.dot /\ p.dot \notin q.deps /\ \A c \in Rivals(pol, q) : c.dot # p.dot
          BY <1>1, <1>4, <4>2
        <5>3. q.effect # fav => Rivals(new, q) = Rivals(pol, q)
          BY <4>1, <5>1
        <5>4. q.dot \in V <=> IsValidPolicy(q, new, V, strategy)
          BY <1>5
        <5> HIDE DEF new
        <5>5. IsValidPolicy(q, new, V1, strategy) <=> IsValidPolicy(q, new, V, strategy)
          <6>1. q.deps \subseteq V1 <=> q.deps \subseteq V
            BY <5>2
          <6>2. q.effect # fav => \A c \in Rivals(new, q) : c.dot \in V1 <=> c.dot \in V
            BY <5>2, <5>3
          <6> HIDE DEF V1
          <6> QED BY <6>1, <6>2, ValidIs
        <5> QED BY <5>2, <5>4, <5>5
      <4> QED BY <1>1, <4>5, <4>6 DEF Fixed
    <3>2. Sweep(new, V1, strategy) = V1
      BY <1>1, <1>2, <3>1, FixedIsSwept
    <3> QED BY <1>2, <2>2, <2>3, <3>1, <3>2
  <2>4. CASE p.effect = fav
    <3> DEFINE T == Outcome(pol, p, V)
    <3>1. Disputed(pol, p, V, strategy)
      BY <1>1, <2>1, <2>4 DEF Disputed
    <3>2. T \subseteq V1 /\ T \in SUBSET Entries(new) /\ p.dot \in T
      BY <1>2, <3>1, OutcomeHas DEF Outcome
    <3> HIDE DEF T
    <3>3. Sweep(new, V1, strategy) = T
      <4>1. ASSUME NEW i \in DOMAIN new
            PROVE  IsValidPolicy(new[i], new, Midway(new, T, V1, i), strategy) <=> new[i].dot \in T
        <5> DEFINE M == Midway(new, T, V1, i)
        <5> HIDE DEF M
        <5>1. new[i] \in Range(new)
          BY DEF Range
        <5>2. T \subseteq M /\ M \subseteq V1 /\ \A d \in new[i].deps : d \in M <=> d \in T
          <6> HIDE DEF new, V1
          <6> QED BY <1>1, <1>2, <3>2, MidwayDown DEF M
        <5>3. IsValidPolicy(new[i], new, M, strategy) <=> new[i].dot \in T
          BY <3>1, <5>1, <5>2, TowardsOutcome DEF T
        <5> QED BY <5>3 DEF M
      <4> HIDE DEF new, V1
      <4> QED BY <1>1, <1>2, <3>2, <4>1, SweepReaches
    <3>4. Fixed(new, T, strategy)
      <4> SUFFICES ASSUME NEW x \in Range(new)
                   PROVE  x.dot \in T <=> IsValidPolicy(x, new, T, strategy)
        BY DEF Fixed
      <4> QED BY <3>1, <3>2, TowardsOutcome DEF T
    <3> QED BY <2>2, <3>2, <3>3, <3>4
  <2> QED BY <2>3, <2>4
<1> QED BY <1>7, <1>8

-----------------------------------------------------------------------------
(***************************************************************************)
(* The register of a whole log.                                            *)
(***************************************************************************)
\* The logs the sites have: document operations have dots of their own, and
\* depend on policy operations of the log.
Complete(pol, docs) ==
  /\ Ordered(pol)
  /\ \A d, f \in docs : d.dot = f.dot => d = f
  /\ DotsOf(docs) \cap Entries(pol) = {}
  /\ \A d \in docs : d.deps \subseteq Entries(pol)

\* The register agrees with is_valid on the whole log.
Settled(pol, docs, V, strategy) ==
  /\ Fixed(pol, V, strategy)
  /\ \A d \in docs : d.dot \in V <=> IsValidDocument(d, pol, docs, V, strategy)

\* is_valid looks at the entries of policy operations only.
LEMMA PolicyEntriesDecide ==
  ASSUME NEW pol, Ordered(pol), NEW V, NEW W, V \cap Entries(pol) = W \cap Entries(pol), NEW strategy
  PROVE  /\ \A q \in Range(pol) : IsValidPolicy(q, pol, V, strategy) <=> IsValidPolicy(q, pol, W, strategy)
         /\ Fixed(pol, V, strategy) <=> Fixed(pol, W, strategy)
         /\ \A d, docs, more :
              d.deps \subseteq Entries(pol) =>
                (IsValidDocument(d, pol, docs, V, strategy) <=> IsValidDocument(d, pol, more, W, strategy))
<1>1. \A x \in Entries(pol) : x \in V <=> x \in W
  OBVIOUS
<1>2. \A q \in Range(pol) : q.dot \in Entries(pol)
  BY DEF Entries, DotsOf
<1>3. ASSUME NEW q \in Range(pol)
      PROVE  IsValidPolicy(q, pol, V, strategy) <=> IsValidPolicy(q, pol, W, strategy)
  <2>1. \A x \in q.deps : x \in Entries(pol)
    <3>1. \A x \in q.deps : \E r \in PoliciesOn(pol, TupleOf(q)) : r.dot = x
      BY OrderedOps
    <3> QED BY <1>2, <3>1 DEF PoliciesOn
  <2>2. \A c \in Rivals(pol, q) : c.dot \in Entries(pol)
    BY <1>2 DEF Rivals, PoliciesOn
  <2>3. q.deps \subseteq V <=> q.deps \subseteq W
    BY <1>1, <2>1
  <2>4. (\A c \in Rivals(pol, q) : c.dot \notin V) <=> \A c \in Rivals(pol, q) : c.dot \notin W
    BY <1>1, <2>2
  <2> QED BY <2>3, <2>4, ValidIs
<1>4. Fixed(pol, V, strategy) <=> Fixed(pol, W, strategy)
  BY <1>1, <1>2, <1>3 DEF Fixed
<1>5. ASSUME NEW d, NEW docs, NEW more, d.deps \subseteq Entries(pol)
      PROVE  IsValidDocument(d, pol, docs, V, strategy) <=> IsValidDocument(d, pol, more, W, strategy)
  <2>1. \A t : ValidOn(pol, V, t) = ValidOn(pol, W, t)
    BY <1>1, <1>2 DEF ValidOn, PoliciesOn
  <2>2. (\A x \in d.deps : x \in DotsOf(Range(pol)) \union DotsOf(docs) => x \in V)
          <=> \A x \in d.deps : x \in DotsOf(Range(pol)) \union DotsOf(more) => x \in W
    BY <1>1, <1>5 DEF Entries
  <2> QED BY <2>1, <2>2 DEF IsValidDocument
<1> QED BY <1>3, <1>4, <1>5

\* When the sweeps end at a fixed point, rebuild_validity settles the register.
LEMMA RebuildSettles ==
  ASSUME NEW pol, NEW docs, Complete(pol, docs), NEW V, NEW strategy,
         LET X == SweepUntilStable(pol, V \cap Entries(pol), strategy)
         IN  X \subseteq Entries(pol) /\ Fixed(pol, X, strategy)
  PROVE  /\ Settled(pol, docs, RebuildValidity(pol, docs, V, strategy), strategy)
         /\ SweepUntilStable(pol, V \cap Entries(pol), strategy)
              \subseteq RebuildValidity(pol, docs, V, strategy)
<1> DEFINE X == SweepUntilStable(pol, V \cap Entries(pol), strategy)
           shown == {d \in docs : IsValidDocument(d, pol, docs, X, strategy)}
           R == RebuildValidity(pol, docs, V, strategy)
<1>1. R = X \union DotsOf(shown)
  <2>1. X \subseteq Entries(pol)
    OBVIOUS
  <2>2. DotsOf({p \in Range(pol) : p.dot \in X}) = X
    <3> HIDE DEF X
    <3> QED BY <2>1 DEF Entries, DotsOf
  <2> DEFINE P == DotsOf({p \in Range(pol) : p.dot \in X})
  <2>3. R = P \union DotsOf({d \in docs : IsValidDocument(d, pol, docs, P, strategy)})
    BY DEF RebuildValidity, Entries
  <2>4. P = X
    BY <2>2
  <2> HIDE DEF P, X
  <2> QED BY <2>3, <2>4
<1>2. X \subseteq Entries(pol) /\ Fixed(pol, X, strategy)
  OBVIOUS
<1> HIDE DEF X, R
<1>3. Ordered(pol) /\ DotsOf(docs) \cap Entries(pol) = {} /\ DotsOf(shown) \subseteq DotsOf(docs)
  BY DEF Complete, DotsOf
<1>4. R \cap Entries(pol) = X \cap Entries(pol)
  BY <1>1, <1>3
<1>5. Fixed(pol, R, strategy)
  BY <1>2, <1>3, <1>4, PolicyEntriesDecide
<1>6. ASSUME NEW d \in docs
      PROVE  d.dot \in R <=> IsValidDocument(d, pol, docs, R, strategy)
  <2>1. d.deps \subseteq Entries(pol)
    BY DEF Complete
  <2>2. IsValidDocument(d, pol, docs, R, strategy) <=> IsValidDocument(d, pol, docs, X, strategy)
    BY <1>3, <1>4, <2>1, PolicyEntriesDecide
  <2>3. d.dot \notin X
    BY <1>2, <1>3 DEF DotsOf
  <2>4. d.dot \in DotsOf(shown) <=> d \in shown
    BY DEF Complete, DotsOf
  <2> QED BY <1>1, <2>2, <2>3, <2>4
<1> QED BY <1>1, <1>5, <1>6 DEF Settled, X, R

(***************************************************************************)
(* The three ways a log grows: effect_policy; rebuild_from_automerge for a *)
(* document operation; effect_document, which does not rebuild.            *)
(***************************************************************************)
LEMMA PolicySettles ==
  ASSUME NEW pol \in Seq(PolicyOp), NEW p \in PolicyOp, NEW docs, Complete(Append(pol, p), docs),
         NEW strategy, NEW V, V \subseteq Entries(pol) \union DotsOf(docs),
         Settled(pol, docs, V, strategy)
  PROVE  LET new == Append(pol, p)
             R == RebuildValidity(new, docs, V, strategy)
         IN  /\ Settled(new, docs, R, strategy)
             /\ p.effect = Favoured(strategy) /\ p.deps \subseteq V => p.dot \in R
<1> DEFINE new == Append(pol, p)
           W == V \cap Entries(new)
<1>1. Ordered(new) /\ Ordered(pol) /\ Entries(new) = Entries(pol) \union {p.dot} /\ p.dot \notin Entries(pol)
  BY OrderedBefore DEF Complete, Entries, DotsOf
<1>2. p.dot \notin DotsOf(docs)
  BY <1>1 DEF Complete
<1>3. W = V \cap Entries(pol)
  BY <1>1, <1>2
<1>4. W \in SUBSET Entries(pol) /\ W \cap Entries(pol) = V \cap Entries(pol)
  BY <1>3
<1>5. Fixed(pol, V, strategy)
  BY DEF Settled
<1>6. Fixed(pol, W, strategy)
  BY <1>1, <1>4, <1>5, PolicyEntriesDecide
<1>7. p.deps \subseteq V => p.deps \subseteq W
  <2>1. \A x \in p.deps : x \in Entries(pol)
    BY <1>1, OrderedBefore DEF Entries, DotsOf, PoliciesOn
  <2> QED BY <1>3, <2>1
<1> DEFINE X == SweepUntilStable(new, W, strategy)
<1> HIDE DEF W
<1>8. /\ X \subseteq Entries(new) /\ Fixed(new, X, strategy)
      /\ p.effect = Favoured(strategy) /\ p.deps \subseteq W => p.dot \in X
  BY <1>1, <1>4, <1>6, PolicyRebuild
<1> HIDE DEF new
<1>9. /\ Settled(new, docs, RebuildValidity(new, docs, V, strategy), strategy)
      /\ X \subseteq RebuildValidity(new, docs, V, strategy)
  BY <1>8, RebuildSettles DEF new, W
<1> HIDE DEF X
<1> QED BY <1>7, <1>8, <1>9 DEF new

\* The rebuild after a received edit leaves the policies as they are and settles.
LEMMA DocumentSettles ==
  ASSUME NEW pol, NEW docs, NEW more, Complete(pol, more), NEW strategy, NEW V,
         Settled(pol, docs, V, strategy)
  PROVE  Settled(pol, more, RebuildValidity(pol, more, V, strategy), strategy)
<1> DEFINE W == V \cap Entries(pol)
<1>1. Ordered(pol) /\ pol \in Seq(PolicyOp) /\ W \in SUBSET Entries(pol)
  BY DEF Complete, Ordered
<1>2. Fixed(pol, W, strategy)
  BY <1>1, PolicyEntriesDecide DEF Settled
<1>3. Sweep(pol, W, strategy) = W
  BY <1>1, <1>2, FixedIsSwept
<1>4. SweepUntilStable(pol, W, strategy) = W
  <2> HIDE DEF W
  <2> QED BY <1>1, <1>3, TwoSweepsSuffice
<1> QED BY <1>1, <1>2, <1>4, RebuildSettles

\* A site's own edit needs no rebuild: no other entry depends on it.
LEMMA OwnDocumentSettles ==
  ASSUME NEW pol, NEW docs, NEW d, Complete(pol, docs \union {d}), NEW strategy, NEW V,
         d.dot \notin V, d.dot \notin DotsOf(docs), Settled(pol, docs, V, strategy)
  PROVE  Settled(pol, docs \union {d},
                 IF IsValidDocument(d, pol, docs, V, strategy) THEN V \union {d.dot} ELSE V, strategy)
<1> DEFINE more == docs \union {d}
           W == IF IsValidDocument(d, pol, docs, V, strategy) THEN V \union {d.dot} ELSE V
<1>1. Ordered(pol) /\ d.dot \notin Entries(pol) /\ \A x \in more : x.deps \subseteq Entries(pol)
  BY DEF Complete, DotsOf
<1>2. W \cap Entries(pol) = V \cap Entries(pol)
  BY <1>1
<1>3. \A x \in docs : x.dot # d.dot
  BY DEF DotsOf
<1>4. \A x \in more : IsValidDocument(x, pol, more, W, strategy) <=> IsValidDocument(x, pol, docs, V, strategy)
  BY <1>1, <1>2, PolicyEntriesDecide
<1>5. Fixed(pol, W, strategy)
  BY <1>1, <1>2, PolicyEntriesDecide DEF Settled
<1>6. ASSUME NEW x \in more PROVE x.dot \in W <=> IsValidDocument(x, pol, more, W, strategy)
  <2>1. x \in docs => (x.dot \in V <=> IsValidDocument(x, pol, docs, V, strategy))
    BY DEF Settled
  <2> QED BY <1>3, <1>4, <2>1
<1> QED BY <1>5, <1>6 DEF Settled

-----------------------------------------------------------------------------
(***************************************************************************)
(* The sites: what Invariance says of their logs, and Stable.              *)
(***************************************************************************)
LEMMA LogsComplete == IInv => \A s \in Site : Complete(policies[s], documents[s])
<1> SUFFICES ASSUME IInv, NEW s \in Site PROVE Complete(policies[s], documents[s])
  OBVIOUS
<1>1. Ordered(policies[s])
  <2>1. policies[s] \in Seq(PolicyOp)
    BY DEF IInv, TypeOK
  <2>2. \A i, j \in DOMAIN policies[s] : policies[s][i].dot = policies[s][j].dot => i = j
    BY DEF IInv, OnceEach
  <2>3. \A i \in DOMAIN policies[s] : \A x \in policies[s][i].deps :
          \E j \in 1 .. i - 1 : /\ policies[s][j].dot = x
                                /\ TupleOf(policies[s][j]) = TupleOf(policies[s][i])
    BY DEF IInv, DepsDelivered
  <2> QED BY <2>1, <2>2, <2>3 DEF Ordered
<1>2. \A d \in documents[s] : \E e \in docLog : e.op = d
  BY DEF IInv, Recorded
<1>3. \A p \in Range(policies[s]) : \E e \in policyLog : e.op = p
  BY DEF IInv, Recorded
<1>4. \A d, f \in documents[s] : d.dot = f.dot => d = f
  BY <1>2 DEF IInv, Causality, DotsUnique
<1>5. DotsOf(documents[s]) \cap Entries(policies[s]) = {}
  BY <1>2, <1>3 DEF IInv, KindsApart, DotsOf, Entries
<1>6. ASSUME NEW d \in documents[s], NEW x \in d.deps PROVE x \in Entries(policies[s])
  BY <1>6 DEF IInv, DepsDelivered, Entries, DotsOf, PoliciesOn
<1> QED BY <1>1, <1>4, <1>5, <1>6 DEF Complete

\* The logs are complete after the step as well.
LEMMA LogsCompleteNext == IInv' => \A s \in Site : Complete(policies'[s], documents'[s])
<1>1. (IInv => \A s \in Site : Complete(policies[s], documents[s]))'
  BY LogsComplete, PTL
<1> QED BY <1>1

\* Stable says of every site that its register is settled.
AllSettled == \A s \in Site : Settled(policies[s], documents[s], valid[s], Strategy[s])

\* Stable says of every site what Settled says of one.
LEMMA StableIs == IInv => (Stable <=> AllSettled)
<1> SUFFICES ASSUME IInv, NEW s \in Site
             PROVE  (\A o \in Range(policies[s]) \union documents[s] : o.dot \in valid[s] <=> IsValid(s, o))
                      <=> Settled(policies[s], documents[s], valid[s], Strategy[s])
  BY DEF Stable, AllSettled
<1>1. \A o \in Range(policies[s]) : o \notin documents[s]
  BY LogsComplete DEF Complete, Entries, DotsOf
<1> QED BY <1>1 DEF Settled, Fixed, IsValid

\* A register has entries of logged operations only.
LEMMA RegisterInLog == IInv => \A s \in Site : valid[s] \subseteq Entries(policies[s]) \union DotsOf(documents[s])
BY DEF IInv, TypeOK, Seen, PolicyDots, Entries

\* A policy operation, the site's own or a received one, leaves settled registers.
LEMMA EffectPolicySettles ==
  ASSUME IInv, AllSettled, NEW s \in Site, NEW p \in PolicyOp, NEW counters,
         EffectPolicy(s, p, counters),
         \A r \in Site : Complete(policies'[r], documents'[r])
  PROVE  AllSettled'
<1> DEFINE new == Append(policies[s], p)
           R == RebuildValidity(new, documents[s], valid[s], Strategy[s])
<1>1. /\ policies \in [Site -> Seq(PolicyOp)] /\ valid \in [Site -> SUBSET Dot]
      /\ policies' = [policies EXCEPT ![s] = new]
      /\ valid' = [valid EXCEPT ![s] = R]
      /\ documents' = documents
  BY DEF EffectPolicy, IInv, TypeOK
<1> HIDE DEF R
<1>2. policies'[s] = new /\ valid'[s] = R
  BY <1>1
<1>3. \A r \in Site : r # s => policies'[r] = policies[r] /\ valid'[r] = valid[r]
  BY <1>1
<1>4. policies[s] \in Seq(PolicyOp) /\ Complete(new, documents[s])
  BY <1>1, <1>2
<1> HIDE DEF new
<1>5. Settled(new, documents[s], R, Strategy[s])
  BY <1>4, RegisterInLog, PolicySettles DEF AllSettled, new, R
<1>6. ASSUME NEW r \in Site
      PROVE  Settled(policies'[r], documents'[r], valid'[r], Strategy[r])
  BY <1>1, <1>2, <1>3, <1>5 DEF AllSettled
<1> QED BY <1>6 DEF AllSettled

\* So does an edit of the site's own, without a rebuild,
LEMMA UpdateDocumentSettles ==
  ASSUME IInv, AllSettled, NEW s \in Site, UpdateDocument(s),
         \A r \in Site : Complete(policies'[r], documents'[r])
  PROVE  AllSettled'
<1> DEFINE d == NewDocOp(s)
           R == IF IsValidDocument(d, policies[s], documents[s], valid[s], Strategy[s])
                  THEN valid[s] \union {d.dot} ELSE valid[s]
<1>1. /\ documents \in [Site -> SUBSET DocOp] /\ valid \in [Site -> SUBSET Dot]
      /\ documents' = [documents EXCEPT ![s] = @ \union {d}]
      /\ valid' = [valid EXCEPT ![s] = R]
      /\ policies' = policies
  BY DEF UpdateDocument, EffectDocument, IInv, TypeOK
<1>2. d.dot \notin AllDots
  BY FreshDot DEF NewDocOp
<1>3. valid[s] \subseteq AllDots /\ DotsOf(documents[s]) \subseteq AllDots
  <2>1. Seen(s) \subseteq AllDots
    BY DEF IInv, Recorded, Seen, PolicyDots, DotsOf, AllDots
  <2> QED BY <2>1 DEF IInv, TypeOK, Seen
<1> HIDE DEF d, R
<1>4. documents'[s] = documents[s] \union {d} /\ valid'[s] = R
  BY <1>1
<1>5. \A r \in Site : r # s => documents'[r] = documents[r] /\ valid'[r] = valid[r]
  BY <1>1
<1>6. Complete(policies[s], documents[s] \union {d})
  BY <1>1, <1>4
<1>7. Settled(policies[s], documents[s] \union {d}, R, Strategy[s])
  <2>1. Settled(policies[s], documents[s], valid[s], Strategy[s]) /\ d.dot \notin valid[s]
        /\ d.dot \notin DotsOf(documents[s])
    BY <1>2, <1>3 DEF AllSettled
  <2> QED BY <1>6, <2>1, OwnDocumentSettles DEF R
<1>8. ASSUME NEW r \in Site
      PROVE  Settled(policies'[r], documents'[r], valid'[r], Strategy[r])
  BY <1>1, <1>4, <1>5, <1>7 DEF AllSettled
<1> QED BY <1>8 DEF AllSettled

\* and so does a received one, with it.
LEMMA ReceiveDocumentSettles ==
  ASSUME IInv, AllSettled, NEW s \in Site, NEW e \in docLog, ReceiveDocument(s, e),
         \A r \in Site : Complete(policies'[r], documents'[r])
  PROVE  AllSettled'
<1> DEFINE more == documents[s] \union {e.op}
           R == RebuildValidity(policies[s], more, valid[s], Strategy[s])
<1>1. /\ documents \in [Site -> SUBSET DocOp] /\ valid \in [Site -> SUBSET Dot]
      /\ documents' = [documents EXCEPT ![s] = more]
      /\ valid' = [valid EXCEPT ![s] = R]
      /\ policies' = policies
  BY DEF ReceiveDocument, EffectDocument, IInv, TypeOK
<1> HIDE DEF more, R
<1>2. documents'[s] = more /\ valid'[s] = R
  BY <1>1
<1>3. \A r \in Site : r # s => documents'[r] = documents[r] /\ valid'[r] = valid[r]
  BY <1>1
<1>4. Complete(policies[s], more)
  BY <1>1, <1>2
<1>5. Settled(policies[s], more, R, Strategy[s])
  BY <1>4, DocumentSettles DEF AllSettled, R
<1>6. ASSUME NEW r \in Site
      PROVE  Settled(policies'[r], documents'[r], valid'[r], Strategy[r])
  BY <1>1, <1>2, <1>3, <1>5 DEF AllSettled
<1> QED BY <1>6 DEF AllSettled

\* Every step leaves settled registers.
LEMMA NextSettles == IInv /\ IInv' /\ AllSettled /\ [Next]_vars => AllSettled'
<1> SUFFICES ASSUME IInv, IInv', AllSettled, [Next]_vars PROVE AllSettled'
  OBVIOUS
<1>1. \A r \in Site : Complete(policies'[r], documents'[r])
  BY LogsCompleteNext
<1>2. ASSUME NEW s \in Site, NEW t \in CommandTuples, NEW e \in Effect, UpdatePolicy(s, t, e)
      PROVE  AllSettled'
  <2>1. t \in AccessTuple
    BY CommandAssumption
  <2>2. NewPolicyOp(s, t, e) \in PolicyOp
    BY <2>1, NewPolicyOpTyped
  <2>3. EffectPolicy(s, NewPolicyOp(s, t, e), Allocated(s))
    BY <1>2 DEF UpdatePolicy
  <2> QED BY <1>1, <2>2, <2>3, EffectPolicySettles
<1>3. ASSUME NEW s \in Site, UpdateDocument(s) PROVE AllSettled'
  BY <1>1, <1>3, UpdateDocumentSettles
<1>4. ASSUME NEW s \in Site, NEW e \in policyLog, ReceivePolicy(s, e) PROVE AllSettled'
  <2>1. e.op \in PolicyOp /\ EffectPolicy(s, e.op, nextN)
    BY <1>4, EntriesTyped DEF IInv, ReceivePolicy
  <2> QED BY <1>1, <2>1, EffectPolicySettles
<1>5. ASSUME NEW s \in Site, NEW e \in docLog, ReceiveDocument(s, e) PROVE AllSettled'
  BY <1>1, <1>5, ReceiveDocumentSettles
<1>6. CASE UNCHANGED vars
  BY <1>6 DEF vars, AllSettled
<1> QED BY <1>2, <1>3, <1>4, <1>5, <1>6 DEF Next, Receive

(***************************************************************************)
(* After every step of every site its register agrees with is_valid on     *)
(* every operation of its log: the sweeps of rebuild_validity end at a     *)
(* fixed point, in whatever order the operations have arrived.             *)
(***************************************************************************)
THEOREM RegistersStable == Spec => []Stable
<1>1. Init => AllSettled
  <2> SUFFICES ASSUME Init, NEW s \in Site
               PROVE  Settled(policies[s], documents[s], valid[s], Strategy[s])
    BY DEF AllSettled
  <2>1. policies[s] = << >> /\ documents[s] = {}
    BY DEF Init
  <2>2. Range(policies[s]) = {}
    BY <2>1 DEF Range
  <2> QED BY <2>1, <2>2 DEF Settled, Fixed
<1>2. Spec => []AllSettled
  BY <1>1, Invariance, NextSettles, PTL DEF Spec
<1>3. IInv /\ AllSettled => Stable
  BY StableIs
<1> QED BY <1>2, <1>3, Invariance, PTL

-----------------------------------------------------------------------------
(***************************************************************************)
(* What a settled register implies.                                        *)
(***************************************************************************)
\* The ancestors of an operation in a tuple's graph were known to its author.
LEMMA AncestorsAreKnown ==
  ASSUME IInv, NEW s \in Site, NEW f \in policyLog, f.op \in Range(policies[s])
  PROVE  Ancestors(DagOf(policies[s], TupleOf(f.op)), f.op.dot) \subseteq f.past
<1> DEFINE pol == policies[s]
           t == TupleOf(f.op)
           g == DagOf(pol, t)
           X == {x \in DotsOf(PoliciesOn(pol, t)) : x \in f.past}
<1>1. Ordered(pol) /\ IsDag(g)
  BY LogsComplete, DagIs DEF Complete
<1>2. ASSUME NEW e \in policyLog, e.op \in Range(pol), TupleOf(e.op) = t, e.past \subseteq f.past
      PROVE  Parents(g, e.op.dot) \subseteq X
  <2>1. e.op \in PoliciesOn(pol, t)
    BY <1>2 DEF PoliciesOn
  <2>2. Parents(g, e.op.dot) = e.op.deps
    BY <1>1, <2>1, DagIs
  <2>3. \A x \in e.op.deps : x \in e.past
    BY DEF IInv, DepsInPast, DependsOn
  <2>4. \A x \in e.op.deps : x \in DotsOf(PoliciesOn(pol, t))
    BY <1>1, <1>2, OrderedOps DEF DotsOf
  <2> QED BY <1>2, <2>2, <2>3, <2>4
<1>3. ASSUME NEW q \in PoliciesOn(pol, t), q.dot \in f.past PROVE Parents(g, q.dot) \subseteq X
  <2>1. PICK e \in policyLog : e.op = q
    BY DEF IInv, Recorded, PoliciesOn
  <2>2. e.past \subseteq f.past
    BY <1>3, <2>1 DEF IInv, Causality, PastClosed, AllEntries
  <2> HIDE DEF g, X, pol, t
  <2>3. q \in Range(pol) /\ TupleOf(q) = t
    BY DEF PoliciesOn
  <2> QED BY <1>2, <2>1, <2>2, <2>3
<1>4. Parents(g, f.op.dot) \subseteq X
  BY <1>2
<1>5. UpClosed(g, X)
  <2> HIDE DEF g, pol, t
  <2> QED BY <1>3 DEF UpClosed, DotsOf
<1> HIDE DEF g
<1>6. Ancestors(g, f.op.dot) \subseteq X
  BY <1>1, <1>4, <1>5, AncestorsLeast
<1> QED BY <1>6 DEF g

(***************************************************************************)
(* No register ever holds an allow and a deny of the same right that were  *)
(* issued without knowledge of each other.                                 *)
(***************************************************************************)
THEOREM ConflictsResolved == Spec => []NoValidConflict
<1>1. IInv /\ AllSettled => NoValidConflict
  <2> SUFFICES ASSUME IInv, AllSettled,
                      NEW s \in Site, NEW e \in policyLog, NEW f \in policyLog,
                      TupleOf(e.op) = TupleOf(f.op),
                      {e.op.dot, f.op.dot} \subseteq valid[s],
                      e.op.dot \notin f.past, f.op.dot \notin e.past,
                      e.op.effect # f.op.effect
               PROVE  FALSE
    BY DEF NoValidConflict
  <2> DEFINE pol == policies[s]
             g == DagOf(pol, TupleOf(e.op))
  <2>1. e.op \in Range(pol) /\ f.op \in Range(pol)
    <3>1. e.op.dot \in Seen(s) /\ f.op.dot \in Seen(s)
      BY DEF IInv, TypeOK
    <3> QED BY <3>1, SeenPolicy
  <2>2. e.op.dot \notin Ancestors(g, f.op.dot) /\ f.op.dot \notin Ancestors(g, e.op.dot)
    BY <2>1, AncestorsAreKnown
  <2>3. e.op.dot # f.op.dot
    BY DEF IInv, Causality, DotsUnique, AllEntries
  <2>4. Concurrent(g, e.op.dot, f.op.dot) /\ Concurrent(g, f.op.dot, e.op.dot)
    BY <2>2, <2>3 DEF Concurrent
  <2>5. e.op \in Rivals(pol, f.op) /\ f.op \in Rivals(pol, e.op)
    BY <2>1, <2>4 DEF Rivals, PoliciesOn
  <2>6. /\ IsValidPolicy(e.op, pol, valid[s], Strategy[s])
        /\ IsValidPolicy(f.op, pol, valid[s], Strategy[s])
    BY <2>1 DEF AllSettled, Settled, Fixed
  <2>7. e.op.effect = Favoured(Strategy[s]) /\ f.op.effect = Favoured(Strategy[s])
    BY <2>5, <2>6, ValidIs
  <2> QED BY <2>7
<1>2. IInv /\ Stable => AllSettled
  BY StableIs
<1> QED BY <1>1, <1>2, Invariance, RegistersStable, PTL

\* A level is a number no higher than that of the graph's nodes.
LEMMA LevelBounded ==
  ASSUME NEW g, IsFiniteSet(g.nodes), NEW d
  PROVE  Level(g, d) \in 0 .. Cardinality(g.nodes)
<1> DEFINE N == Cardinality(g.nodes)
           depths == {k \in 1 .. N : Starts(g, d, k) \intersect Roots(g) # {}}
<1>1. N \in Nat
  BY FS_CardinalityType
<1>2. Level(g, d) = IF d \in g.nodes /\ depths # {}
                      THEN CHOOSE k \in depths : \A j \in depths : k <= j ELSE 0
  BY DEF Level
<1>3. depths \subseteq 1 .. N
  OBVIOUS
<1> HIDE DEF depths, N
<1>4. depths # {} => \E k \in depths : \A j \in depths : k <= j
  <2>1. depths \in SUBSET Nat
    BY <1>1, <1>3
  <2> QED BY <2>1, MinExists
<1>5. depths # {} => (CHOOSE k \in depths : \A j \in depths : k <= j) \in depths
  BY <1>4
<1>6. 0 \in 0 .. N /\ 1 .. N \subseteq 0 .. N
  BY <1>1
<1>7. Level(g, d) \in 0 .. N
  BY <1>2, <1>3, <1>5, <1>6
<1> QED BY <1>7 DEF N

\* Among some operations of a graph there is a deepest one.
LEMMA DeepestExists ==
  ASSUME NEW g, IsFiniteSet(g.nodes), NEW ops, ops # {}
  PROVE  Deepest(g, ops) # {}
<1> DEFINE levels == {Level(g, p.dot) : p \in ops}
           N == Cardinality(g.nodes)
<1>1. N \in Nat
  BY FS_CardinalityType
<1>2. \A p \in ops : Level(g, p.dot) \in 0 .. N
  BY LevelBounded
<1>3. levels \in SUBSET Nat /\ levels # {} /\ \A l \in levels : l <= N
  BY <1>1, <1>2
<1>4. PICK m \in levels : \A k \in levels : k <= m
  <2> HIDE DEF levels, N
  <2> QED BY <1>1, <1>3, MaxExists
<1>5. PICK p \in ops : Level(g, p.dot) = m
  OBVIOUS
<1>6. p \in Deepest(g, ops)
  BY <1>4, <1>5 DEF Deepest
<1> QED BY <1>6

\* Operations of which the deny operations are a part deny where they do.
LEMMA DenialCovered ==
  ASSUME NEW g, IsFiniteSet(g.nodes), NEW ops, NEW part, part \subseteq ops,
         \A p \in ops : p.effect # "Allow" => p \in part,
         NEW strategy, ~DeepestAllows(g, ops, strategy)
  PROVE  ~DeepestAllows(g, part, strategy)
<1>1. \A p \in ops : Level(g, p.dot) \in 0 .. Cardinality(g.nodes)
  BY LevelBounded
<1>2. Cardinality(g.nodes) \in Nat
  BY FS_CardinalityType
<1>3. \A p \in ops : Level(g, p.dot) \in Nat
  BY <1>1, <1>2
<1>4. \A p : p \in Deepest(g, ops) <=> p \in ops /\ \A q \in ops : Level(g, q.dot) <= Level(g, p.dot)
  BY DEF Deepest
<1>5. \A p : p \in Deepest(g, part) <=> p \in part /\ \A q \in part : Level(g, q.dot) <= Level(g, p.dot)
  BY DEF Deepest
<1>6. Deepest(g, ops) \cap part \subseteq Deepest(g, part)
  BY <1>4, <1>5
<1>7. CASE strategy = "Integrity"
  <2>1. PICK p \in Deepest(g, ops) : p.effect # "Allow"
    BY <1>7 DEF DeepestAllows
  <2>2. p \in Deepest(g, part) /\ part # {}
    BY <1>4, <1>6, <2>1
  <2> QED BY <1>7, <2>1, <2>2 DEF DeepestAllows
<1>8. CASE strategy # "Integrity"
  <2>1. ops # {} /\ \A p \in Deepest(g, ops) : p.effect # "Allow"
    BY <1>8 DEF DeepestAllows
  <2>2. PICK p \in Deepest(g, ops) : TRUE
    BY <2>1, DeepestExists
  <2>3. p \in part /\ p \in ops
    BY <1>4, <2>1, <2>2
  <2>4. ASSUME NEW q \in Deepest(g, part) PROVE q.effect # "Allow"
    <3>1. q \in ops /\ Level(g, p.dot) <= Level(g, q.dot)
      BY <1>5, <2>3, <2>4
    <3>2. \A o \in ops : Level(g, o.dot) <= Level(g, p.dot)
      BY <1>4, <2>2
    <3>3. \A o \in ops : Level(g, o.dot) <= Level(g, q.dot)
      <4> SUFFICES ASSUME NEW o \in ops PROVE Level(g, o.dot) <= Level(g, q.dot)
        OBVIOUS
      <4> DEFINE a == Level(g, o.dot)
                 b == Level(g, p.dot)
                 c == Level(g, q.dot)
      <4>1. a \in Nat /\ b \in Nat /\ c \in Nat /\ a <= b /\ b <= c
        BY <1>3, <2>3, <3>1, <3>2
      <4> HIDE DEF a, b, c
      <4>2. a <= c
        BY <4>1
      <4> QED BY <4>2 DEF a, c
    <3>4. q \in Deepest(g, ops)
      BY <1>4, <3>1, <3>3
    <3> QED BY <2>1, <3>4
  <2> QED BY <1>8, <2>3, <2>4 DEF DeepestAllows
<1> QED BY <1>7, <1>8

(***************************************************************************)
(* eval and is_valid_document agree on a denial: a site that considers r's *)
(* right to write denied shows none of r's edits.                          *)
(***************************************************************************)
THEOREM DenialsErase == Spec => []DeniedWritesErased
<1>1. IInv /\ AllSettled => DeniedWritesErased
  <2> SUFFICES ASSUME IInv, AllSettled, NEW s \in Site, NEW r \in Site,
                      ~EvalAt(s, r, "Write"),
                      NEW d \in documents[s], d.dot.site = r
               PROVE  d.dot \notin valid[s]
    BY DEF DeniedWritesErased
  <2> DEFINE pol == policies[s]
             t == [site |-> r, right |-> "Write"]
             g == DagOf(pol, t)
             ops == ValidOn(pol, valid[s], t)
             covering == {p \in ops : Covers(p, d.dot)}
  <2>1. IsFiniteSet(g.nodes) /\ ops \subseteq PolicyOp
    <3>1. Ordered(pol)
      BY LogsComplete DEF Complete
    <3>2. IsDag(g)
      BY <3>1, DagIs
    <3> QED BY <3>1, <3>2, OrderedOps DEF IsDag, ValidOn, PoliciesOn
  <2>2. ~DeepestAllows(g, ops, Strategy[s])
    BY DEF EvalAt, Eval
  <2>3. \A p \in ops : p.effect # "Allow" => Covers(p, d.dot)
    BY <2>1 DEF Covers, PolicyOp, Effect
  <2> HIDE DEF g, ops
  <2>4. ~DeepestAllows(g, covering, Strategy[s])
    BY <2>1, <2>2, <2>3, DenialCovered
  <2>5. ~IsValidDocument(d, pol, documents[s], valid[s], Strategy[s])
    BY <2>4 DEF IsValidDocument, g, ops
  <2> QED BY <2>5 DEF AllSettled, Settled
<1>2. IInv /\ Stable => AllSettled
  BY StableIs
<1> QED BY <1>1, <1>2, Invariance, RegistersStable, PTL

-----------------------------------------------------------------------------
(***************************************************************************)
(* Levels.                                                                 *)
(***************************************************************************)
Above(g, X) == UNION {Parents(g, x) : x \in X}

ClimbEq(c, g, d, k) ==
  c = [i \in 1 .. k |-> IF i = 1 THEN {d} ELSE UNION {Parents(g, x) : x \in c[i - 1]}]

Climbed(g, d, k) == CHOOSE c : ClimbEq(c, g, d, k)

\* Starts, level by level.
LEMMA StartsAre ==
  ASSUME NEW g, IsDag(g), NEW d \in g.nodes
  PROVE  /\ Starts(g, d, 1) = {d}
         /\ \A k \in Nat \ {0} : Starts(g, d, k + 1) = Above(g, Starts(g, d, k))
<1> DEFINE c(k) == Climbed(g, d, k)
           pos == Nat \ {0}
<1>1. \A k \in pos : Starts(g, d, k) = c(k)[k]
  BY DEF Starts, Climbed, ClimbEq
<1>2. ASSUME NEW k \in pos PROVE ClimbEq(c(k), g, d, k)
  <2> DEFINE sets == SUBSET g.nodes
             next == [i \in 1 .. k - 1 |-> [X \in sets |-> Above(g, X)]]
  <2>1. PICK h : ChainOn(h, k - 1, {d}, next)
    <3> HIDE DEF next
    <3> QED BY ChainExists
  <2>2. \A X \in sets : Above(g, X) \in sets
    BY ParentsAreNodes DEF Above
  <2>3. h = [i \in 0 .. k - 1 |-> IF i = 0 THEN {d} ELSE next[i][h[i - 1]]]
    <3> HIDE DEF next
    <3> QED BY <2>1 DEF ChainOn
  <2> DEFINE In == {i \in 0 .. k - 1 : h[i] \in sets}
  <2>4. \A i \in 0 .. k - 1 : i \in In
    <3>1. 0 \in In
      <4>1. 0 \in 0 .. k - 1
        OBVIOUS
      <4>2. h[0] = {d}
        BY <2>3, <4>1
      <4> QED BY <4>1, <4>2
    <3>2. ASSUME NEW i \in 0 .. k - 1, i < k - 1, i \in In PROVE i + 1 \in In
      <4>1. i + 1 \in 1 .. k - 1 /\ i + 1 \in 0 .. k - 1 /\ i + 1 # 0 /\ (i + 1) - 1 = i
        BY <3>2
      <4>2. h[i + 1] = next[i + 1][h[i]]
        <5> HIDE DEF next
        <5> QED BY <2>3, <4>1
      <4>3. next[i + 1][h[i]] = Above(g, h[i])
        BY <3>2, <4>1
      <4> HIDE DEF next
      <4> QED BY <2>2, <3>2, <4>1, <4>2, <4>3
    <3>3. k - 1 \in Nat
      OBVIOUS
    <3> HIDE DEF In, next
    <3> QED BY <3>1, <3>2, <3>3, Climb
  <2> DEFINE f == [i \in 1 .. k |-> h[i - 1]]
  <2>5. ASSUME NEW i \in 1 .. k
        PROVE  h[i - 1] = IF i = 1 THEN {d} ELSE Above(g, f[i - 1])
    <3>1. i - 1 \in 0 .. k - 1 /\ (i = 1 <=> i - 1 = 0)
      OBVIOUS
    <3>2. CASE i = 1
      BY <2>3, <3>1, <3>2
    <3>3. CASE i # 1
      <4>1. i - 1 \in 1 .. k - 1 /\ i - 1 \in 1 .. k /\ (i - 1) - 1 \in 0 .. k - 1
        BY <3>3
      <4>2. h[i - 1] = next[i - 1][h[(i - 1) - 1]]
        <5> HIDE DEF next
        <5> QED BY <2>3, <3>1, <3>3
      <4>3. h[(i - 1) - 1] \in sets
        BY <2>4, <4>1
      <4>4. next[i - 1][h[(i - 1) - 1]] = Above(g, h[(i - 1) - 1])
        BY <4>1, <4>3
      <4>5. f[i - 1] = h[(i - 1) - 1]
        BY <4>1
      <4> HIDE DEF next, f
      <4> QED BY <3>3, <4>2, <4>4, <4>5
    <3> QED BY <3>2, <3>3
  <2>6. f = [i \in 1 .. k |-> IF i = 1 THEN {d} ELSE Above(g, f[i - 1])]
    BY <2>5
  <2>7. ClimbEq(f, g, d, k)
    <3> HIDE DEF f
    <3> QED BY <2>6 DEF ClimbEq, Above
  <2> QED BY <2>7 DEF Climbed
<1>3. ASSUME NEW k \in pos, NEW i \in 1 .. k
      PROVE  c(k)[i] = IF i = 1 THEN {d} ELSE Above(g, c(k)[i - 1])
  <2> DEFINE b == c(k)
  <2>1. b = [j \in 1 .. k |-> IF j = 1 THEN {d} ELSE UNION {Parents(g, x) : x \in b[j - 1]}]
    BY <1>2 DEF ClimbEq
  <2> HIDE DEF b
  <2> QED BY <2>1 DEF Above, b
<1> HIDE DEF c
<1>4. ASSUME NEW k \in pos PROVE Starts(g, d, k + 1) = Above(g, Starts(g, d, k))
  <2> DEFINE Same == {i \in 0 .. k : i # 0 => c(k + 1)[i] = c(k)[i]}
  <2>1. 0 \in Same
    OBVIOUS
  <2>2. ASSUME NEW i \in 0 .. k, i < k, i \in Same PROVE i + 1 \in Same
    <3>1. i + 1 \in 1 .. k /\ i + 1 \in 1 .. k + 1 /\ k + 1 \in pos /\ (i + 1) - 1 = i /\ (i + 1 = 1 <=> i = 0)
      BY <2>2
    <3>2. c(k)[i + 1] = IF i = 0 THEN {d} ELSE Above(g, c(k)[i])
      <4>1. c(k)[i + 1] = IF i + 1 = 1 THEN {d} ELSE Above(g, c(k)[(i + 1) - 1])
        BY <1>3, <3>1
      <4> QED BY <3>1, <4>1
    <3>3. c(k + 1)[i + 1] = IF i = 0 THEN {d} ELSE Above(g, c(k + 1)[i])
      <4>1. c(k + 1)[i + 1] = IF i + 1 = 1 THEN {d} ELSE Above(g, c(k + 1)[(i + 1) - 1])
        BY <1>3, <3>1
      <4> QED BY <3>1, <4>1
    <3> QED BY <2>2, <3>1, <3>2, <3>3
  <2> HIDE DEF Same
  <2>3. k \in Same
    <3>1. \A i \in 0 .. k : i \in Same
      BY <2>1, <2>2, Climb
    <3> QED BY <3>1
  <2>4. c(k + 1)[k] = c(k)[k]
    BY <2>3 DEF Same
  <2>5. k + 1 \in pos /\ k + 1 \in 1 .. k + 1 /\ k + 1 # 1 /\ (k + 1) - 1 = k
    OBVIOUS
  <2>6. c(k + 1)[k + 1] = Above(g, c(k + 1)[k])
    BY <1>3, <2>5
  <2> QED BY <1>1, <2>4, <2>5, <2>6
<1>5. Starts(g, d, 1) = {d}
  <2>1. 1 \in pos /\ 1 \in 1 .. 1
    OBVIOUS
  <2> QED BY <1>1, <1>3, <2>1
<1> QED BY <1>4, <1>5

\* The lengths of the paths from a root to d.
Depths(g, d) == {k \in 1 .. Cardinality(g.nodes) : Starts(g, d, k) \cap Roots(g) # {}}

\* A level that is not 0 is the length of the shortest of them.
LEMMA LevelIs ==
  ASSUME NEW g, IsDag(g), NEW d \in g.nodes
  PROVE  /\ Level(g, d) # 0 => Level(g, d) \in Depths(g, d) /\ \A j \in Depths(g, d) : Level(g, d) <= j
         /\ \A k \in Depths(g, d) : (\A j \in Depths(g, d) : k <= j) => Level(g, d) = k /\ k # 0
<1> DEFINE N == Cardinality(g.nodes)
           S == Depths(g, d)
<1>1. Level(g, d) = IF S # {} THEN CHOOSE k \in S : \A j \in S : k <= j ELSE 0
  BY DEF Level, Depths
<1>2. S \subseteq 1 .. N /\ N \in Nat
  BY FS_CardinalityType DEF IsDag, Depths
<1> HIDE DEF S, N
<1>3. S \in SUBSET Nat /\ \A k \in S : k # 0
  BY <1>2
<1>4. ASSUME S # {} PROVE Level(g, d) \in S /\ \A j \in S : Level(g, d) <= j
  <2>1. \E k \in S : \A j \in S : k <= j
    BY <1>3, <1>4, MinExists
  <2> QED BY <1>1, <1>4, <2>1
<1>5. ASSUME NEW k \in S, \A j \in S : k <= j PROVE Level(g, d) = k
  <2>1. Level(g, d) \in S /\ Level(g, d) <= k /\ k <= Level(g, d)
    BY <1>4, <1>5
  <2> DEFINE l == Level(g, d)
  <2>2. l \in Nat /\ k \in Nat /\ l <= k /\ k <= l
    BY <1>3, <2>1
  <2> HIDE DEF l
  <2>3. l = k
    BY <2>2
  <2> QED BY <2>3 DEF l
<1> QED BY <1>1, <1>3, <1>4, <1>5 DEF S

\* Induction over the positive numbers.
LEMMA FromOne ==
  ASSUME NEW S, 1 \in S, \A k \in Nat \ {0} : k \in S => k + 1 \in S
  PROVE  \A k \in Nat \ {0} : k \in S
<1> SUFFICES ASSUME NEW n \in Nat \ {0} PROVE n \in S
  OBVIOUS
<1> DEFINE T == {i \in Nat : i + 1 \in S}
<1>1. n - 1 \in Nat /\ 0 \in T
  OBVIOUS
<1>2. \A i \in 0 .. n - 1 : i < n - 1 /\ i \in T => i + 1 \in T
  OBVIOUS
<1> HIDE DEF T
<1>3. n - 1 \in T
  <2>1. \A i \in 0 .. n - 1 : i \in T
    BY <1>1, <1>2, Climb
  <2> QED BY <1>1, <2>1
<1> QED BY <1>3 DEF T

\* Every operation is at a level: a path leads to it from a root.
Levelled(pol) == \A t : \A q \in PoliciesOn(pol, t) : Level(DagOf(pol, t), q.dot) # 0

(***************************************************************************)
(* The paths to the operations of a log, before and after one more.        *)
(***************************************************************************)
LEMMA PathsOnAppend ==
  ASSUME NEW pol \in Seq(PolicyOp), NEW p \in PolicyOp, Ordered(Append(pol, p))
  PROVE  LET t == TupleOf(p)
             g == DagOf(pol, t)
             h == DagOf(Append(pol, p), t)
         IN  /\ IsDag(g) /\ IsDag(h)
             /\ g.nodes = DotsOf(PoliciesOn(pol, t)) /\ h.nodes = g.nodes \union {p.dot}
             /\ p.deps \subseteq g.nodes /\ p.dot \notin g.nodes
             /\ Cardinality(h.nodes) = Cardinality(g.nodes) + 1
             /\ \A x \in g.nodes : x \in Roots(h) <=> x \in Roots(g)
             /\ p.dot \in Roots(h) <=> p.deps = {}
             /\ \A k \in Nat \ {0} : \A x \in g.nodes :
                  Starts(h, x, k) = Starts(g, x, k) /\ Starts(h, x, k) \subseteq g.nodes
             /\ Starts(h, p.dot, 1) = {p.dot}
             /\ \A k \in Nat \ {0} :
                  Starts(h, p.dot, k + 1) = UNION {Starts(g, x, k) : x \in p.deps}
<1> DEFINE new == Append(pol, p)
           t == TupleOf(p)
           g == DagOf(pol, t)
           h == DagOf(new, t)
           pos == Nat \ {0}
<1>1. Ordered(new) /\ Ordered(pol)
  BY OrderedBefore
<1>2. PoliciesOn(new, t) = PoliciesOn(pol, t) \union {p}
  BY PoliciesOnAppend
<1>3. /\ IsDag(g) /\ g.nodes = DotsOf(PoliciesOn(pol, t))
      /\ \A q \in PoliciesOn(pol, t) : Parents(g, q.dot) = q.deps
  BY <1>1, DagIs
<1>4. /\ IsDag(h) /\ h.nodes = DotsOf(PoliciesOn(new, t))
      /\ \A q \in PoliciesOn(new, t) : Parents(h, q.dot) = q.deps
  BY <1>1, DagIs
<1>5. p.dot \notin g.nodes /\ p.deps \subseteq g.nodes /\ Parents(h, p.dot) = p.deps
  BY <1>3, NewestAncestors
<1> HIDE DEF new, g, h
<1>6. h.nodes = g.nodes \union {p.dot}
  BY <1>2, <1>3, <1>4 DEF DotsOf
<1>7. \A x \in g.nodes : Parents(h, x) = Parents(g, x) /\ Parents(g, x) \subseteq g.nodes
  BY <1>2, <1>3, <1>4, ParentsAreNodes DEF DotsOf
<1>8. Cardinality(h.nodes) = Cardinality(g.nodes) + 1
  <2>1. IsFiniteSet(g.nodes)
    BY <1>3 DEF IsDag
  <2>2. Cardinality(g.nodes \union {p.dot}) = Cardinality(g.nodes) + 1
    BY <1>5, <2>1, FS_AddElement
  <2> QED BY <1>6, <2>2
<1>9. \A x \in g.nodes : x \in Roots(h) <=> x \in Roots(g)
  BY <1>6, <1>7 DEF Roots
<1>10. p.dot \in Roots(h) <=> p.deps = {}
  BY <1>5, <1>6 DEF Roots
<1>11. \A x \in g.nodes :
         /\ Starts(g, x, 1) = {x} /\ Starts(h, x, 1) = {x}
         /\ \A k \in pos : Starts(g, x, k + 1) = Above(g, Starts(g, x, k))
         /\ \A k \in pos : Starts(h, x, k + 1) = Above(h, Starts(h, x, k))
  BY <1>3, <1>4, <1>6, StartsAre
<1>12. Starts(h, p.dot, 1) = {p.dot} /\ \A k \in pos : Starts(h, p.dot, k + 1) = Above(h, Starts(h, p.dot, k))
  BY <1>4, <1>6, StartsAre
<1>13. \A X : X \subseteq g.nodes => Above(h, X) = Above(g, X) /\ Above(g, X) \subseteq g.nodes
  BY <1>7 DEF Above
<1>14. ASSUME NEW x \in g.nodes, NEW n \in pos
       PROVE  Starts(h, x, n) = Starts(g, x, n) /\ Starts(h, x, n) \subseteq g.nodes
  <2> DEFINE S == {k \in pos : Starts(h, x, k) = Starts(g, x, k) /\ Starts(h, x, k) \subseteq g.nodes}
  <2>1. 1 \in S
    <3>1. 1 \in pos
      OBVIOUS
    <3>2. Starts(h, x, 1) = Starts(g, x, 1) /\ Starts(h, x, 1) \subseteq g.nodes
      BY <1>11
    <3> HIDE DEF pos
    <3> QED BY <3>1, <3>2
  <2>2. ASSUME NEW k \in pos, k \in S PROVE k + 1 \in S
    <3>1. k + 1 \in pos
      OBVIOUS
    <3>2. Starts(h, x, k) = Starts(g, x, k) /\ Starts(h, x, k) \subseteq g.nodes
      BY <2>2
    <3>3. Starts(h, x, k + 1) = Above(h, Starts(h, x, k)) /\ Starts(g, x, k + 1) = Above(g, Starts(h, x, k))
      BY <1>11, <3>2
    <3>4. Starts(h, x, k + 1) = Starts(g, x, k + 1) /\ Starts(h, x, k + 1) \subseteq g.nodes
      BY <1>13, <3>2, <3>3
    <3> HIDE DEF pos
    <3> QED BY <3>1, <3>4
  <2> HIDE DEF S
  <2>3. n \in S
    BY <2>1, <2>2, FromOne
  <2> QED BY <2>3 DEF S
<1>15. ASSUME NEW n \in pos
       PROVE  Starts(h, p.dot, n + 1) = UNION {Starts(g, x, n) : x \in p.deps}
  <2> DEFINE S == {k \in pos : Starts(h, p.dot, k + 1) = UNION {Starts(g, x, k) : x \in p.deps}}
  <2>1. 1 \in S
    <3>1. Starts(h, p.dot, 1 + 1) = Above(h, {p.dot})
      <4>1. 1 \in pos
        OBVIOUS
      <4> HIDE DEF pos
      <4> QED BY <1>12, <4>1
    <3>2. Above(h, {p.dot}) = p.deps
      BY <1>5 DEF Above
    <3>3. UNION {Starts(g, x, 1) : x \in p.deps} = p.deps
      BY <1>5, <1>11
    <3> QED BY <3>1, <3>2, <3>3
  <2>2. ASSUME NEW k \in pos, k \in S PROVE k + 1 \in S
    <3>1. k + 1 \in pos
      OBVIOUS
    <3>2. Starts(h, p.dot, (k + 1) + 1) = Above(h, UNION {Starts(g, x, k) : x \in p.deps})
      BY <1>12, <2>2, <3>1
    <3>3. UNION {Starts(g, x, k) : x \in p.deps} \subseteq g.nodes
      BY <1>5, <1>14
    <3>4. Above(h, UNION {Starts(g, x, k) : x \in p.deps})
            = Above(g, UNION {Starts(g, x, k) : x \in p.deps})
      BY <1>13, <3>3
    <3>5. Above(g, UNION {Starts(g, x, k) : x \in p.deps})
            = UNION {Above(g, Starts(g, x, k)) : x \in p.deps}
      BY DEF Above
    <3>6. \A x \in p.deps : Above(g, Starts(g, x, k)) = Starts(g, x, k + 1)
      BY <1>5, <1>11
    <3>7. UNION {Above(g, Starts(g, x, k)) : x \in p.deps} = UNION {Starts(g, x, k + 1) : x \in p.deps}
      BY <3>6
    <3> QED BY <3>1, <3>2, <3>4, <3>5, <3>7
  <2> HIDE DEF S
  <2>3. n \in S
    BY <2>1, <2>2, FromOne
  <2> QED BY <2>3 DEF S
<1> QED BY <1>3, <1>4, <1>5, <1>6, <1>8, <1>9, <1>10, <1>12, <1>14, <1>15 DEF new, g, h

\* The levels of older operations stay; the newest is one below the highest of
\* its dependencies, or at level 1 if it has none.
LEMMA LevelsOnAppend ==
  ASSUME NEW pol \in Seq(PolicyOp), NEW p \in PolicyOp, Ordered(Append(pol, p)), Levelled(pol)
  PROVE  LET t == TupleOf(p)
             g == DagOf(pol, t)
             h == DagOf(Append(pol, p), t)
         IN  /\ \A x \in g.nodes : Level(h, x) = Level(g, x)
             /\ p.deps = {} => Level(h, p.dot) = 1
             /\ p.deps # {} => \E x \in p.deps : Level(h, p.dot) = Level(g, x) + 1
<1> DEFINE t == TupleOf(p)
           g == DagOf(pol, t)
           h == DagOf(Append(pol, p), t)
           N == Cardinality(g.nodes)
           pos == Nat \ {0}
<1>1. /\ IsDag(g) /\ IsDag(h)
      /\ h.nodes = g.nodes \union {p.dot} /\ p.deps \subseteq g.nodes /\ p.dot \notin g.nodes
      /\ Cardinality(h.nodes) = N + 1 /\ N \in Nat
      /\ \A x \in g.nodes : x \in Roots(h) <=> x \in Roots(g)
      /\ p.dot \in Roots(h) <=> p.deps = {}
      /\ Starts(h, p.dot, 1) = {p.dot}
  <2>1. IsDag(g)
    BY PathsOnAppend
  <2> QED BY <2>1, PathsOnAppend, FS_CardinalityType DEF IsDag
<1>2. /\ \A k \in pos : \A x \in g.nodes :
           Starts(h, x, k) = Starts(g, x, k) /\ Starts(h, x, k) \subseteq g.nodes
      /\ \A k \in pos : Starts(h, p.dot, k + 1) = UNION {Starts(g, x, k) : x \in p.deps}
  BY PathsOnAppend
<1>3. \A x \in g.nodes : Level(g, x) # 0
  <2>1. g.nodes = DotsOf(PoliciesOn(pol, t))
    BY PathsOnAppend
  <2> QED BY <2>1 DEF Levelled, DotsOf
<1> HIDE DEF t, g, h
<1>4. \A x \in g.nodes : Level(g, x) \in Depths(g, x) /\ \A j \in Depths(g, x) : Level(g, x) <= j
  BY <1>1, <1>3, LevelIs
<1>5. \A x \in g.nodes : Depths(g, x) \subseteq 1 .. N
  BY DEF Depths
<1>6. \A x \in g.nodes : \A k \in pos :
        Starts(h, x, k) \cap Roots(h) # {} <=> Starts(g, x, k) \cap Roots(g) # {}
  BY <1>1, <1>2
<1> HIDE DEF N
<1>7. \A x \in g.nodes : \A k : k \in Depths(g, x) <=> k \in 1 .. N /\ Starts(g, x, k) \cap Roots(g) # {}
  BY DEF Depths, N
<1>8. \A x \in h.nodes : \A k : k \in Depths(h, x) <=> k \in 1 .. N + 1 /\ Starts(h, x, k) \cap Roots(h) # {}
  BY <1>1 DEF Depths
<1>9. 1 .. N \subseteq 1 .. N + 1 /\ 1 .. N + 1 \subseteq pos
  BY <1>1
<1>10. ASSUME NEW x \in g.nodes PROVE Level(h, x) = Level(g, x)
  <2> DEFINE l == Level(g, x)
  <2>1. l \in 1 .. N /\ l \in Depths(g, x)
    BY <1>4, <1>5
  <2>2. l \in Depths(h, x)
    BY <1>1, <1>6, <1>7, <1>8, <1>9, <2>1
  <2>3. \A j \in Depths(h, x) : j \in 1 .. N + 1 /\ (j \in 1 .. N => j \in Depths(g, x))
    BY <1>1, <1>6, <1>7, <1>8, <1>9
  <2>4. \A j \in Depths(g, x) : l <= j
    BY <1>4
  <2> HIDE DEF l
  <2>5. ASSUME NEW j \in Depths(h, x) PROVE l <= j
    <3>1. j \in 1 .. N => l <= j
      BY <2>3, <2>4
    <3>2. j \in 1 .. N + 1
      BY <2>3
    <3> QED BY <1>1, <2>1, <3>1, <3>2
  <2>6. Level(h, x) = l
    BY <1>1, <2>2, <2>5, LevelIs
  <2> QED BY <2>6 DEF l
<1>11. p.dot \in h.nodes
  BY <1>1
<1>12. ASSUME p.deps = {} PROVE Level(h, p.dot) = 1
  <2>1. 1 \in Depths(h, p.dot)
    <3>1. 1 \in 1 .. N + 1
      BY <1>1
    <3>2. Starts(h, p.dot, 1) \cap Roots(h) # {}
      BY <1>1, <1>12
    <3> QED BY <1>8, <1>11, <3>1, <3>2
  <2>2. \A j \in Depths(h, p.dot) : 1 <= j
    <3>1. \A j \in Depths(h, p.dot) : j \in 1 .. N + 1
      BY <1>8, <1>11
    <3> QED BY <1>1, <3>1
  <2> QED BY <1>1, <1>11, <2>1, <2>2, LevelIs
<1>13. ASSUME p.deps # {} PROVE \E x \in p.deps : Level(h, p.dot) = Level(g, x) + 1
  <2> DEFINE levels == {Level(g, x) : x \in p.deps}
  <2>1. \A x \in p.deps : Level(g, x) \in 1 .. N
    BY <1>1, <1>4, <1>5
  <2>2. levels \in SUBSET Nat /\ levels # {}
    BY <1>13, <2>1
  <2>3. PICK m \in levels : \A l \in levels : m <= l
    <3> HIDE DEF levels
    <3> QED BY <2>2, MinExists
  <2>4. PICK x \in p.deps : Level(g, x) = m
    OBVIOUS
  <2>5. \A y \in p.deps : m <= Level(g, y)
    BY <2>3
  <2>6. m \in 1 .. N /\ m \in pos /\ m + 1 \in 1 .. N + 1
    BY <1>1, <2>1, <2>4
  <2> HIDE DEF levels
  <2>7. m + 1 \in Depths(h, p.dot)
    <3>1. Starts(g, x, m) \cap Roots(g) # {}
      BY <1>1, <1>4, <1>7, <2>4
    <3>2. Starts(h, x, m) \cap Roots(h) # {} /\ Starts(h, x, m) = Starts(g, x, m)
      BY <1>1, <1>2, <1>6, <2>4, <2>6, <3>1
    <3>3. Starts(g, x, m) \subseteq Starts(h, p.dot, m + 1)
      <4>1. Starts(h, p.dot, m + 1) = UNION {Starts(g, y, m) : y \in p.deps}
        BY <1>2, <2>6
      <4> QED BY <4>1
    <3> QED BY <1>8, <1>11, <2>6, <3>2, <3>3
  <2>8. ASSUME NEW j \in Depths(h, p.dot) PROVE m + 1 <= j
    <3>1. j \in 1 .. N + 1 /\ Starts(h, p.dot, j) \cap Roots(h) # {}
      BY <1>8, <1>11
    <3>2. j # 1
      BY <1>1, <1>13, <3>1
    <3>3. j - 1 \in 1 .. N /\ j - 1 \in pos /\ (j - 1) + 1 = j
      BY <1>1, <3>1, <3>2
    <3>4. Starts(h, p.dot, j) = UNION {Starts(g, y, j - 1) : y \in p.deps}
      BY <1>2, <3>3
    <3>5. PICK y \in p.deps : Starts(g, y, j - 1) \cap Roots(h) # {}
      BY <3>1, <3>4
    <3>6. Starts(g, y, j - 1) \cap Roots(g) # {}
      BY <1>1, <1>2, <3>3, <3>5
    <3>7. j - 1 \in Depths(g, y)
      BY <1>1, <1>7, <3>3, <3>6
    <3>8. Level(g, y) <= j - 1
      BY <1>1, <1>4, <3>7
    <3> DEFINE l == Level(g, y)
    <3>9. l \in 1 .. N /\ m <= l /\ l <= j - 1
      BY <2>1, <2>5, <3>8
    <3> HIDE DEF l
    <3> QED BY <2>6, <3>1, <3>9
  <2>9. Level(h, p.dot) = m + 1
    BY <1>1, <1>11, <2>7, <2>8, LevelIs
  <2> QED BY <2>4, <2>9
<1> QED BY <1>10, <1>12, <1>13 DEF t, g, h

\* So every operation goes on being at a level.
LEMMA LevelledOnAppend ==
  ASSUME NEW pol \in Seq(PolicyOp), NEW p \in PolicyOp, Ordered(Append(pol, p)), Levelled(pol)
  PROVE  Levelled(Append(pol, p))
<1> DEFINE new == Append(pol, p)
           u == TupleOf(p)
<1>1. \A t : PoliciesOn(new, t) = IF u = t THEN PoliciesOn(pol, t) \union {p} ELSE PoliciesOn(pol, t)
  BY PoliciesOnAppend
<1>2. ASSUME NEW t, u # t PROVE DagOf(new, t) = DagOf(pol, t)
  <2>1. PoliciesOn(new, t) = PoliciesOn(pol, t)
    BY <1>1, <1>2
  <2> HIDE DEF new
  <2> QED BY <2>1 DEF DagOf
<1>3. \A q \in PoliciesOn(pol, u) : Level(DagOf(new, u), q.dot) # 0
  <2>1. DagOf(pol, u).nodes = DotsOf(PoliciesOn(pol, u))
    BY PathsOnAppend
  <2>2. \A x \in DagOf(pol, u).nodes : Level(DagOf(new, u), x) = Level(DagOf(pol, u), x)
    BY LevelsOnAppend
  <2> QED BY <2>1, <2>2 DEF Levelled, DotsOf
<1>4. Level(DagOf(new, u), p.dot) # 0
  <2>1. \A x \in DagOf(pol, u).nodes : Level(DagOf(pol, u), x) \in Nat
    <3>1. IsDag(DagOf(pol, u))
      BY PathsOnAppend
    <3> DEFINE n == Cardinality(DagOf(pol, u).nodes)
    <3>2. n \in Nat /\ \A x : Level(DagOf(pol, u), x) \in 0 .. n
      BY <3>1, FS_CardinalityType, LevelBounded DEF IsDag
    <3> HIDE DEF n
    <3> QED BY <3>2
  <2>2. p.deps \subseteq DagOf(pol, u).nodes
    BY PathsOnAppend
  <2>3. CASE p.deps = {}
    <3>1. Level(DagOf(new, u), p.dot) = 1
      BY <2>3, LevelsOnAppend
    <3> QED BY <3>1
  <2>4. CASE p.deps # {}
    <3>1. PICK x \in p.deps : Level(DagOf(new, u), p.dot) = Level(DagOf(pol, u), x) + 1
      BY <2>4, LevelsOnAppend
    <3>2. Level(DagOf(pol, u), x) \in Nat
      BY <2>1, <2>2
    <3> DEFINE l == Level(DagOf(pol, u), x)
    <3> HIDE DEF l
    <3>3. l \in Nat => l + 1 # 0
      OBVIOUS
    <3> QED BY <3>1, <3>2, <3>3 DEF l
  <2> QED BY <2>3, <2>4
<1>5. ASSUME NEW t, NEW q \in PoliciesOn(new, t) PROVE Level(DagOf(new, t), q.dot) # 0
  <2>1. CASE u # t
    <3>1. q \in PoliciesOn(pol, t)
      BY <1>1, <2>1
    <3>2. Level(DagOf(pol, t), q.dot) # 0
      BY <3>1 DEF Levelled
    <3> QED BY <1>2, <2>1, <3>2
  <2>2. CASE u = t
    <3>1. q \in PoliciesOn(pol, u) \/ q = p
      BY <1>1, <2>2
    <3> HIDE DEF new, u
    <3> QED BY <1>3, <1>4, <2>2, <3>1
  <2> QED BY <2>1, <2>2
<1> QED BY <1>5 DEF Levelled

(***************************************************************************)
(* A valid operation that was issued on top of the deepest level decides   *)
(* among the valid operations on its tuple: either it is deeper than all   *)
(* others, or it depends on nothing and has no valid operation of opposite *)
(* effect beside it.                                                       *)
(***************************************************************************)
LEMMA NewestDecides ==
  ASSUME NEW pol \in Seq(PolicyOp), NEW p \in PolicyOp, Ordered(Append(pol, p)), Levelled(pol),
         LET g == DagOf(pol, TupleOf(p)) IN p.deps \subseteq AtLevel(g, MaxLevel(g)),
         NEW strategy, NEW V, Fixed(Append(pol, p), V, strategy),
         NEW part, part \subseteq ValidOn(Append(pol, p), V, TupleOf(p)), p \in part
  PROVE  DeepestAllows(DagOf(Append(pol, p), TupleOf(p)), part, strategy) <=> p.effect = "Allow"
<1> DEFINE new == Append(pol, p)
           t == TupleOf(p)
           g == DagOf(pol, t)
           h == DagOf(new, t)
           m == MaxLevel(g)
<1>1. /\ IsDag(g) /\ IsDag(h) /\ g.nodes = DotsOf(PoliciesOn(pol, t))
      /\ PoliciesOn(new, t) = PoliciesOn(pol, t) \union {p}
      /\ Parents(h, p.dot) = p.deps
  BY PathsOnAppend, PoliciesOnAppend, NewestAncestors
<1>2. IsFiniteSet(h.nodes) /\ Cardinality(g.nodes) \in Nat /\ IsFiniteSet(g.nodes)
  BY <1>1, FS_CardinalityType DEF IsDag
<1>3. \A q \in part : q \in PoliciesOn(new, t) /\ q \in Range(new) /\ q.dot \in V /\ TupleOf(q) = t
  BY DEF ValidOn, PoliciesOn
<1>4. \A q \in part : q = p \/ q \in PoliciesOn(pol, t)
  BY <1>1, <1>3
<1>5. ASSUME Deepest(h, part) # {}, \A q \in Deepest(h, part) : q.effect = p.effect
      PROVE  DeepestAllows(h, part, strategy) <=> p.effect = "Allow"
  BY <1>5 DEF DeepestAllows
<1>6. CASE p.deps = {}
  <2>1. Ancestors(h, p.dot) = {}
    <3>1. UpClosed(h, {}) /\ Parents(h, p.dot) \subseteq {}
      BY <1>1, <1>6 DEF UpClosed
    <3>2. Ancestors(h, p.dot) \subseteq {}
      BY <1>1, <3>1, AncestorsLeast
    <3> QED BY <3>2
  <2>2. ASSUME NEW q \in part PROVE q.effect = p.effect
    <3> SUFFICES ASSUME q \in PoliciesOn(pol, t), q.effect # p.effect PROVE FALSE
      BY <1>4
    <3>1. q \in Range(pol) /\ TupleOf(q) = t
      BY DEF PoliciesOn
    <3>2. q \in Rivals(new, p)
      BY <2>1, RivalsAppend
    <3>3. p \in Rivals(new, q)
      <4>1. Rivals(new, q) = Rivals(pol, q) \union {p}
        BY <2>1, <3>1, RivalsAppend
      <4> QED BY <4>1
    <3>4. IsValidPolicy(p, new, V, strategy) /\ IsValidPolicy(q, new, V, strategy)
      BY <1>3 DEF Fixed
    <3> HIDE DEF new, t
    <3>5. p.effect = Favoured(strategy) /\ q.effect = Favoured(strategy)
      BY <1>3, <3>2, <3>3, <3>4, ValidIs
    <3> QED BY <3>5
  <2>3. Deepest(h, part) # {} /\ Deepest(h, part) \subseteq part
    <3> HIDE DEF h
    <3>1. Deepest(h, part) # {}
      BY <1>2, DeepestExists
    <3> QED BY <3>1 DEF Deepest
  <2> QED BY <1>5, <2>2, <2>3
<1>7. CASE p.deps # {}
  <2>1. \A x \in g.nodes : Level(h, x) = Level(g, x)
    BY LevelsOnAppend
  <2>2. PICK x \in p.deps : Level(h, p.dot) = Level(g, x) + 1
    BY <1>7, LevelsOnAppend
  <2>3. \A d : Level(g, d) \in 0 .. Cardinality(g.nodes)
    BY <1>2, LevelBounded
  <2>4. p.deps \subseteq AtLevel(g, m)
    OBVIOUS
  <2> HIDE DEF g, h, m
  <2>5. Level(g, x) = m /\ x \in g.nodes
    BY <2>2, <2>4 DEF AtLevel
  <2>6. \A d \in g.nodes : Level(g, d) <= m
    <3> DEFINE levels == {Level(g, d) : d \in g.nodes}
    <3>1. levels \in SUBSET Nat /\ levels # {} /\ \A l \in levels : l <= Cardinality(g.nodes)
      BY <1>2, <2>3, <2>5
    <3>2. m = IF levels = {} THEN 0 ELSE CHOOSE k \in levels : \A j \in levels : j <= k
      BY DEF MaxLevel, m
    <3> HIDE DEF levels
    <3>3. \E k \in levels : \A j \in levels : j <= k
      BY <1>2, <3>1, MaxExists
    <3>4. \A j \in levels : j <= m
      BY <3>1, <3>2, <3>3
    <3> QED BY <3>4 DEF levels
  <2>7. m \in Nat /\ \A d : Level(g, d) \in Nat
    BY <1>2, <2>3, <2>5
  <2>8. ASSUME NEW q \in part, q # p
        PROVE  Level(h, q.dot) \in Nat /\ Level(h, q.dot) <= m
    <3>1. q.dot \in g.nodes
      BY <1>1, <1>4, <2>8 DEF DotsOf
    <3> QED BY <2>1, <2>6, <2>7, <3>1
  <2>9. Level(h, p.dot) = m + 1
    BY <2>2, <2>5
  <2>10. ASSUME NEW q \in part PROVE Level(h, q.dot) <= m + 1 /\ (q # p => ~(m + 1 <= Level(h, q.dot)))
    <3> DEFINE l == Level(h, q.dot)
    <3>1. CASE q = p
      BY <2>7, <2>9, <3>1
    <3>2. CASE q # p
      <4>1. l \in Nat /\ l <= m
        BY <2>8, <3>2
      <4> HIDE DEF l
      <4>2. l <= m + 1 /\ ~(m + 1 <= l)
        BY <2>7, <4>1
      <4> QED BY <4>2 DEF l
    <3> QED BY <3>1, <3>2
  <2>11. Deepest(h, part) = {p}
    <3>1. \A q : q \in Deepest(h, part) <=> q \in part /\ \A r \in part : Level(h, r.dot) <= Level(h, q.dot)
      BY DEF Deepest
    <3>2. p \in Deepest(h, part)
      BY <2>9, <2>10, <3>1
    <3>3. ASSUME NEW q \in Deepest(h, part), q # p PROVE FALSE
      BY <2>9, <2>10, <3>1, <3>3
    <3> QED BY <3>2, <3>3
  <2>12. DeepestAllows(h, part, strategy) <=> p.effect = "Allow"
    BY <1>5, <2>11
  <2> QED BY <2>12 DEF h
<1> QED BY <1>6, <1>7

-----------------------------------------------------------------------------
(***************************************************************************)
(* Commands.                                                               *)
(***************************************************************************)
AllLevelled == \A s \in Site : Levelled(policies[s])

\* A policy operation leaves all others at their levels and comes to one itself.
LEMMA EffectPolicyLevels ==
  ASSUME IInv, AllLevelled, NEW s \in Site, NEW p \in PolicyOp, NEW counters,
         EffectPolicy(s, p, counters),
         \A r \in Site : Complete(policies'[r], documents'[r])
  PROVE  AllLevelled'
<1>1. \A r \in Site : policies'[r] = IF r = s THEN Append(policies[r], p) ELSE policies[r]
  BY DEF EffectPolicy, IInv, TypeOK
<1>2. policies[s] \in Seq(PolicyOp) /\ Ordered(Append(policies[s], p))
  BY <1>1 DEF IInv, TypeOK, Complete
<1>3. Levelled(Append(policies[s], p))
  BY <1>2, LevelledOnAppend DEF AllLevelled
<1> QED BY <1>1, <1>3 DEF AllLevelled

\* No step leaves an operation without a level.
LEMMA NextLevels == IInv /\ IInv' /\ AllLevelled /\ [Next]_vars => AllLevelled'
<1> SUFFICES ASSUME IInv, IInv', AllLevelled, [Next]_vars PROVE AllLevelled'
  OBVIOUS
<1>1. \A r \in Site : Complete(policies'[r], documents'[r])
  BY LogsCompleteNext
<1>2. ASSUME NEW s \in Site, NEW t \in CommandTuples, NEW e \in Effect, UpdatePolicy(s, t, e)
      PROVE  AllLevelled'
  <2>1. NewPolicyOp(s, t, e) \in PolicyOp
    BY CommandAssumption, NewPolicyOpTyped
  <2>2. EffectPolicy(s, NewPolicyOp(s, t, e), Allocated(s))
    BY <1>2 DEF UpdatePolicy
  <2> QED BY <1>1, <2>1, <2>2, EffectPolicyLevels
<1>3. ASSUME NEW s \in Site, NEW e \in policyLog, ReceivePolicy(s, e) PROVE AllLevelled'
  <2>1. e.op \in PolicyOp /\ EffectPolicy(s, e.op, nextN)
    BY <1>3, EntriesTyped DEF IInv, ReceivePolicy
  <2> QED BY <1>1, <2>1, EffectPolicyLevels
<1>4. ASSUME policies' = policies PROVE AllLevelled'
  BY <1>4 DEF AllLevelled
<1>5. ASSUME NEW s \in Site, UpdateDocument(s) PROVE AllLevelled'
  BY <1>4, <1>5 DEF UpdateDocument, EffectDocument
<1>6. ASSUME NEW s \in Site, NEW e \in docLog, ReceiveDocument(s, e) PROVE AllLevelled'
  BY <1>4, <1>6 DEF ReceiveDocument, EffectDocument
<1>7. CASE UNCHANGED vars
  BY <1>4, <1>7 DEF vars
<1> QED BY <1>2, <1>3, <1>5, <1>6, <1>7 DEF Next, Receive

\* Empty logs are levelled.
LEMMA InitLevels == Init => AllLevelled
<1> SUFFICES ASSUME Init, NEW s \in Site PROVE Levelled(policies[s])
  BY DEF AllLevelled
<1>1. policies[s] = << >>
  BY DEF Init
<1>2. Range(policies[s]) = {}
  BY <1>1 DEF Range
<1>3. \A t : PoliciesOn(policies[s], t) = {}
  BY <1>2 DEF PoliciesOn
<1> QED BY <1>3 DEF Levelled

\* Every operation of every log is at a level, so last_level and
\* current_top_level_deps (dag.rs) pass over none, whatever its dependencies.
THEOREM LogsAreLevelled == Spec => []AllLevelled
BY InitLevels, NextLevels, Invariance, PTL DEF Spec

\* What is new in policy_log is what update_policy has put there.
LEMMA IssuedByCommand ==
  ASSUME [Next]_vars, NEW p \in IssuedNow
  PROVE  \E s \in Site : \E t \in CommandTuples, e \in Effect :
           UpdatePolicy(s, t, e) /\ p = NewPolicyOp(s, t, e)
<1>1. policyLog' # policyLog
  BY DEF IssuedNow
<1>2. PICK s \in Site : \E t \in CommandTuples, e \in Effect : UpdatePolicy(s, t, e)
  BY <1>1 DEF Next, Receive, ReceivePolicy, ReceiveDocument, UpdateDocument, vars
<1>3. PICK t \in CommandTuples, e \in Effect : UpdatePolicy(s, t, e)
  BY <1>2
<1>4. policyLog' = policyLog \union {[op |-> NewPolicyOp(s, t, e), past |-> Seen(s)]}
  BY <1>3 DEF UpdatePolicy
<1> DEFINE x == [op |-> NewPolicyOp(s, t, e), past |-> Seen(s)]
<1>5. x.op = NewPolicyOp(s, t, e)
  OBVIOUS
<1> HIDE DEF x
<1>6. p = x.op
  BY <1>4 DEF IssuedNow, x
<1> QED BY <1>3, <1>5, <1>6

(***************************************************************************)
(* What a command's operation p leaves behind at its site: it decides      *)
(* among the valid operations on its tuple if it is valid, which it is if  *)
(* the strategy favours its effect.                                        *)
(***************************************************************************)
LEMMA CommandDecides ==
  ASSUME IInv, IInv', AllSettled, AllSettled', AllLevelled,
         NEW s \in Site, NEW t \in CommandTuples, NEW e \in Effect, UpdatePolicy(s, t, e),
         NEW p, p = NewPolicyOp(s, t, e)
  PROVE  /\ p.dot.site = s /\ TupleOf(p) = t /\ p.effect = e
         /\ p.effect = Favoured(Strategy[s]) => p.dot \in valid'[s]
         /\ \A part : part \subseteq ValidOn(policies'[s], valid'[s], t) /\ p \in part =>
              (DeepestAllows(DagOf(policies'[s], t), part, Strategy[s]) <=> e = "Allow")
         /\ p.dot \in valid'[s] => p \in ValidOn(policies'[s], valid'[s], t)
         /\ documents' = documents
<1> DEFINE pol == policies[s]
           new == Append(pol, p)
           g == DagOf(pol, t)
<1>1. p \in PolicyOp /\ EffectPolicy(s, p, Allocated(s))
  BY CommandAssumption, NewPolicyOpTyped DEF UpdatePolicy
<1>2. /\ p.dot.site = s /\ p.effect = e
      /\ p.deps = {d \in AtLevel(g, MaxLevel(g)) : d \in valid[s]}
      /\ p.target = t.site /\ p.right = t.right
  BY DEF NewPolicyOp, CurrentTopLevelDeps
<1>3. TupleOf(p) = t
  <2>1. t \in AccessTuple
    BY CommandAssumption
  <2> QED BY <1>2, <2>1 DEF TupleOf, AccessTuple
<1>4. /\ policies \in [Site -> Seq(PolicyOp)] /\ valid \in [Site -> SUBSET Dot]
      /\ policies'[s] = new /\ documents' = documents
      /\ valid'[s] = RebuildValidity(new, documents[s], valid[s], Strategy[s])
  BY <1>1 DEF EffectPolicy, IInv, TypeOK
<1>5. Complete(new, documents[s])
  BY <1>4, LogsCompleteNext
<1>6. Ordered(new) /\ pol \in Seq(PolicyOp)
  BY <1>4, <1>5 DEF Complete
<1>7. p.effect = Favoured(Strategy[s]) => p.dot \in valid'[s]
  <2>1. p.deps \subseteq valid[s]
    BY <1>2
  <2>2. valid[s] \subseteq Entries(pol) \union DotsOf(documents[s])
    BY RegisterInLog
  <2>3. Settled(pol, documents[s], valid[s], Strategy[s])
    BY DEF AllSettled
  <2> DEFINE R == RebuildValidity(new, documents[s], valid[s], Strategy[s])
  <2>4. p.effect = Favoured(Strategy[s]) /\ p.deps \subseteq valid[s] => p.dot \in R
    BY <1>1, <1>5, <1>6, <2>2, <2>3, PolicySettles
  <2> QED BY <1>4, <2>1, <2>4
<1>8. Fixed(new, valid'[s], Strategy[s])
  BY <1>4 DEF AllSettled, Settled
<1>9. ASSUME NEW part, part \subseteq ValidOn(new, valid'[s], t), p \in part
      PROVE  DeepestAllows(DagOf(new, t), part, Strategy[s]) <=> e = "Allow"
  <2>1. p.deps \subseteq AtLevel(g, MaxLevel(g)) /\ Levelled(pol)
    BY <1>2 DEF AllLevelled
  <2>2. DeepestAllows(DagOf(new, t), part, Strategy[s]) <=> p.effect = "Allow"
    BY <1>1, <1>3, <1>6, <1>8, <1>9, <2>1, NewestDecides
  <2> QED BY <1>2, <2>2
<1>10. p.dot \in valid'[s] => p \in ValidOn(new, valid'[s], t)
  <2>1. p \in PoliciesOn(new, t)
    BY <1>1, <1>3, <1>6, PoliciesOnAppend
  <2> QED BY <2>1 DEF ValidOn
<1> QED BY <1>2, <1>3, <1>4, <1>7, <1>9, <1>10

(***************************************************************************)
(* A command for the effect the strategy favours is in force at the        *)
(* issuing site as soon as update_policy returns, whatever the site has    *)
(* received before.                                                        *)
(***************************************************************************)
THEOREM FavouredCommandsRule == Spec => FavouredCommandTakesEffect
<1> DEFINE Rules == \A p \in IssuedNow :
             p.effect = Favoured(Strategy[p.dot.site]) => (Granted(p) <=> p.effect = "Allow")
<1>1. IInv /\ IInv' /\ AllSettled /\ AllSettled' /\ AllLevelled /\ [Next]_vars => Rules
  <2> SUFFICES ASSUME IInv, IInv', AllSettled, AllSettled', AllLevelled, [Next]_vars,
                      NEW p \in IssuedNow, p.effect = Favoured(Strategy[p.dot.site])
               PROVE  Granted(p) <=> p.effect = "Allow"
    OBVIOUS
  <2>1. PICK s \in Site, t \in CommandTuples, e \in Effect :
          UpdatePolicy(s, t, e) /\ p = NewPolicyOp(s, t, e)
    BY IssuedByCommand
  <2>2. p.dot.site = s /\ TupleOf(p) = t /\ p.effect = e
    BY <2>1, CommandDecides
  <2>3. p \in ValidOn(policies'[s], valid'[s], t)
    BY <2>1, <2>2, CommandDecides
  <2>4. DeepestAllows(DagOf(policies'[s], t), ValidOn(policies'[s], valid'[s], t), Strategy[s]) <=> e = "Allow"
    BY <2>1, <2>3, CommandDecides
  <2>5. t = [site |-> p.target, right |-> p.right]
    BY <2>2 DEF TupleOf
  <2> QED BY <2>2, <2>4, <2>5 DEF Granted, Eval
<1>2. IInv /\ Stable => AllSettled
  BY StableIs
<1>3. Spec => []AllSettled
  BY <1>2, Invariance, RegistersStable, PTL
<1>4. Spec => [][Rules]_vars
  BY <1>1, <1>3, Invariance, LogsAreLevelled, PTL DEF Spec
<1> QED BY <1>4 DEF FavouredCommandTakesEffect

(***************************************************************************)
(* A valid allow of writing redoes every edit of its target that the       *)
(* issuing site has received, except those whose own dependencies are      *)
(* undone.                                                                 *)
(***************************************************************************)
THEOREM ReallowsRedo == Spec => ReallowRedoesSeenWrites
<1> DEFINE Redoes == \A p \in IssuedNow :
             LET s == p.dot.site
             IN  /\ p.effect = "Allow"
                 /\ p.right = "Write"
                 /\ p.dot \in valid'[s]
                 => \A d \in documents[s] :
                      d.dot.site = p.target /\ d.deps \subseteq valid'[s] => d.dot \in valid'[s]
<1>1. IInv /\ IInv' /\ AllSettled /\ AllSettled' /\ AllLevelled /\ [Next]_vars => Redoes
  <2> SUFFICES ASSUME IInv, IInv', AllSettled, AllSettled', AllLevelled, [Next]_vars,
                      NEW p \in IssuedNow, NEW s, s = p.dot.site,
                      p.effect = "Allow", p.right = "Write", p.dot \in valid'[s],
                      NEW d \in documents[s], d.dot.site = p.target, d.deps \subseteq valid'[s]
               PROVE  d.dot \in valid'[s]
    OBVIOUS
  <2>1. PICK r \in Site, t \in CommandTuples, e \in Effect :
          UpdatePolicy(r, t, e) /\ p = NewPolicyOp(r, t, e)
    BY IssuedByCommand
  <2>2. r = s /\ TupleOf(p) = t /\ p.effect = e /\ documents' = documents
    BY <2>1, CommandDecides
  <2>3. p \in ValidOn(policies'[s], valid'[s], t)
    BY <2>1, <2>2, CommandDecides
  <2>4. Covers(p, d.dot)
    <3>1. t.site \in Site /\ t.site = p.target
      BY <2>1, CommandAssumption DEF AccessTuple, NewPolicyOp
    <3>2. d.dot.n \in SeenDocNumbers(s, t.site)
      BY <3>1 DEF SeenDocNumbers
    <3>3. LastDotForWriteTuple(s, t.site) \in Nat /\ d.dot.n <= LastDotForWriteTuple(s, t.site)
      BY <2>2, <3>1, <3>2, LastDotIsLast
    <3>4. p.last_dot_seen = LastDotForWriteTuple(s, t.site)
      BY <2>1, <2>2 DEF NewPolicyOp
    <3>5. d.dot.n \in Nat
      BY <2>2 DEF IInv, TypeOK, DocOp, Dot
    <3> DEFINE l == LastDotForWriteTuple(s, t.site)
    <3> HIDE DEF l
    <3>6. l \in Nat /\ d.dot.n \in Nat /\ d.dot.n <= l => l >= d.dot.n
      OBVIOUS
    <3> QED BY <3>3, <3>4, <3>5, <3>6 DEF Covers, l
  <2> DEFINE covering == {q \in ValidOn(policies'[s], valid'[s], t) : Covers(q, d.dot)}
  <2>5. DeepestAllows(DagOf(policies'[s], t), covering, Strategy[s])
    <3>1. covering \subseteq ValidOn(policies'[s], valid'[s], t) /\ p \in covering
      BY <2>3, <2>4
    <3> HIDE DEF covering
    <3> QED BY <2>1, <2>2, <3>1, CommandDecides
  <2>6. t = [site |-> d.dot.site, right |-> "Write"]
    BY <2>2 DEF TupleOf
  <2>7. IsValidDocument(d, policies'[s], documents'[s], valid'[s], Strategy[s])
    BY <2>5, <2>6 DEF IsValidDocument
  <2> QED BY <2>2, <2>7 DEF AllSettled, Settled
<1>2. IInv /\ Stable => AllSettled
  BY StableIs
<1>3. Spec => []AllSettled
  BY <1>2, Invariance, RegistersStable, PTL
<1>4. Spec => [][Redoes]_vars
  BY <1>1, <1>3, Invariance, LogsAreLevelled, PTL DEF Spec
<1> QED BY <1>4 DEF ReallowRedoesSeenWrites

-----------------------------------------------------------------------------
(***************************************************************************)
(* Convergence.                                                            *)
(***************************************************************************)
\* With an operation, all its ancestors are valid.
LEMMA ValidAncestors ==
  ASSUME NEW pol, Ordered(pol), NEW V, NEW strategy, Fixed(pol, V, strategy),
         NEW q \in Range(pol), q.dot \in V
  PROVE  Ancestors(DagOf(pol, TupleOf(q)), q.dot) \subseteq V
<1> DEFINE t == TupleOf(q)
           g == DagOf(pol, t)
           X == {x \in DotsOf(PoliciesOn(pol, t)) : x \in V}
<1>1. IsDag(g) /\ \A r \in PoliciesOn(pol, t) : Parents(g, r.dot) = r.deps
  BY DagIs
<1>2. ASSUME NEW r \in PoliciesOn(pol, t), r.dot \in V PROVE Parents(g, r.dot) \subseteq X
  <2>1. r \in Range(pol) /\ TupleOf(r) = t
    BY DEF PoliciesOn
  <2>2. r.deps \subseteq V
    BY <1>2, <2>1, ValidIs DEF Fixed
  <2>3. r.deps \subseteq DotsOf(PoliciesOn(pol, t))
    BY <2>1, OrderedOps DEF DotsOf
  <2> QED BY <1>1, <2>2, <2>3
<1>3. q \in PoliciesOn(pol, t)
  BY DEF PoliciesOn
<1> HIDE DEF g, t
<1>4. UpClosed(g, X)
  BY <1>2 DEF UpClosed, DotsOf
<1>5. Parents(g, q.dot) \subseteq X
  BY <1>2, <1>3
<1>6. Ancestors(g, q.dot) \subseteq X
  BY <1>1, <1>4, <1>5, AncestorsLeast
<1> QED BY <1>6 DEF g, t

(***************************************************************************)
(* Two registers that are both settled: behind an operation that only one  *)
(* of them holds stands an unfavoured one that only this one holds, and a  *)
(* favoured rival of it that only the other holds.                         *)
(***************************************************************************)
LEMMA Disagreement ==
  ASSUME NEW pol, Ordered(pol), NEW strategy, NEW A, NEW B,
         Fixed(pol, A, strategy), Fixed(pol, B, strategy),
         NEW x \in Range(pol), x.dot \in A, x.dot \notin B
  PROVE  \E y \in PoliciesOn(pol, TupleOf(x)) :
           /\ y.dot = x.dot \/ y.dot \in Ancestors(DagOf(pol, TupleOf(x)), x.dot)
           /\ y.dot \in A /\ y.dot \notin B /\ y.effect # Favoured(strategy)
           /\ \E f \in Rivals(pol, y) :
                f.dot \in B /\ f.dot \notin A /\ f.effect = Favoured(strategy)
<1> DEFINE t == TupleOf(x)
           g == DagOf(pol, t)
           fav == Favoured(strategy)
           Behind(d) == d = x.dot \/ d \in Ancestors(g, x.dot)
           S == {i \in DOMAIN pol : /\ pol[i].dot \in A /\ pol[i].dot \notin B
                                    /\ TupleOf(pol[i]) = t /\ Behind(pol[i].dot)}
<1>1. /\ pol \in Seq(PolicyOp) /\ DOMAIN pol = 1 .. Len(pol) /\ Len(pol) \in Nat
      /\ IsDag(g) /\ \A q \in PoliciesOn(pol, t) : Parents(g, q.dot) = q.deps
  BY DagIs DEF Ordered
<1>2. S \in SUBSET Nat /\ S # {}
  BY <1>1 DEF Range
<1>3. PICK i \in S : \A j \in S : i <= j
  <2> HIDE DEF S
  <2> QED BY <1>2, MinExists
<1> DEFINE y == pol[i]
<1>4. /\ i \in DOMAIN pol /\ y.dot \in A /\ y.dot \notin B /\ TupleOf(y) = t /\ Behind(y.dot)
      /\ y \in Range(pol) /\ y \in PoliciesOn(pol, t)
  BY <1>1 DEF PoliciesOn, Range
<1>5. (y.dot \in A <=> IsValidPolicy(y, pol, A, strategy)) /\ ~IsValidPolicy(y, pol, B, strategy)
  BY <1>4 DEF Fixed
<1>6. y.deps \subseteq A /\ (y.effect = fav \/ \A c \in Rivals(pol, y) : c.dot \notin A)
  BY <1>4, <1>5, ValidIs
<1>7. \A d \in y.deps : Behind(d)
  <2>1. Parents(g, y.dot) = y.deps
    BY <1>1, <1>4
  <2>2. Parents(g, x.dot) \subseteq Ancestors(g, x.dot) /\ UpClosed(g, Ancestors(g, x.dot))
    BY <1>1, AncestorsLeast
  <2> HIDE DEF g, y
  <2> QED BY <1>4, <2>1, <2>2 DEF UpClosed
<1>8. y.deps \subseteq B
  <2> SUFFICES ASSUME NEW d \in y.deps, d \notin B PROVE FALSE
    OBVIOUS
  <2>1. PICK j \in 1 .. i - 1 : pol[j].dot = d /\ TupleOf(pol[j]) = TupleOf(pol[i])
    BY <1>4 DEF Ordered
  <2>2. j \in DOMAIN pol /\ ~(i <= j)
    BY <1>1, <1>4
  <2>3. d \in A /\ Behind(d)
    BY <1>6, <1>7
  <2>4. j \in S
    <3> HIDE DEF Behind
    <3> QED BY <1>4, <2>1, <2>2, <2>3
  <2> HIDE DEF S
  <2> QED BY <1>3, <2>2, <2>4
<1> HIDE DEF y, S, g
<1>9. y.effect # fav
  BY <1>5, <1>8, ValidIs
<1>10. PICK f \in Rivals(pol, y) : f.dot \in B
  BY <1>5, <1>8, ValidIs
<1>11. f.dot \notin A
  BY <1>6, <1>9, <1>10
<1>12. f.effect = fav
  <2>1. f \in PolicyOp /\ y \in PolicyOp /\ f.effect # y.effect
    BY <1>4, <1>10, OrderedOps DEF Rivals, PoliciesOn
  <2>2. f.effect \in {"Allow", "Deny"} /\ y.effect \in {"Allow", "Deny"}
    BY <2>1 DEF PolicyOp, Effect
  <2> QED BY <1>9, <2>1, <2>2 DEF Favoured
<1> QED BY <1>4, <1>9, <1>10, <1>11, <1>12 DEF g

\* Decisions cross in a log, read off its operations (Crossed, for any log).
CrossedIn(pol, strategy) ==
  \E f1, f2 \in Range(pol) :
    /\ f1.effect = Favoured(strategy) /\ f2.effect = Favoured(strategy)
    /\ TupleOf(f1) = TupleOf(f2)
    /\ \E u1, u2 \in PoliciesOn(pol, TupleOf(f1)) :
         /\ u1.effect # Favoured(strategy) /\ u2.effect # Favoured(strategy)
         /\ u1.dot \in Ancestors(DagOf(pol, TupleOf(f1)), f1.dot)
         /\ u2.dot \in Ancestors(DagOf(pol, TupleOf(f1)), f2.dot)
         /\ Concurrent(DagOf(pol, TupleOf(f1)), u1.dot, f2.dot)
         /\ Concurrent(DagOf(pol, TupleOf(f1)), u2.dot, f1.dot)

\* Where no decisions cross, all settled registers hold the same operations.
LEMMA OneFixedPoint ==
  ASSUME NEW pol, Ordered(pol), NEW strategy, NEW A, NEW B,
         Fixed(pol, A, strategy), Fixed(pol, B, strategy),
         NEW x \in Range(pol), x.dot \in A, x.dot \notin B
  PROVE  CrossedIn(pol, strategy)
<1> DEFINE fav == Favoured(strategy)
<1>1. \A q, r \in Range(pol) : q.dot = r.dot => q = r
  BY OrderedOps
<1>2. PICK f1 \in Range(pol) : f1.dot \in B /\ f1.dot \notin A /\ f1.effect = fav
  <2>1. PICK y \in PoliciesOn(pol, TupleOf(x)) :
          \E f \in Rivals(pol, y) : f.dot \in B /\ f.dot \notin A /\ f.effect = fav
    BY Disagreement
  <2> QED BY <2>1 DEF Rivals, PoliciesOn
<1> DEFINE t == TupleOf(f1)
           g == DagOf(pol, t)
<1>3. PICK u1 \in PoliciesOn(pol, t) :
        /\ u1.dot = f1.dot \/ u1.dot \in Ancestors(g, f1.dot)
        /\ u1.dot \in B /\ u1.dot \notin A /\ u1.effect # fav
        /\ \E f \in Rivals(pol, u1) : f.dot \in A /\ f.dot \notin B /\ f.effect = fav
  BY <1>2, Disagreement
<1>4. u1.dot \in Ancestors(g, f1.dot) /\ TupleOf(u1) = t
  BY <1>1, <1>2, <1>3 DEF PoliciesOn
<1>5. PICK f2 \in Rivals(pol, u1) : f2.dot \in A /\ f2.dot \notin B /\ f2.effect = fav
  BY <1>3
<1>6. f2 \in Range(pol) /\ TupleOf(f2) = t /\ Concurrent(g, u1.dot, f2.dot)
  BY <1>4 DEF Rivals, PoliciesOn, Concurrent
<1>7. PICK u2 \in PoliciesOn(pol, TupleOf(f2)) :
        /\ u2.dot = f2.dot \/ u2.dot \in Ancestors(DagOf(pol, TupleOf(f2)), f2.dot)
        /\ u2.dot \in A /\ u2.dot \notin B /\ u2.effect # fav
  BY <1>5, <1>6, Disagreement
<1>8. u2 \in PoliciesOn(pol, t) /\ u2 \in Range(pol) /\ TupleOf(u2) = t
      /\ u2.dot \in Ancestors(g, f2.dot)
  BY <1>1, <1>5, <1>6, <1>7 DEF PoliciesOn
<1>9. Ancestors(g, f1.dot) \subseteq B
  BY <1>2, ValidAncestors
<1>10. Ancestors(g, u2.dot) \subseteq A
  BY <1>7, <1>8, ValidAncestors
<1>11. Concurrent(g, u2.dot, f1.dot)
  BY <1>2, <1>7, <1>9, <1>10 DEF Concurrent
<1> HIDE DEF g, t
<1> QED BY <1>2, <1>3, <1>4, <1>5, <1>6, <1>7, <1>8, <1>11 DEF CrossedIn, g, t

\* The order of a log does not matter to what is valid in a given register.
LEMMA OrderIrrelevant ==
  ASSUME NEW pol, NEW other, Range(pol) = Range(other), NEW V, NEW strategy
  PROVE  /\ Entries(pol) = Entries(other)
         /\ Fixed(pol, V, strategy) <=> Fixed(other, V, strategy)
         /\ \A d, docs : IsValidDocument(d, pol, docs, V, strategy)
                           <=> IsValidDocument(d, other, docs, V, strategy)
<1>1. \A t : PoliciesOn(pol, t) = PoliciesOn(other, t)
  BY DEF PoliciesOn
<1>2. \A t : DagOf(pol, t) = DagOf(other, t)
  BY <1>1 DEF DagOf
<1>3. \A q : IsValidPolicy(q, pol, V, strategy) <=> IsValidPolicy(q, other, V, strategy)
  BY <1>1, <1>2 DEF IsValidPolicy
<1>4. \A t : ValidOn(pol, V, t) = ValidOn(other, V, t)
  BY <1>1 DEF ValidOn
<1>5. \A d, docs : IsValidDocument(d, pol, docs, V, strategy)
                     <=> IsValidDocument(d, other, docs, V, strategy)
  BY <1>2, <1>4 DEF IsValidDocument
<1> QED BY <1>3, <1>5 DEF Fixed, Entries

\* Decisions that cross in a site's log are what Crossed is about.
LEMMA CrossedHere == \A s \in Site : CrossedIn(policies[s], Strategy[s]) => Crossed(s)
BY DEF CrossedIn, Crossed, PoliciesOn

(***************************************************************************)
(* Convergence, as far as the code has it: two sites with the same         *)
(* strategy and the same operations agree on which are valid, in whatever  *)
(* orders these have arrived, unless decisions have crossed.               *)
(***************************************************************************)
THEOREM ConvergenceUnlessCrossed == Spec => []ConvergesUnlessCrossed
<1>1. IInv /\ AllSettled => ConvergesUnlessCrossed
  <2> SUFFICES ASSUME IInv, AllSettled, NEW s \in Site, NEW r \in Site,
                      Strategy[s] = Strategy[r], SameOps(s, r), ~Crossed(s)
               PROVE  valid[s] = valid[r]
    BY DEF ConvergesUnlessCrossed
  <2> DEFINE pol == policies[s]
             docs == documents[s]
             A == valid[s]
             B == valid[r]
             strategy == Strategy[s]
  <2>1. Range(pol) = Range(policies[r]) /\ documents[r] = docs
    BY DEF SameOps
  <2>2. Complete(pol, docs) /\ Ordered(pol)
    BY LogsComplete DEF Complete
  <2>3. Settled(pol, docs, A, strategy) /\ Settled(policies[r], docs, B, strategy)
    BY <2>1 DEF AllSettled
  <2>4. Fixed(pol, A, strategy) /\ Fixed(pol, B, strategy)
    BY <2>1, <2>3, OrderIrrelevant DEF Settled
  <2>5. ~CrossedIn(pol, strategy)
    BY CrossedHere
  <2>6. A \cap Entries(pol) = B \cap Entries(pol)
    <3>1. \A x \in Range(pol) : x.dot \in A <=> x.dot \in B
      BY <2>2, <2>4, <2>5, OneFixedPoint
    <3> HIDE DEF A, B
    <3> QED BY <3>1 DEF Entries, DotsOf
  <2>7. \A d \in docs : d.dot \in A <=> d.dot \in B
    <3> SUFFICES ASSUME NEW d \in docs PROVE d.dot \in A <=> d.dot \in B
      OBVIOUS
    <3>1. d.dot \in A <=> IsValidDocument(d, pol, docs, A, strategy)
      BY <2>3 DEF Settled
    <3>2. d.dot \in B <=> IsValidDocument(d, policies[r], docs, B, strategy)
      BY <2>3 DEF Settled
    <3>3. IsValidDocument(d, policies[r], docs, B, strategy) <=> IsValidDocument(d, pol, docs, B, strategy)
      BY <2>1, OrderIrrelevant
    <3>4. d.deps \subseteq Entries(pol)
      BY <2>2 DEF Complete
    <3>5. IsValidDocument(d, pol, docs, A, strategy) <=> IsValidDocument(d, pol, docs, B, strategy)
      <4> HIDE DEF A, B, pol, docs
      <4> QED BY <2>2, <2>6, <3>4, PolicyEntriesDecide
    <3> QED BY <3>1, <3>2, <3>3, <3>5
  <2>8. A \subseteq Entries(pol) \union DotsOf(docs) /\ B \subseteq Entries(pol) \union DotsOf(docs)
    <3>1. Entries(policies[r]) = Entries(pol)
      BY <2>1, OrderIrrelevant
    <3> QED BY <2>1, <3>1, RegisterInLog
  <2> HIDE DEF A, B, docs, pol
  <2>9. A = B
    <3>1. \A x \in DotsOf(docs) : x \in A <=> x \in B
      BY <2>7 DEF DotsOf
    <3> QED BY <2>6, <2>8, <3>1
  <2> QED BY <2>9 DEF A, B
<1>2. IInv /\ Stable => AllSettled
  BY StableIs
<1> QED BY <1>1, <1>2, Invariance, RegistersStable, PTL
=============================================================================
