------------------------------ MODULE NumberFacts ------------------------------
(***************************************************************************)
(* Facts about sets of numbers, and about recursive functions whose        *)
(* arguments are counted by numbers, that proofs of several modules need.  *)
(***************************************************************************)
EXTENDS Naturals, WellFoundedInduction, TLAPS

\* A bounded, non-empty set of numbers has a greatest element: what max_by_key
\* returns in last_dot_for_write_tuple exists, and so does the list object that
\* wins under a key of an Automerge document.
LEMMA MaxExists ==
  ASSUME NEW S \in SUBSET Nat, S # {}, NEW b \in Nat, \A x \in S : x <= b
  PROVE  \E m \in S : \A x \in S : x <= m
<1> DEFINE Bounds == {k \in Nat : \A x \in S : x <= k}
<1>1. Bounds # {} /\ Bounds \subseteq Nat
  OBVIOUS
<1>2. PICK m \in Bounds : \A k \in Bounds : ~(<< k, m >> \in OpToRel(<, Nat))
  BY <1>1, NatLessThanWellFounded, WFMin
<1>3. \A k \in Bounds : m <= k
  <2> SUFFICES ASSUME NEW k \in Bounds, k < m PROVE FALSE
    BY <1>1
  <2>1. << k, m >> \in {ss \in Nat \X Nat : ss[1] < ss[2]}
    OBVIOUS
  <2> QED BY <2>1, <1>2 DEF OpToRel
<1>4. m \in S
  <2> SUFFICES ASSUME m \notin S PROVE FALSE
    OBVIOUS
  <2>1. PICK x \in S : TRUE
    OBVIOUS
  <2>2. \A y \in S : y < m
    OBVIOUS
  <2>3. m - 1 \in Bounds
    BY <2>1, <2>2
  <2> QED BY <2>3, <1>3
<1> QED BY <1>4

\* A non-empty set of numbers has a least element.
LEMMA MinExists ==
  ASSUME NEW S \in SUBSET Nat, S # {}
  PROVE  \E m \in S : \A x \in S : m <= x
<1>1. PICK m \in S : \A k \in S : ~(<< k, m >> \in OpToRel(<, Nat))
  BY NatLessThanWellFounded, WFMin
<1>2. ASSUME NEW x \in S, ~(m <= x) PROVE FALSE
  <2>1. x < m
    BY <1>2
  <2>2. << x, m >> \in {ss \in Nat \X Nat : ss[1] < ss[2]}
    BY <2>1
  <2> QED BY <1>1, <2>2 DEF OpToRel
<1> QED BY <1>2

-----------------------------------------------------------------------------
(***************************************************************************)
(* Loops.  A recursive function that, in a state x, either has a value or  *)
(* goes on in a next state is given by its domain and three functions; m   *)
(* is a number that falls with every step.  Chains: values that are        *)
(* computed one after the other.                                           *)
(***************************************************************************)
LoopOn(h, D, stop, value, step) ==
  h = [x \in D |-> IF x \in stop THEN value[x] ELSE h[step[x]]]

LoopEnds(D, stop, step, m) ==
  /\ \A x \in D : m[x] \in Nat
  /\ \A x \in D : x \notin stop => step[x] \in D /\ m[step[x]] < m[x]

LoopKeeps(D, stop, value, step, I, Good) ==
  \A x \in D \cap I : IF x \in stop THEN value[x] \in Good ELSE step[x] \in I

\* Two loops with the same steps agree where both are defined.
LEMMA LoopUnique ==
  ASSUME NEW D, NEW E, NEW stop, NEW value, NEW step, NEW m,
         \A x \in D \union E : m[x] \in Nat,
         \A x \in D : x \notin stop => step[x] \in D /\ m[step[x]] < m[x],
         \A x \in E : x \notin stop => step[x] \in E,
         NEW h, LoopOn(h, D, stop, value, step), NEW k, LoopOn(k, E, stop, value, step),
         NEW x \in D \cap E
  PROVE  h[x] = k[x]
<1> DEFINE B == {y \in D \cap E : h[y] # k[y]}
           M == {m[y] : y \in B}
<1> SUFFICES ASSUME x \in B PROVE FALSE
  OBVIOUS
<1>1. M \in SUBSET Nat /\ M # {}
  OBVIOUS
<1>2. PICK n \in M : \A l \in M : n <= l
  BY <1>1, MinExists
<1>3. PICK y \in B : n = m[y]
  BY <1>2
<1>4. y \notin stop
  BY <1>3 DEF LoopOn
<1>5. step[y] \in D \cap E /\ m[step[y]] < m[y]
  BY <1>3, <1>4
<1>6. h[y] = h[step[y]] /\ k[y] = k[step[y]]
  BY <1>3, <1>4 DEF LoopOn
<1>7. step[y] \in B
  BY <1>3, <1>5, <1>6
<1>8. m[y] <= m[step[y]]
  BY <1>2, <1>3, <1>7
<1>9. m[y] \in Nat /\ m[step[y]] \in Nat
  BY <1>3, <1>5
<1> QED BY <1>5, <1>8, <1>9

\* A loop whose steps make a number fall computes something.
LEMMA LoopExists ==
  ASSUME NEW D, NEW stop, NEW value, NEW step, NEW m, LoopEnds(D, stop, step, m)
  PROVE  \E h : LoopOn(h, D, stop, value, step)
<1> DEFINE Below(n) == {x \in D : m[x] < n}
           Good(n) == \E h : LoopOn(h, Below(n), stop, value, step)
           Bad == {n \in Nat : ~Good(n)}
<1> USE DEF LoopEnds
<1>0. \A n \in Nat : \A x \in Below(n) : x \notin stop => step[x] \in Below(n) /\ m[step[x]] < m[x]
  <2> SUFFICES ASSUME NEW n \in Nat, NEW x \in Below(n), x \notin stop
               PROVE  step[x] \in Below(n) /\ m[step[x]] < m[x]
    OBVIOUS
  <2>1. m[step[x]] < m[x] /\ m[x] < n /\ m[step[x]] \in Nat /\ m[x] \in Nat /\ step[x] \in D
    OBVIOUS
  <2> QED BY <2>1
<1>1. Good(0)
  <2> DEFINE h == [x \in {} |-> x]
  <2>1. Below(0) = {}
    OBVIOUS
  <2>2. LoopOn(h, Below(0), stop, value, step)
    BY <2>1 DEF LoopOn
  <2> QED BY <2>2
<1>2. ASSUME NEW n \in Nat, Good(n) PROVE Good(n + 1)
  <2>1. PICK h : LoopOn(h, Below(n), stop, value, step)
    BY <1>2
  <2> DEFINE E == Below(n)
             F == Below(n + 1)
             k == [x \in F |-> IF x \in stop THEN value[x] ELSE h[step[x]]]
  <2>2. \A x \in F : x \notin stop => step[x] \in E
    <3> SUFFICES ASSUME NEW x \in F, x \notin stop PROVE step[x] \in E
      OBVIOUS
    <3>1. m[step[x]] < m[x] /\ m[x] < n + 1 /\ m[step[x]] \in Nat /\ m[x] \in Nat /\ step[x] \in D
      OBVIOUS
    <3> QED BY <3>1
  <2>3. E \subseteq F
    <3> SUFFICES ASSUME NEW x \in E PROVE x \in F
      OBVIOUS
    <3>1. m[x] \in Nat /\ m[x] < n
      OBVIOUS
    <3> QED BY <3>1
  <2> HIDE DEF E, F
  <2>4. \A x \in E : k[x] = h[x]
    BY <2>1, <2>3 DEF LoopOn, E
  <2>5. \A x \in F : k[x] = IF x \in stop THEN value[x] ELSE k[step[x]]
    BY <2>2, <2>4
  <2>6. LoopOn(k, F, stop, value, step)
    BY <2>5 DEF LoopOn
  <2> QED BY <2>6 DEF F
<1>3. \A n \in Nat : Good(n)
  <2> SUFFICES ASSUME Bad # {} PROVE FALSE
    OBVIOUS
  <2> HIDE DEF Good
  <2>1. PICK n \in Bad : \A l \in Bad : n <= l
    <3>1. Bad \in SUBSET Nat
      OBVIOUS
    <3> QED BY <3>1, MinExists
  <2>2. n # 0 /\ n \in Nat
    BY <1>1
  <2>3. n - 1 \in Nat /\ (n - 1) + 1 = n /\ ~(n <= n - 1)
    BY <2>2
  <2>4. Good(n - 1)
    BY <2>1, <2>3
  <2>5. Good(n)
    BY <1>2, <2>3, <2>4
  <2> QED BY <2>1, <2>5
<1> DEFINE H == [n \in Nat |-> CHOOSE h : LoopOn(h, Below(n), stop, value, step)]
           k == [x \in D |-> H[m[x] + 1][x]]
<1>4. \A n \in Nat : LoopOn(H[n], Below(n), stop, value, step)
  BY <1>3
<1>5. ASSUME NEW x \in D, x \in stop PROVE k[x] = value[x]
  <2>1. m[x] + 1 \in Nat /\ x \in Below(m[x] + 1)
    BY <1>5
  <2> DEFINE n == m[x] + 1
  <2>2. LoopOn(H[n], Below(n), stop, value, step)
    BY <1>4, <2>1
  <2> HIDE DEF H, n
  <2>3. H[n][x] = value[x]
    BY <1>5, <2>1, <2>2 DEF LoopOn, n
  <2> QED BY <2>3 DEF n
<1>6. ASSUME NEW x \in D, x \notin stop PROVE k[x] = k[step[x]]
  <2> DEFINE y == step[x]
             n == m[x] + 1
             l == m[y] + 1
  <2>1. y \in D /\ n \in Nat /\ l \in Nat /\ x \in Below(n) /\ y \in Below(l) /\ y \in Below(n)
    <3>1. y \in D /\ m[y] < m[x] /\ m[x] \in Nat /\ m[y] \in Nat
      BY <1>6
    <3> QED BY <3>1
  <2>2. LoopOn(H[n], Below(n), stop, value, step) /\ LoopOn(H[l], Below(l), stop, value, step)
    BY <1>4, <2>1
  <2> DEFINE P == Below(n)
             Q == Below(l)
  <2>3. /\ \A z \in P \union Q : m[z] \in Nat
        /\ \A z \in P : z \notin stop => step[z] \in P /\ m[step[z]] < m[z]
        /\ \A z \in Q : z \notin stop => step[z] \in Q
    BY <1>0, <2>1
  <2> HIDE DEF H, P, Q, Below, n, l
  <2>4. H[n][y] = H[l][y]
    <3> DEFINE a == H[n]
               b == H[l]
    <3>1. LoopOn(a, P, stop, value, step) /\ LoopOn(b, Q, stop, value, step) /\ y \in P \cap Q
      BY <2>1, <2>2 DEF P, Q
    <3> HIDE DEF a, b, y
    <3>2. a[y] = b[y]
      BY <2>3, <3>1, LoopUnique
    <3> QED BY <3>2 DEF a, b
  <2>5. H[n][x] = H[n][y]
    BY <1>6, <2>1, <2>2 DEF LoopOn
  <2> QED BY <2>1, <2>4, <2>5 DEF n, l
<1>7. LoopOn(k, D, stop, value, step)
  <2> HIDE DEF H
  <2>1. \A x \in D : k[x] = IF x \in stop THEN value[x] ELSE k[step[x]]
    BY <1>5, <1>6
  <2> DEFINE q == k
  <2>2. q = [x \in D |-> q[x]]
    OBVIOUS
  <2> HIDE DEF k
  <2> QED BY <2>1, <2>2 DEF LoopOn
<1> QED BY <1>7

\* What holds of the first state of a loop and is kept by its steps holds of the
\* last: the value is good if it is in every good state the loop may stop in.
LEMMA LoopInvariant ==
  ASSUME NEW D, NEW stop, NEW value, NEW step, NEW m, NEW I, NEW Good,
         LoopEnds(D, stop, step, m),
         NEW h, LoopOn(h, D, stop, value, step),
         LoopKeeps(D, stop, value, step, I, Good),
         NEW x \in D \cap I
  PROVE  h[x] \in Good
<1> USE DEF LoopEnds, LoopKeeps
<1> DEFINE B == {y \in D \cap I : h[y] \notin Good}
           M == {m[y] : y \in B}
<1> SUFFICES ASSUME x \in B PROVE FALSE
  OBVIOUS
<1>1. M \in SUBSET Nat /\ M # {}
  OBVIOUS
<1>2. PICK n \in M : \A l \in M : n <= l
  BY <1>1, MinExists
<1>3. PICK y \in B : n = m[y]
  BY <1>2
<1>4. h[y] = IF y \in stop THEN value[y] ELSE h[step[y]]
  BY <1>3 DEF LoopOn
<1>5. y \notin stop /\ h[y] = h[step[y]]
  BY <1>3, <1>4
<1>6. step[y] \in D \cap I /\ m[step[y]] < m[y]
  BY <1>3, <1>5
<1>7. step[y] \in B
  BY <1>3, <1>5, <1>6
<1>8. m[y] <= m[step[y]]
  BY <1>2, <1>3, <1>7
<1>9. m[y] \in Nat /\ m[step[y]] \in Nat
  BY <1>3, <1>6
<1> QED BY <1>6, <1>8, <1>9

\* Induction over the numbers up to n, with what holds of them as a set.
LEMMA Climb ==
  ASSUME NEW n \in Nat, NEW S, 0 \in S, \A i \in 0 .. n : i < n /\ i \in S => i + 1 \in S
  PROVE  \A i \in 0 .. n : i \in S
<1> DEFINE B == {i \in 0 .. n : i \notin S}
<1> SUFFICES ASSUME B # {} PROVE FALSE
  OBVIOUS
<1>1. B \in SUBSET Nat
  OBVIOUS
<1>2. PICK i \in B : \A j \in B : i <= j
  BY <1>1, MinExists
<1>3. i # 0 /\ i - 1 \in 0 .. n /\ i - 1 < n /\ (i - 1) + 1 = i /\ ~(i <= i - 1)
  BY <1>2
<1>4. i - 1 \in S
  BY <1>2, <1>3
<1> QED BY <1>2, <1>3, <1>4

ChainOn(h, n, first, next) ==
  h = [i \in 0 .. n |-> IF i = 0 THEN first ELSE next[i][h[i - 1]]]

\* A chain of any length exists.
LEMMA ChainExists ==
  ASSUME NEW n \in Nat, NEW first, NEW next
  PROVE  \E h : ChainOn(h, n, first, next)
<1> DEFINE Good(k) == \E h : ChainOn(h, k, first, next)
           S == {k \in Nat : Good(k)}
<1>1. Good(0)
  <2> DEFINE h == [i \in 0 .. 0 |-> first]
  <2>1. ChainOn(h, 0, first, next)
    BY DEF ChainOn
  <2> QED BY <2>1
<1>2. ASSUME NEW k \in Nat, Good(k) PROVE Good(k + 1)
  <2>1. PICK h : ChainOn(h, k, first, next)
    BY <1>2
  <2> DEFINE l == [i \in 0 .. k + 1 |-> IF i = 0 THEN first ELSE next[i][h[i - 1]]]
  <2>2. \A i \in 0 .. k : h[i] = IF i = 0 THEN first ELSE next[i][h[i - 1]]
    BY <2>1 DEF ChainOn
  <2>3. \A i \in 0 .. k : i \in 0 .. k + 1
    OBVIOUS
  <2>4. \A i \in 0 .. k : l[i] = h[i]
    BY <2>2, <2>3
  <2>5. \A i \in 0 .. k + 1 : i # 0 => i - 1 \in 0 .. k
    OBVIOUS
  <2>6. l = [i \in 0 .. k + 1 |-> IF i = 0 THEN first ELSE next[i][l[i - 1]]]
    BY <2>4, <2>5
  <2>7. ChainOn(l, k + 1, first, next)
    BY <2>6 DEF ChainOn
  <2> QED BY <2>7
<1> HIDE DEF Good
<1>3. 0 \in S /\ \A k \in 0 .. n : k < n /\ k \in S => k + 1 \in S
  BY <1>1, <1>2
<1> HIDE DEF S
<1>4. \A k \in 0 .. n : k \in S
  BY <1>3, Climb
<1> QED BY <1>4 DEF Good, S
================================================================================
