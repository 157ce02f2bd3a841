----------------------------- MODULE ServersProofs -----------------------------
(***************************************************************************)
(* Proofs about Servers for every set of servers, every supply of actor    *)
(* ids, any number of operations and restarts, with lists of their own or  *)
(* with the same bytes.                                                    *)
(***************************************************************************)
EXTENDS ServersInv, NumberFacts

\* What the key of a list, or note_n, ends up with is the greatest candidate.
LEMMA GreatestIs ==
  ASSUME NEW S \in SUBSET Nat, S # {}, NEW b \in Nat, \A x \in S : x <= b
  PROVE  Greatest(S) \in S /\ \A x \in S : x <= Greatest(S)
<1>1. \E m \in S : \A x \in S : x <= m
  BY MaxExists
<1> QED BY <1>1 DEF Greatest

\* The list a started server reads and appends to is one its document holds.
LEMMA WinnerIs ==
  ASSUME TypeOK, ListsBounded, NEW s \in Server, actor[s] # 0
  PROVE  /\ Winner(s, lists[s]) \in lists[s]
         /\ \A l \in lists[s] : l <= Winner(s, lists[s])
<1>1. PICK b \in Nat : \A l \in lists[s] : l <= b
  BY DEF ListsBounded
<1>2. lists[s] \in SUBSET Nat /\ lists[s] # {}
  BY DEF TypeOK, ListsBounded
<1>3. Greatest(lists[s]) \in lists[s] /\ \A l \in lists[s] : l <= Greatest(lists[s])
  BY <1>1, <1>2, GreatestIs
<1> QED BY <1>3 DEF Winner

\* What the fields of an entry are.
LEMMA EntriesTyped ==
  ASSUME TypeOK
  PROVE  \A s \in Server : \A e \in entries[s] :
           /\ e \in Entry /\ e.dot \in Dot /\ e.list \in Nat
           /\ e.dot.site \in Server /\ e.dot.n \in Nat \ {0}
BY DEF TypeOK, Entry, Dot

-----------------------------------------------------------------------------
(***************************************************************************)
(* A server starts, or starts again.                                       *)
(***************************************************************************)

\* A server starts, or starts again without its log and counters.
LEMMA BeginKeeps ==
  ASSUME ServersIInv, NEW s \in Server, NEW a \in Actors, Begin(s, a),
         \/ actor[s] = 0 /\ restarts' = restarts
         \/ restarts' = restarts + 1
  PROVE  ServersIInv'
<1>1. a \in Nat /\ a # 0 /\ restarts \in Nat
  BY ServersAssumption DEF ServersIInv, TypeOK
<1>2. /\ actor' = [actor EXCEPT ![s] = a]
      /\ lists' = [lists EXCEPT ![s] = {a}]
      /\ entries' = [entries EXCEPT ![s] = {}]
      /\ log' = [log EXCEPT ![s] = {}]
      /\ nextN' = [nextN EXCEPT ![s] = 0]
  BY DEF Begin
<1>3. TypeOK'
  BY <1>1, <1>2 DEF ServersIInv, TypeOK
<1>4. \A r \in Server :
        /\ actor'[r] = IF r = s THEN a ELSE actor[r]
        /\ lists'[r] = IF r = s THEN {a} ELSE lists[r]
        /\ entries'[r] = IF r = s THEN {} ELSE entries[r]
        /\ log'[r] = IF r = s THEN {} ELSE log[r]
        /\ nextN'[r] = IF r = s THEN 0 ELSE nextN[r]
  BY <1>2 DEF ServersIInv, TypeOK
<1>5. Unstarted' /\ ListsCome'
  BY <1>1, <1>4 DEF ServersIInv, Unstarted, ListsCome
<1>6. ListsBounded'
  BY <1>1, <1>4 DEF ServersIInv, ListsBounded
<1>7. NumbersBounded'
  BY <1>4, ServersAssumption DEF ServersIInv, NumbersBounded
<1>8. ASSUME actor[s] = 0, restarts' = restarts PROVE NeverReused' /\ WinningListSurvives'
  <2>1. lists[s] = {} /\ entries[s] = {}
    BY <1>8 DEF ServersIInv, Unstarted
  <2>2. NeverReused'
    <3> SUFFICES ASSUME restarts = 0, NEW r \in Server, NEW e \in entries'[r]
                 PROVE  /\ e \in entries'[e.dot.site]
                        /\ e.dot.n <= nextN'[e.dot.site]
                        /\ \A f \in entries'[r] : f.dot = e.dot => f = e
      BY <1>8 DEF NeverReused
    <3>1. r # s /\ e \in entries[r]
      BY <1>4
    <3>2. /\ e \in entries[e.dot.site]
          /\ e.dot.n <= nextN[e.dot.site]
          /\ \A f \in entries[r] : f.dot = e.dot => f = e
      BY <3>1 DEF ServersIInv, NeverReused
    <3>3. e.dot.site \in Server /\ e.dot.site # s
      BY <2>1, <3>1, <3>2, EntriesTyped DEF ServersIInv
    <3> QED BY <1>4, <3>1, <3>2, <3>3
  <2>3. WinningListSurvives'
    <3> SUFFICES ASSUME restarts = 0, NEW r \in Server, NEW e \in entries'[r], Winning(e)'
                 PROVE  e \in log'[r]
      BY <1>8 DEF WinningListSurvives
    <3>1. r # s /\ e \in entries[r]
      BY <1>4
    <3>2. Winning(e)
      BY <1>4, <2>1 DEF Winning
    <3> QED BY <1>4, <3>1, <3>2 DEF ServersIInv, WinningListSurvives
  <2> QED BY <2>2, <2>3
<1>9. ASSUME restarts' = restarts + 1 PROVE NeverReused' /\ WinningListSurvives'
  BY <1>1, <1>9 DEF NeverReused, WinningListSurvives
<1>10. MissingOnlyByDot'
  BY <1>4 DEF ServersIInv, MissingOnlyByDot
<1> QED BY <1>3, <1>5, <1>6, <1>7, <1>8, <1>9, <1>10 DEF ServersIInv

-----------------------------------------------------------------------------
(***************************************************************************)
(* A server issues an operation.                                           *)
(***************************************************************************)

\* An operation joins the list its server has found.
LEMMA IssueKeeps ==
  ASSUME ServersIInv, NEW s \in Server, Issue(s)
  PROVE  ServersIInv'
<1> DEFINE w == Winner(s, lists[s])
           e == [dot |-> [site |-> s, n |-> AllocN(s)], list |-> w, by |-> actor[s]]
<1>1. /\ actor[s] # 0 /\ nextN[s] < MaxOps
      /\ entries' = [entries EXCEPT ![s] = @ \union {e}]
      /\ log' = [log EXCEPT ![s] = @ \union {e}]
      /\ nextN' = [nextN EXCEPT ![s] = @ + 1]
      /\ UNCHANGED << actor, lists, restarts >>
  BY DEF Issue
<1>2. w \in lists[s] /\ w \in Nat /\ \A l \in lists[s] : l <= w
  BY <1>1, WinnerIs DEF ServersIInv, TypeOK
<1> HIDE DEF w
<1>3. nextN[s] \in Nat /\ MaxOps \in Nat /\ actor[s] \in Actors
  BY <1>1, ServersAssumption DEF ServersIInv, TypeOK
<1>4. /\ e \in Entry /\ e.dot.site = s /\ e.dot.n = nextN[s] + 1 /\ e.list = w
      /\ e.dot = [site |-> s, n |-> nextN[s] + 1]
  BY <1>2, <1>3 DEF Entry, Dot, AllocN
<1> HIDE DEF e
<1>5. TypeOK'
  BY <1>1, <1>3, <1>4 DEF ServersIInv, TypeOK
<1>6. \A r \in Server :
        /\ entries'[r] = IF r = s THEN entries[r] \union {e} ELSE entries[r]
        /\ log'[r] = IF r = s THEN log[r] \union {e} ELSE log[r]
        /\ nextN'[r] = IF r = s THEN nextN[r] + 1 ELSE nextN[r]
  BY <1>1 DEF ServersIInv, TypeOK
<1>7. Unstarted' /\ ListsCome'
  BY <1>1, <1>2, <1>4, <1>6 DEF ServersIInv, Unstarted, ListsCome
<1>8. ListsBounded'
  BY <1>1 DEF ServersIInv, ListsBounded
<1>9. NumbersBounded'
  BY <1>1, <1>3, <1>4, <1>6 DEF ServersIInv, NumbersBounded
<1>10. \A r \in Server : nextN[r] \in Nat /\ nextN[r] <= nextN'[r] /\ nextN'[r] \in Nat
  <2> SUFFICES ASSUME NEW r \in Server
               PROVE  nextN[r] \in Nat /\ nextN[r] <= nextN'[r] /\ nextN'[r] \in Nat
    OBVIOUS
  <2>1. nextN[r] \in Nat
    BY DEF ServersIInv, TypeOK
  <2>2. nextN'[r] = nextN[r] \/ nextN'[r] = nextN[r] + 1
    BY <1>6
  <2> QED BY <2>1, <2>2
<1>11. NeverReused'
  <2> SUFFICES ASSUME restarts = 0, NEW r \in Server, NEW d \in entries'[r]
               PROVE  /\ d \in entries'[d.dot.site]
                      /\ d.dot.n <= nextN'[d.dot.site]
                      /\ \A f \in entries'[r] : f.dot = d.dot => f = d
    BY <1>1 DEF NeverReused
  <2>1. ASSUME NEW q \in Server, NEW x \in entries[q] PROVE x.dot # e.dot
    <3>1. x.dot.n <= nextN[x.dot.site] /\ x.dot.n \in Nat
      BY <2>1, EntriesTyped DEF ServersIInv, NeverReused
    <3> QED BY <1>3, <1>4, <3>1
  <2>2. CASE d \in entries[r]
    <3>1. /\ d \in entries[d.dot.site]
          /\ d.dot.n <= nextN[d.dot.site]
          /\ \A f \in entries[r] : f.dot = d.dot => f = d
          /\ d.dot.site \in Server /\ d.dot.n \in Nat
      BY <2>2, EntriesTyped DEF ServersIInv, NeverReused
    <3>2. d.dot.n <= nextN'[d.dot.site]
      BY <1>10, <3>1
    <3> QED BY <1>6, <2>1, <2>2, <3>1, <3>2
  <2>3. CASE d = e /\ r = s
    <3>1. nextN'[s] = nextN[s] + 1 /\ d.dot.site = s /\ d.dot.n = nextN[s] + 1
      BY <1>4, <1>6, <2>3
    <3>2. d.dot.n <= nextN'[d.dot.site]
      BY <1>3, <3>1
    <3>3. d \in entries'[d.dot.site]
      BY <1>6, <2>3, <3>1
    <3>4. \A f \in entries'[r] : f.dot = d.dot => f = d
      BY <1>6, <2>1, <2>3
    <3> QED BY <3>2, <3>3, <3>4
  <2> QED BY <1>6, <2>2, <2>3
<1>12. WinningListSurvives'
  <2>1. ASSUME restarts = 0, NEW r \in Server, NEW x \in entries'[r],
               \A q \in Server : \A l \in lists[q] : l <= x.list
        PROVE  x \in log'[r]
    <3>1. CASE x \in entries[r]
      <4>1. x \in log[r]
        BY <2>1, <3>1 DEF ServersIInv, WinningListSurvives, Winning
      <4> QED BY <1>6, <4>1
    <3>2. CASE x \notin entries[r]
      BY <1>6, <2>1, <3>2
    <3> QED BY <3>1, <3>2
  <2> QED BY <1>1, <2>1 DEF WinningListSurvives, Winning
<1>13. MissingOnlyByDot'
  <2>1. ASSUME NEW r \in Server, NEW d \in entries'[r], \A l \in lists[r] : l <= d.list
        PROVE  d.dot \in DotsOf(log'[r])
    <3>1. log[r] \subseteq log'[r]
      BY <1>6
    <3>2. CASE d \in entries[r]
      <4>1. d.dot \in DotsOf(log[r])
        BY <2>1, <3>2 DEF ServersIInv, MissingOnlyByDot
      <4> QED BY <3>1, <4>1 DEF DotsOf
    <3>3. CASE d \notin entries[r]
      <4>1. d \in log'[r]
        BY <1>6, <2>1, <3>3
      <4> QED BY <4>1 DEF DotsOf
    <3> QED BY <3>2, <3>3
  <2>2. ASSUME NEW r \in Server, NEW d \in log'[r], d.dot.site = r
        PROVE  d.dot.n <= nextN'[r]
    <3>1. CASE d \in log[r]
      <4>1. d.dot.n <= nextN[r] /\ d.dot.n \in Nat
        BY <2>2, <3>1, EntriesTyped DEF ServersIInv, MissingOnlyByDot, TypeOK
      <4> QED BY <1>10, <4>1
    <3>2. CASE d = e /\ r = s
      <4>1. nextN'[r] = nextN[s] + 1 /\ d.dot.n = nextN[s] + 1
        BY <1>4, <1>6, <3>2
      <4> QED BY <1>3, <4>1
    <3> QED BY <1>6, <2>2, <3>1, <3>2
  <2> QED BY <1>1, <2>1, <2>2 DEF MissingOnlyByDot
<1> QED BY <1>5, <1>7, <1>8, <1>9, <1>11, <1>12, <1>13 DEF ServersIInv

-----------------------------------------------------------------------------
(***************************************************************************)
(* A server merges what another has and reads its lists again.             *)
(***************************************************************************)

\* A server takes over what a peer has, then reads the list that wins.
LEMMA MergeKeeps ==
  ASSUME ServersIInv, NEW s \in Server, NEW r \in Server, Merge(s, r)
  PROVE  ServersIInv'
<1> DEFINE known == lists[s] \union lists[r]
           es == entries[s] \union entries[r]
           new == {e \in Readable(known, es, s) : e.dot \notin DotsOf(log[s])}
           noted == {nextN[s]} \union {e.dot.n : e \in {x \in new : x.dot.site = s}}
<1>1. /\ actor[s] # 0 /\ actor[r] # 0
      /\ lists' = [lists EXCEPT ![s] = known]
      /\ entries' = [entries EXCEPT ![s] = es]
      /\ UNCHANGED << actor, restarts >>
  BY DEF Merge
<1>2. lists'[s] = known /\ entries'[s] = es
  BY <1>1 DEF ServersIInv, TypeOK
<1>3. log' = [log EXCEPT ![s] = @ \union new] /\ nextN' = [nextN EXCEPT ![s] = Greatest(noted)]
  BY <1>2 DEF Merge, NoteAll
<1>4. new \subseteq es /\ \A e \in new : e.list = Winner(s, known)
  BY DEF Readable
<1>5. es \subseteq Entry /\ known \subseteq Nat
  BY DEF ServersIInv, TypeOK
<1>6. Winner(s, known) \in known /\ \A l \in known : l <= Winner(s, known)
  <2>1. PICK b \in Nat : \A l \in lists[s] : l <= b
    BY DEF ServersIInv, ListsBounded
  <2>2. PICK c \in Nat : \A l \in lists[r] : l <= c
    BY DEF ServersIInv, ListsBounded
  <2>3. \A l \in known : l <= b + c
    BY <1>5, <2>1, <2>2
  <2>4. known # {} /\ b + c \in Nat
    BY <1>1 DEF ServersIInv, ListsBounded
  <2>5. Greatest(known) \in known /\ \A l \in known : l <= Greatest(known)
    BY <1>5, <2>3, <2>4, GreatestIs
  <2> QED BY <2>5 DEF Winner
<1>7. /\ Greatest(noted) \in Nat /\ nextN[s] <= Greatest(noted) /\ Greatest(noted) <= MaxOps
      /\ \A e \in new : e.dot.site = s => e.dot.n <= Greatest(noted)
  <2>1. \A e \in new : e.dot.n \in Nat /\ e.dot.n <= MaxOps
    BY <1>4, EntriesTyped DEF ServersIInv, NumbersBounded
  <2>2. nextN[s] \in Nat /\ nextN[s] <= MaxOps /\ MaxOps \in Nat
    BY ServersAssumption DEF ServersIInv, TypeOK, NumbersBounded
  <2>3. noted \in SUBSET Nat /\ noted # {} /\ \A n \in noted : n <= MaxOps
    BY <2>1, <2>2
  <2>4. Greatest(noted) \in noted /\ \A n \in noted : n <= Greatest(noted)
    BY <2>2, <2>3, GreatestIs
  <2>5. nextN[s] \in noted /\ \A e \in new : e.dot.site = s => e.dot.n \in noted
    OBVIOUS
  <2> HIDE DEF noted
  <2> QED BY <2>3, <2>4, <2>5
<1> HIDE DEF known, es, new, noted
<1>8. TypeOK'
  <2>1. log' \in [Server -> SUBSET Entry] /\ nextN' \in [Server -> Nat]
    BY <1>3, <1>4, <1>5, <1>7 DEF ServersIInv, TypeOK
  <2>2. lists' \in [Server -> SUBSET Nat] /\ entries' \in [Server -> SUBSET Entry]
    BY <1>1, <1>5 DEF ServersIInv, TypeOK
  <2>3. \A q \in Server : log'[q] \subseteq entries'[q]
    BY <1>1, <1>3, <1>4 DEF ServersIInv, TypeOK, es
  <2> QED BY <1>1, <2>1, <2>2, <2>3 DEF ServersIInv, TypeOK
<1>9. \A q \in Server :
        /\ lists'[q] = IF q = s THEN known ELSE lists[q]
        /\ entries'[q] = IF q = s THEN es ELSE entries[q]
        /\ log'[q] = IF q = s THEN log[q] \union new ELSE log[q]
        /\ nextN'[q] = IF q = s THEN Greatest(noted) ELSE nextN[q]
  BY <1>1, <1>3 DEF ServersIInv, TypeOK
<1>10. /\ \A e \in es : e \in entries[s] \/ e \in entries[r]
       /\ entries[s] \subseteq es /\ entries[r] \subseteq es
       /\ lists[s] \subseteq known /\ lists[r] \subseteq known
  BY DEF es, known
<1>11. Unstarted' /\ ListsCome'
  <2>1. Unstarted'
    BY <1>1, <1>9 DEF ServersIInv, Unstarted
  <2>2. ASSUME NEW q \in Server, NEW e \in entries'[q] PROVE e.list \in lists'[q]
    <3>1. CASE q # s
      BY <1>9, <2>2, <3>1 DEF ServersIInv, ListsCome
    <3>2. CASE q = s
      <4>1. e \in entries[s] \/ e \in entries[r]
        BY <1>9, <1>10, <2>2, <3>2
      <4>2. e.list \in lists[s] \/ e.list \in lists[r]
        BY <4>1 DEF ServersIInv, ListsCome
      <4> QED BY <1>9, <1>10, <3>2, <4>2
    <3> QED BY <3>1, <3>2
  <2> QED BY <2>1, <2>2 DEF ListsCome
<1>12. ListsBounded'
  BY <1>1, <1>5, <1>6, <1>9 DEF ServersIInv, ListsBounded
<1>13. NumbersBounded'
  BY <1>7, <1>9, <1>10 DEF ServersIInv, NumbersBounded
<1>14. \A q \in Server : nextN[q] \in Nat /\ nextN[q] <= nextN'[q] /\ nextN'[q] \in Nat
  <2> SUFFICES ASSUME NEW q \in Server
               PROVE  nextN[q] \in Nat /\ nextN[q] <= nextN'[q] /\ nextN'[q] \in Nat
    OBVIOUS
  <2>1. nextN[q] \in Nat
    BY DEF ServersIInv, TypeOK
  <2>2. nextN'[q] = nextN[q] \/ (q = s /\ nextN'[q] = Greatest(noted))
    BY <1>9
  <2> QED BY <1>7, <2>1, <2>2
<1>15. NeverReused'
  <2> SUFFICES ASSUME restarts = 0, NEW q \in Server, NEW d \in entries'[q]
               PROVE  /\ d \in entries'[d.dot.site]
                      /\ d.dot.n <= nextN'[d.dot.site]
                      /\ \A f \in entries'[q] : f.dot = d.dot => f = d
    BY <1>1 DEF NeverReused
  <2>1. ASSUME NEW p \in Server, NEW x \in entries'[p]
        PROVE  /\ x \in entries[x.dot.site] /\ x.dot.n <= nextN[x.dot.site]
               /\ x.dot.site \in Server /\ x.dot.n \in Nat
    <3>1. PICK p2 \in Server : x \in entries[p2]
      BY <1>9, <1>10, <2>1
    <3> QED BY <3>1, EntriesTyped DEF ServersIInv, NeverReused
  <2>2. d \in entries'[d.dot.site] /\ d.dot.n <= nextN'[d.dot.site]
    <3>1. /\ d \in entries[d.dot.site] /\ d.dot.n <= nextN[d.dot.site]
          /\ d.dot.site \in Server /\ d.dot.n \in Nat
      BY <2>1
    <3>2. d \in entries'[d.dot.site]
      BY <1>9, <1>10, <3>1
    <3>3. d.dot.n <= nextN'[d.dot.site]
      BY <1>14, <3>1
    <3> QED BY <3>2, <3>3
  <2>3. \A f \in entries'[q] : f.dot = d.dot => f = d
    BY <2>1 DEF ServersIInv, NeverReused
  <2> QED BY <2>2, <2>3
<1>16. ASSUME NEW q \in Server, NEW e \in entries'[q], \A l \in lists'[q] : l <= e.list
       PROVE  e.dot \in DotsOf(log'[q])
  <2>1. CASE q # s
    BY <1>9, <1>16, <2>1 DEF ServersIInv, MissingOnlyByDot
  <2>2. CASE q = s
    <3>1. e.list \in known /\ \A l \in known : l <= e.list
      BY <1>9, <1>11, <1>16, <2>2 DEF ListsCome
    <3>2. e.list = Winner(s, known)
      <4>1. /\ Winner(s, known) \in Nat /\ e.list \in Nat
            /\ Winner(s, known) <= e.list /\ e.list <= Winner(s, known)
        BY <1>5, <1>6, <3>1
      <4> HIDE DEF known
      <4> DEFINE v == Winner(s, known)
                 l == e.list
      <4>2. v \in Nat /\ l \in Nat /\ v <= l /\ l <= v
        BY <4>1
      <4> HIDE DEF v, l
      <4>3. l = v
        BY <4>2
      <4> QED BY <4>3 DEF v, l
    <3>3. e \in new \/ e.dot \in DotsOf(log[s])
      BY <1>9, <1>16, <2>2, <3>2 DEF new, Readable
    <3> QED BY <1>9, <2>2, <3>3 DEF DotsOf
  <2> QED BY <2>1, <2>2
<1>17. MissingOnlyByDot'
  <2>1. ASSUME NEW q \in Server, NEW d \in log'[q], d.dot.site = q
        PROVE  d.dot.n <= nextN'[q]
    <3>1. CASE d \in log[q]
      <4>1. d.dot.n <= nextN[q] /\ d.dot.n \in Nat
        BY <2>1, <3>1, EntriesTyped DEF ServersIInv, MissingOnlyByDot, TypeOK
      <4> QED BY <1>14, <4>1
    <3>2. CASE q = s /\ d \in new
      BY <1>7, <1>9, <2>1, <3>2
    <3> QED BY <1>9, <2>1, <3>1, <3>2
  <2> QED BY <1>16, <2>1 DEF MissingOnlyByDot
<1>18. WinningListSurvives'
  <2> SUFFICES ASSUME restarts = 0, NEW q \in Server, NEW e \in entries'[q], Winning(e)'
               PROVE  e \in log'[q]
    BY <1>1 DEF WinningListSurvives
  <2>1. e.dot \in DotsOf(log'[q])
    BY <1>16 DEF Winning
  <2>2. PICK f \in log'[q] : f.dot = e.dot
    BY <2>1 DEF DotsOf
  <2>3. f \in entries'[q]
    BY <1>8 DEF TypeOK
  <2> QED BY <1>1, <1>15, <2>2, <2>3 DEF NeverReused
<1> QED BY <1>8, <1>11, <1>12, <1>13, <1>15, <1>17, <1>18 DEF ServersIInv

-----------------------------------------------------------------------------
(***************************************************************************)
(* The invariant and what follows from it.                                 *)
(***************************************************************************)

\* The invariant at the start.
LEMMA InitServersIInv == Init => ServersIInv
<1> SUFFICES ASSUME Init PROVE ServersIInv
  OBVIOUS
<1>1. TypeOK
  BY DEF Init, TypeOK
<1>2. ListsBounded /\ NumbersBounded
  BY ServersAssumption DEF Init, ListsBounded, NumbersBounded
<1> QED
  BY <1>1, <1>2 DEF Init, ServersIInv, Unstarted, ListsCome, NeverReused,
                    WinningListSurvives, MissingOnlyByDot

\* Every step keeps the invariant.
LEMMA NextServersIInv == ServersIInv /\ [Next]_vars => ServersIInv'
<1> SUFFICES ASSUME ServersIInv, [Next]_vars PROVE ServersIInv'
  OBVIOUS
<1>1. ASSUME NEW s \in Server, NEW a \in Actors, Start(s, a) PROVE ServersIInv'
  BY <1>1, BeginKeeps DEF Start
<1>2. ASSUME NEW s \in Server, NEW a \in Actors, Restart(s, a) PROVE ServersIInv'
  BY <1>2, BeginKeeps DEF Restart
<1>3. ASSUME NEW s \in Server, Issue(s) PROVE ServersIInv'
  BY <1>3, IssueKeeps
<1>4. ASSUME NEW s \in Server, NEW r \in Server, Merge(s, r) PROVE ServersIInv'
  BY <1>4, MergeKeeps
<1>5. CASE UNCHANGED vars
  BY <1>5 DEF vars, ServersIInv, TypeOK, Unstarted, ListsBounded, NumbersBounded, ListsCome,
              NeverReused, WinningListSurvives, Winning, MissingOnlyByDot
<1> QED BY <1>1, <1>2, <1>3, <1>4, <1>5 DEF Next

\* The invariant behind the promises about lists and restarts.
THEOREM ServersInvariance == Spec => []ServersIInv
BY InitServersIInv, NextServersIInv, PTL DEF Spec

\* Documents, logs and counters keep their types, and State.log has nothing
\* that is not in the server's document.
THEOREM ServersTypeCorrect == Spec => []TypeOK
<1>1. ServersIInv => TypeOK
  BY DEF ServersIInv
<1> QED BY <1>1, ServersInvariance, PTL

\* Until a server is restarted, an operation on the list that wins against all
\* others is in the log of every server its document has come to.
THEOREM WinningListIsRead == Spec => []WinningListSurvives
<1>1. ServersIInv => WinningListSurvives
  BY DEF ServersIInv
<1> QED BY <1>1, ServersInvariance, PTL

\* With restarts too, an operation on the list a server reads is in its log
\* unless another has its dot, and its counter is not behind its own operations.
THEOREM OnlyDotsHide == Spec => []MissingOnlyByDot
<1>1. ServersIInv => MissingOnlyByDot
  BY DEF ServersIInv
<1> QED BY <1>1, ServersInvariance, PTL
=============================================================================
