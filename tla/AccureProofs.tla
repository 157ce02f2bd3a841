------------------------------ MODULE AccureProofs ------------------------------
(***************************************************************************)
(* Proofs about Accure for every set of sites, strategy, command and       *)
(* bound.                                                                  *)
(***************************************************************************)
EXTENDS AccureDelivery, NumberFacts, SequenceTheorems, TLAPS

-----------------------------------------------------------------------------
(***************************************************************************)
(* Facts about the operators.                                              *)
(***************************************************************************)

\* Appending an operation to a log adds it to the log's operations.
LEMMA RangeAppend ==
  ASSUME NEW S, NEW seq \in Seq(S), NEW x \in S
  PROVE  Range(Append(seq, x)) = Range(seq) \union {x}
<1>1. /\ Append(seq, x) \in Seq(S)
      /\ Len(Append(seq, x)) = Len(seq) + 1
      /\ \A i \in 1 .. Len(seq) : Append(seq, x)[i] = seq[i]
      /\ Append(seq, x)[Len(seq) + 1] = x
  BY AppendProperties
<1>2. DOMAIN seq = 1 .. Len(seq) /\ DOMAIN Append(seq, x) = 1 .. Len(seq) + 1
  BY <1>1
<1>3. Len(seq) \in Nat
  OBVIOUS
<1>4. \A i \in 1 .. Len(seq) + 1 : i \in 1 .. Len(seq) \/ i = Len(seq) + 1
  BY <1>3
<1> QED BY <1>1, <1>2, <1>3, <1>4 DEF Range

\* The dots of one operation more.
LEMMA DotsOfAdded ==
  ASSUME NEW ops, NEW o
  PROVE  DotsOf(ops \union {o}) = DotsOf(ops) \union {o.dot}
BY DEF DotsOf

\* rebuild_validity enters operations of the log and nothing else.
LEMMA RebuildInLog ==
  ASSUME NEW pol, NEW docs, NEW V, NEW strategy
  PROVE  RebuildValidity(pol, docs, V, strategy) \subseteq DotsOf(Range(pol)) \union DotsOf(docs)
BY DEF RebuildValidity, DotsOf

-----------------------------------------------------------------------------
(***************************************************************************)
(* What one step changes.                                                  *)
(***************************************************************************)

\* Site s enters dot d in its log, and no other site learns anything.
Learns(s, d) ==
  /\ \A r \in Site : Seen(r)' = IF r = s THEN Seen(r) \union {d} ELSE Seen(r)
  /\ nextN' \in [Site -> [Site -> Nat]]
  /\ \A r, q \in Site :
       nextN'[r][q] = IF r = s /\ q = d.site /\ d.n > nextN[r][q] THEN d.n ELSE nextN[r][q]

\* What the fields of an entry are.
LEMMA EntriesTyped ==
  ASSUME TypeOK
  PROVE  /\ \A e \in policyLog : e.op \in PolicyOp /\ e.op.dot \in Dot /\ e.past \subseteq Dot
         /\ \A e \in docLog : e.op \in DocOp /\ e.op.dot \in Dot /\ e.past \subseteq Dot
BY DEF TypeOK, PolicyEntry, DocEntry, PolicyOp, DocOp

\* What a site holds are dots of operations.
LEMMA SeenTyped ==
  ASSUME TypeOK
  PROVE  \A s \in Site : Seen(s) \subseteq Dot
<1> SUFFICES ASSUME NEW s \in Site, NEW d \in Seen(s) PROVE d \in Dot
  OBVIOUS
<1>1. CASE d \in DotsOf(documents[s])
  BY <1>1 DEF TypeOK, DotsOf, DocOp
<1>2. CASE d \in DotsOf(Range(policies[s]))
  <2>1. Range(policies[s]) \subseteq PolicyOp
    BY RangeOfSeq DEF TypeOK
  <2> QED BY <1>2, <2>1 DEF DotsOf, PolicyOp
<1> QED BY <1>1, <1>2 DEF Seen, PolicyDots

(***************************************************************************)
(* What note_n finds in the counters: what they were, or, when the site    *)
(* issues the operation, that with the number alloc_n has stored.          *)
(***************************************************************************)
CountersFor(s, d, counters) ==
  \/ counters = nextN
  \/ counters = Allocated(s) /\ d.site = s /\ d.n = AllocN(s)

\* What note_n leaves in the counters: the named one does not fall, the others stay.
LEMMA NoteNResult ==
  ASSUME TypeOK, NEW s \in Site, NEW d \in Dot, NEW counters,
         CountersFor(s, d, counters), NoteN(s, d, counters)
  PROVE  /\ nextN' \in [Site -> [Site -> Nat]]
         /\ \A r, q \in Site :
              nextN'[r][q] =
                IF r = s /\ q = d.site /\ d.n > nextN[r][q] THEN d.n ELSE nextN[r][q]
<1>1. d.site \in Site /\ d.n \in Nat
  BY DEF Dot
<1>2. nextN \in [Site -> [Site -> Nat]]
  BY DEF TypeOK
<1>3. CASE counters = nextN
  BY <1>1, <1>2, <1>3 DEF NoteN
<1>4. CASE counters = Allocated(s) /\ d.site = s /\ d.n = AllocN(s)
  <2>1. counters = [nextN EXCEPT ![s][s] = d.n] /\ d.n > nextN[s][s]
    BY <1>2, <1>4 DEF Allocated, AllocN
  <2>2. counters \in [Site -> [Site -> Nat]] /\ counters[s][s] = d.n
    BY <1>1, <1>2, <2>1
  <2>3. nextN' = [counters EXCEPT ![s][s] = counters[s][s]]
    BY <1>1, <1>4, <2>2 DEF NoteN
  <2> QED BY <1>1, <1>2, <1>4, <2>1, <2>2, <2>3
<1> QED BY <1>3, <1>4 DEF CountersFor

\* What effect_policy does to the logs, register and counters.
LEMMA EffectPolicyResult ==
  ASSUME TypeOK, NEW s \in Site, NEW p \in PolicyOp, NEW counters,
         CountersFor(s, p.dot, counters), EffectPolicy(s, p, counters)
  PROVE  /\ policies' \in [Site -> Seq(PolicyOp)]
         /\ documents' = documents
         /\ \A r \in Site : policies'[r] = IF r = s THEN Append(policies[r], p) ELSE policies[r]
         /\ \A r \in Site : Range(policies'[r]) =
              IF r = s THEN Range(policies[r]) \union {p} ELSE Range(policies[r])
         /\ Learns(s, p.dot)
         /\ valid' \in [Site -> SUBSET Dot]
         /\ \A r \in Site : valid'[r] \subseteq Seen(r)'
<1>1. /\ policies \in [Site -> Seq(PolicyOp)]
      /\ documents \in [Site -> SUBSET DocOp]
      /\ valid \in [Site -> SUBSET Dot]
      /\ \A r \in Site : valid[r] \subseteq Seen(r)
      /\ p.dot \in Dot
  BY DEF TypeOK, PolicyOp
<1>2. \A r \in Site : policies'[r] = IF r = s THEN Append(policies[r], p) ELSE policies[r]
  BY <1>1 DEF EffectPolicy
<1>3. policies' \in [Site -> Seq(PolicyOp)]
  BY <1>1, AppendProperties DEF EffectPolicy
<1>4. documents' = documents
  BY DEF EffectPolicy
<1>5. \A r \in Site : Range(policies'[r]) =
        IF r = s THEN Range(policies[r]) \union {p} ELSE Range(policies[r])
  <2>1. policies[s] \in Seq(PolicyOp)
    BY <1>1
  <2>2. Range(Append(policies[s], p)) = Range(policies[s]) \union {p}
    BY <2>1, RangeAppend
  <2> QED BY <1>2, <2>2
<1>6. \A r \in Site : Seen(r)' = IF r = s THEN Seen(r) \union {p.dot} ELSE Seen(r)
  <2> TAKE r \in Site
  <2>1. Seen(r)' = DotsOf(Range(policies'[r])) \union DotsOf(documents[r])
    BY <1>4 DEF Seen, PolicyDots
  <2>2. CASE r = s
    <3>1. DotsOf(Range(policies'[r])) = DotsOf(Range(policies[r])) \union {p.dot}
      BY <1>5, <2>2, DotsOfAdded
    <3> QED BY <2>1, <2>2, <3>1 DEF Seen, PolicyDots
  <2>3. CASE r # s
    BY <1>5, <2>1, <2>3 DEF Seen, PolicyDots
  <2> QED BY <2>2, <2>3
<1>7. Learns(s, p.dot)
  <2>1. NoteN(s, p.dot, counters)
    BY DEF EffectPolicy
  <2> QED BY <1>1, <1>6, <2>1, NoteNResult DEF Learns
<1>8. \A r \in Site : Seen(r)' \subseteq Dot
  BY <1>1, <1>6, SeenTyped
<1>9. \A r \in Site : valid'[r] =
        IF r = s THEN RebuildValidity(Append(policies[s], p), documents[s], valid[s], Strategy[s])
                 ELSE valid[r]
  BY <1>1 DEF EffectPolicy
<1>10. valid'[s] \subseteq Seen(s)'
  <2>1. valid'[s] \subseteq DotsOf(Range(Append(policies[s], p))) \union DotsOf(documents[s])
    BY <1>9, RebuildInLog
  <2> QED BY <2>1, <1>2, <1>4 DEF Seen, PolicyDots
<1>11. \A r \in Site : valid'[r] \subseteq Seen(r)'
  BY <1>1, <1>6, <1>9, <1>10
<1>12. valid' \in [Site -> SUBSET Dot]
  <2>1. DOMAIN valid' = Site /\ valid' = [r \in Site |-> valid'[r]]
    BY <1>1 DEF EffectPolicy
  <2> QED BY <2>1, <1>8, <1>11
<1> QED BY <1>2, <1>3, <1>4, <1>5, <1>7, <1>11, <1>12

\* What effect_document does to them.
LEMMA EffectDocumentResult ==
  ASSUME TypeOK, NEW s \in Site, NEW d \in DocOp, NEW counters,
         CountersFor(s, d.dot, counters), EffectDocument(s, d, counters)
  PROVE  /\ documents' \in [Site -> SUBSET DocOp]
         /\ policies' = policies
         /\ \A r \in Site : documents'[r] =
              IF r = s THEN documents[r] \union {d} ELSE documents[r]
         /\ Learns(s, d.dot)
<1>1. documents \in [Site -> SUBSET DocOp] /\ d.dot \in Dot
  BY DEF TypeOK, DocOp
<1>2. policies' = policies
  BY DEF EffectDocument
<1>3. \A r \in Site : documents'[r] = IF r = s THEN documents[r] \union {d} ELSE documents[r]
  BY <1>1 DEF EffectDocument
<1>4. documents' \in [Site -> SUBSET DocOp]
  BY <1>1 DEF EffectDocument
<1>5. \A r \in Site : Seen(r)' = IF r = s THEN Seen(r) \union {d.dot} ELSE Seen(r)
  <2> TAKE r \in Site
  <2>1. Seen(r)' = DotsOf(Range(policies[r])) \union DotsOf(documents'[r])
    BY <1>2 DEF Seen, PolicyDots
  <2>2. CASE r = s
    <3>1. DotsOf(documents'[r]) = DotsOf(documents[r]) \union {d.dot}
      BY <1>3, <2>2, DotsOfAdded
    <3> QED BY <2>1, <2>2, <3>1 DEF Seen, PolicyDots
  <2>3. CASE r # s
    BY <1>3, <2>1, <2>3 DEF Seen, PolicyDots
  <2> QED BY <2>2, <2>3
<1>6. NoteN(s, d.dot, counters)
  BY DEF EffectDocument
<1> QED BY <1>1, <1>2, <1>3, <1>4, <1>5, <1>6, NoteNResult DEF Learns

-----------------------------------------------------------------------------
(***************************************************************************)
(* The parts of the invariant that do not tell policy from document        *)
(* operations, when a site issues one and when it receives one.            *)
(***************************************************************************)

\* alloc_n: the next number of a site is not in use.
LEMMA FreshDot ==
  ASSUME IInv, NEW s \in Site
  PROVE  /\ [site |-> s, n |-> AllocN(s)] \in Dot
         /\ [site |-> s, n |-> AllocN(s)] \notin AllDots
         /\ \A e \in AllEntries : e.op.dot.site = s => e.op.dot.n < AllocN(s)
<1>1. nextN[s][s] \in Nat
  BY DEF IInv, TypeOK
<1>2. [site |-> s, n |-> AllocN(s)] \in Dot
  BY <1>1 DEF AllocN, Dot
<1>3. \A e \in AllEntries : e.op.dot.site = s => e.op.dot.n < AllocN(s)
  <2> SUFFICES ASSUME NEW e \in AllEntries, e.op.dot.site = s PROVE e.op.dot.n < AllocN(s)
    OBVIOUS
  <2>1. e.op.dot \in Seen(s) /\ e.op.dot \in Dot
    BY EntriesTyped DEF IInv, OwnKept, AllEntries, Seen, PolicyDots, DotsOf
  <2>2. e.op.dot.n <= nextN[s][s] /\ e.op.dot.n \in Nat
    BY <2>1 DEF IInv, Causality, Counted, Dot
  <2> QED BY <1>1, <2>2 DEF AllocN
<1>4. [site |-> s, n |-> AllocN(s)] \notin AllDots
  BY <1>1, <1>3 DEF AllDots, AllEntries, AllocN
<1> QED BY <1>2, <1>3, <1>4

\* No counter falls behind when an operation joins a log.
LEMMA CountedKept ==
  ASSUME IInv, NEW s \in Site, NEW d \in Dot, Learns(s, d)
  PROVE  Counted'
<1> SUFFICES ASSUME NEW r \in Site, NEW x \in Seen(r)' PROVE x.n <= nextN'[r][x.site]
  BY DEF Counted
<1>1. /\ nextN \in [Site -> [Site -> Nat]]
      /\ nextN' \in [Site -> [Site -> Nat]]
      /\ \A q \in Site : nextN'[r][q] =
           IF r = s /\ q = d.site /\ d.n > nextN[r][q] THEN d.n ELSE nextN[r][q]
  BY DEF Learns, IInv, TypeOK
<1>2. CASE x \in Seen(r)
  <2>1. x.n <= nextN[r][x.site] /\ x.n \in Nat /\ x.site \in Site
    BY <1>2, SeenTyped DEF IInv, Causality, Counted, Dot
  <2>2. nextN[r][x.site] <= nextN'[r][x.site]
    BY <1>1, <2>1 DEF Dot
  <2> QED BY <1>1, <2>1, <2>2
<1>3. CASE x = d /\ r = s
  <2>1. d.site \in Site /\ d.n \in Nat /\ nextN[s][d.site] \in Nat
    BY <1>1 DEF Dot
  <2> QED BY <1>1, <1>3, <2>1
<1> QED BY <1>2, <1>3 DEF Learns

\* Appending an entry with what its author holds as its past.
LEMMA CausalityOnIssue ==
  ASSUME IInv, NEW s \in Site, NEW e,
         e.op.dot = [site |-> s, n |-> AllocN(s)],
         e.past = Seen(s),
         AllEntries' = AllEntries \union {e},
         Learns(s, e.op.dot)
  PROVE  Causality'
<1> DEFINE d == e.op.dot
<1>1. /\ d \in Dot
      /\ d \notin AllDots
      /\ \A f \in AllEntries : f.op.dot.site = s => f.op.dot.n < AllocN(s)
  BY FreshDot
<1>2. AllDots' = AllDots \union {d}
  BY DEF AllDots, AllEntries
<1>3. \A r \in Site : Seen(r) \subseteq AllDots
  BY DEF IInv, Recorded, Seen, PolicyDots, DotsOf, AllDots
<1>4. \A f \in AllEntries : f.op.dot \in AllDots /\ f.op.dot \in Dot /\ f.past \subseteq AllDots
  BY EntriesTyped DEF IInv, Causality, PastKnown, AllDots, AllEntries
<1>5. \A r \in Site : Seen(r)' = IF r = s THEN Seen(r) \union {d} ELSE Seen(r)
  BY DEF Learns
<1>6. Counted'
  BY <1>1, CountedKept
<1>7. DotsUnique'
  BY <1>1, <1>4 DEF IInv, Causality, DotsUnique, AllEntries
<1>8. PastKnown'
  BY <1>2, <1>3, <1>4 DEF PastKnown
<1>9. PastClosed'
  <2> SUFFICES ASSUME NEW f \in AllEntries', NEW g \in AllEntries', g.op.dot \in f.past
               PROVE  g.past \subseteq f.past
    BY DEF PastClosed
  <2>1. g \in AllEntries
    BY <1>1, <1>3, <1>4
  <2>2. CASE f \in AllEntries
    BY <2>1, <2>2 DEF IInv, Causality, PastClosed
  <2>3. CASE f = e
    BY <2>1, <2>3 DEF IInv, Causality, SeenClosed
  <2> QED BY <2>2, <2>3
<1>10. SeenClosed'
  <2> SUFFICES ASSUME NEW r \in Site, NEW f \in AllEntries', f.op.dot \in Seen(r)'
               PROVE  f.past \subseteq Seen(r)'
    BY DEF SeenClosed
  <2>1. CASE f \in AllEntries
    BY <1>1, <1>4, <1>5, <2>1 DEF IInv, Causality, SeenClosed
  <2>2. CASE f = e
    BY <1>1, <1>3, <1>5, <2>2
  <2> QED BY <2>1, <2>2
<1>11. NumbersFollowPast'
  <2> SUFFICES ASSUME NEW f \in AllEntries', NEW g \in AllEntries',
                      f.op.dot.site = g.op.dot.site, f.op.dot.n < g.op.dot.n
               PROVE  f.op.dot \in g.past
    BY DEF NumbersFollowPast
  <2>1. CASE f \in AllEntries /\ g \in AllEntries
    BY <2>1 DEF IInv, Causality, NumbersFollowPast
  <2>2. CASE f \in AllEntries /\ g = e
    BY <2>2 DEF IInv, OwnKept, AllEntries, Seen, PolicyDots, DotsOf
  <2>3. CASE f = e
    <3>1. d.n \in Nat /\ d.n = AllocN(s) /\ d.site = s
      BY <1>1 DEF Dot
    <3>2. g.op.dot.n \in Nat /\ ~(d.n < g.op.dot.n)
      BY <1>1, <1>4, <2>3, <3>1 DEF Dot
    <3> QED BY <2>3, <3>2
  <2> QED BY <2>1, <2>2, <2>3
<1> QED BY <1>6, <1>7, <1>8, <1>9, <1>10, <1>11 DEF Causality

\* Taking in an entry whose past is held.
LEMMA CausalityOnReceive ==
  ASSUME IInv, NEW s \in Site, NEW e \in AllEntries,
         Deliverable(s, e),
         UNCHANGED << policyLog, docLog >>,
         Learns(s, e.op.dot)
  PROVE  Causality'
<1>1. AllEntries' = AllEntries /\ AllDots' = AllDots
  BY DEF AllEntries, AllDots
<1>2. e.op.dot \in Dot /\ e.past \subseteq Seen(s)
  BY EntriesTyped DEF IInv, AllEntries, Deliverable
<1>3. \A r \in Site : Seen(r)' = IF r = s THEN Seen(r) \union {e.op.dot} ELSE Seen(r)
  BY DEF Learns
<1>4. Counted'
  BY <1>2, CountedKept
<1>5. DotsUnique' /\ PastKnown' /\ PastClosed' /\ NumbersFollowPast'
  BY <1>1 DEF IInv, Causality, DotsUnique, PastKnown, PastClosed, NumbersFollowPast, AllEntries
<1>6. SeenClosed'
  <2> SUFFICES ASSUME NEW r \in Site, NEW f \in AllEntries, f.op.dot \in Seen(r)'
               PROVE  f.past \subseteq Seen(r)'
    BY <1>1 DEF SeenClosed
  <2>1. CASE f.op.dot \in Seen(r)
    BY <1>3, <2>1 DEF IInv, Causality, SeenClosed
  <2>2. CASE r = s /\ f.op.dot = e.op.dot
    <3>1. f = e
      BY <2>2 DEF IInv, Causality, DotsUnique, AllEntries
    <3> QED BY <1>2, <1>3, <2>2, <3>1
  <2> QED BY <1>3, <2>1, <2>2
<1> QED BY <1>4, <1>5, <1>6 DEF Causality

-----------------------------------------------------------------------------
(***************************************************************************)
(* What a new operation records.                                           *)
(***************************************************************************)

\* A dot of an edit that a site has seen is that of an edit in its log.
LEMMA SeenDocument ==
  ASSUME IInv, NEW s \in Site, NEW e \in docLog, e.op.dot \in Seen(s)
  PROVE  e.op \in documents[s]
<1>1. CASE e.op.dot \in PolicyDots(s)
  <2>1. PICK f \in policyLog : f.op.dot = e.op.dot
    BY <1>1 DEF IInv, Recorded, PolicyDots, DotsOf
  <2> QED BY <2>1 DEF IInv, KindsApart
<1>2. CASE e.op.dot \in DotsOf(documents[s])
  <2>1. PICK f \in docLog : f.op.dot = e.op.dot /\ f.op \in documents[s]
    BY <1>2 DEF IInv, Recorded, DotsOf
  <2> QED BY <2>1 DEF IInv, Causality, DotsUnique
<1> QED BY <1>1, <1>2 DEF Seen

\* A policy operation whose dot a site holds is in its log.
LEMMA SeenPolicy ==
  ASSUME IInv, NEW s \in Site, NEW e \in policyLog, e.op.dot \in Seen(s)
  PROVE  e.op \in Range(policies[s])
<1>1. CASE e.op.dot \in DotsOf(documents[s])
  <2>1. PICK f \in docLog : f.op.dot = e.op.dot
    BY <1>1 DEF IInv, Recorded, DotsOf
  <2> QED BY <2>1 DEF IInv, KindsApart
<1>2. CASE e.op.dot \in PolicyDots(s)
  <2>1. PICK f \in policyLog : f.op.dot = e.op.dot /\ f.op \in Range(policies[s])
    BY <1>2 DEF IInv, Recorded, PolicyDots, DotsOf
  <2> QED BY <2>1 DEF IInv, Causality, DotsUnique
<1> QED BY <1>1, <1>2 DEF Seen

\* last_dot_for_write_tuple returns the last edit of the target in the log.
LEMMA LastDotIsLast ==
  ASSUME IInv, NEW s \in Site, NEW r \in Site
  PROVE  LET last == LastDotForWriteTuple(s, r)
         IN  /\ last \in Nat
             /\ last # 0 => last \in SeenDocNumbers(s, r)
             /\ \A n \in SeenDocNumbers(s, r) : n <= last
<1>1. SeenDocNumbers(s, r) \subseteq Nat
  BY DEF SeenDocNumbers, IInv, TypeOK, DocOp, Dot
<1>2. CASE SeenDocNumbers(s, r) = {}
  BY <1>2 DEF LastDotForWriteTuple
<1>3. CASE SeenDocNumbers(s, r) # {}
  <2>1. nextN[s][r] \in Nat
    BY DEF IInv, TypeOK
  <2>2. \A n \in SeenDocNumbers(s, r) : n <= nextN[s][r]
    BY DEF SeenDocNumbers, IInv, Causality, Counted, Seen, DotsOf
  <2>3. \E m \in SeenDocNumbers(s, r) : \A n \in SeenDocNumbers(s, r) : n <= m
    BY <1>1, <1>3, <2>1, <2>2, MaxExists
  <2> QED BY <1>1, <1>3, <2>3 DEF LastDotForWriteTuple
<1> QED BY <1>2, <1>3

\* current_top_level_deps returns valid policy operations on the tuple: a
\* graph has no node that is not in the log.
LEMMA TopLevelDeps ==
  ASSUME IInv, NEW s \in Site, NEW t
  PROVE  /\ CurrentTopLevelDeps(s, t) \subseteq Dot
         /\ \A x \in CurrentTopLevelDeps(s, t) :
              \E p \in PoliciesOn(policies[s], t) : p.dot = x
<1>1. CurrentTopLevelDeps(s, t) \subseteq Dot
  BY DEF CurrentTopLevelDeps, IInv, TypeOK
<1>2. CurrentTopLevelDeps(s, t) \subseteq DagOf(policies[s], t).nodes
  BY DEF CurrentTopLevelDeps, AtLevel
<1>3. ASSUME NEW x \in DagOf(policies[s], t).nodes
      PROVE  \E p \in PoliciesOn(policies[s], t) : p.dot = x
  <2>1. CASE x \in DotsOf(PoliciesOn(policies[s], t))
    BY <2>1 DEF DotsOf
  <2>2. CASE \E q \in PoliciesOn(policies[s], t) : x \in q.deps
    <3>1. PICK q \in PoliciesOn(policies[s], t) : x \in q.deps
      BY <2>2
    <3>2. PICK i \in DOMAIN policies[s] : policies[s][i] = q
      BY DEF PoliciesOn, Range
    <3>3. PICK j \in 1 .. i - 1 : /\ policies[s][j].dot = x
                                  /\ TupleOf(policies[s][j]) = TupleOf(policies[s][i])
      BY <3>1, <3>2 DEF IInv, DepsDelivered
    <3>4. j \in DOMAIN policies[s]
      <4>1. policies[s] \in Seq(PolicyOp)
        BY DEF IInv, TypeOK
      <4> QED BY <3>2, <3>3, <4>1
    <3> QED BY <3>1, <3>2, <3>3, <3>4 DEF PoliciesOn, Range
  <2> QED BY <1>3, <2>1, <2>2 DEF DagOf
<1> QED BY <1>1, <1>2, <1>3

\* The operation update_policy makes is one.
LEMMA NewPolicyOpTyped ==
  ASSUME IInv, NEW s \in Site, NEW t \in AccessTuple, NEW e \in Effect
  PROVE  NewPolicyOp(s, t, e) \in PolicyOp
<1>1. t.site \in Site /\ t.right \in Right
  BY DEF AccessTuple
<1>2. LastDotForWriteTuple(s, t.site) \in Nat
  BY <1>1, LastDotIsLast
<1>3. DeriveMissingDots(s, t.site) \subseteq Dot
  BY <1>1, <1>2 DEF DeriveMissingDots, Dot
<1>4. [site |-> s, n |-> AllocN(s)] \in Dot /\ CurrentTopLevelDeps(s, t) \subseteq Dot
  BY FreshDot, TopLevelDeps
<1> QED BY <1>1, <1>2, <1>3, <1>4 DEF NewPolicyOp, PolicyOp

\* The operation update_document makes is one.
LEMMA NewDocOpTyped ==
  ASSUME IInv, NEW s \in Site
  PROVE  NewDocOp(s) \in DocOp
BY FreshDot, TopLevelDeps DEF NewDocOp, DocOp

-----------------------------------------------------------------------------
(***************************************************************************)
(* The inductive step, one lemma per action.                               *)
(***************************************************************************)

\* What the dependencies of a logged operation are stays true as logs grow.
LEMMA DependsOnKept ==
  ASSUME NEW x, NEW t, NEW e, DependsOn(x, t, e), policyLog \subseteq policyLog'
  PROVE  DependsOn(x, t, e)'
BY DEF DependsOn

\* Appending p keeps the order of dependencies when p's are in the log already.
LEMMA PolicyDepsKept ==
  ASSUME IInv, NEW s \in Site, NEW p \in PolicyOp,
         \A r \in Site : policies'[r] = IF r = s THEN Append(policies[r], p) ELSE policies[r],
         \A x \in p.deps : \E q \in PoliciesOn(policies[s], TupleOf(p)) : q.dot = x
  PROVE  \A r \in Site : \A i \in DOMAIN policies'[r] : \A x \in policies'[r][i].deps :
           \E j \in 1 .. i - 1 : /\ policies'[r][j].dot = x
                                 /\ TupleOf(policies'[r][j]) = TupleOf(policies'[r][i])
<1> TAKE r \in Site
<1> TAKE i \in DOMAIN policies'[r]
<1> TAKE x \in policies'[r][i].deps
<1> DEFINE seq == policies[r]
<1>1. seq \in Seq(PolicyOp) /\ Len(seq) \in Nat /\ DOMAIN seq = 1 .. Len(seq)
  BY DEF IInv, TypeOK
<1>2. CASE r # s
  BY <1>2 DEF IInv, DepsDelivered
<1>3. CASE r = s
  <2>1. /\ policies'[r] = Append(seq, p)
        /\ DOMAIN policies'[r] = 1 .. Len(seq) + 1
        /\ \A k \in 1 .. Len(seq) : policies'[r][k] = seq[k]
        /\ policies'[r][Len(seq) + 1] = p
    <3>1. policies'[r] = Append(seq, p)
      BY <1>3
    <3>2. /\ Append(seq, p) \in Seq(PolicyOp)
          /\ Len(Append(seq, p)) = Len(seq) + 1
          /\ \A k \in 1 .. Len(seq) : Append(seq, p)[k] = seq[k]
          /\ Append(seq, p)[Len(seq) + 1] = p
      BY <1>1, AppendProperties
    <3> QED BY <3>1, <3>2
  <2>2. CASE i \in 1 .. Len(seq)
    <3>0. i \in DOMAIN seq /\ x \in seq[i].deps
      BY <1>1, <2>1, <2>2
    <3>1. PICK j \in 1 .. i - 1 : seq[j].dot = x /\ TupleOf(seq[j]) = TupleOf(seq[i])
      BY <3>0 DEF IInv, DepsDelivered
    <3>2. j \in 1 .. Len(seq)
      BY <1>1, <2>2, <3>1
    <3> QED BY <2>1, <2>2, <3>1, <3>2
  <2>3. CASE i = Len(seq) + 1
    <3>1. PICK q \in PoliciesOn(policies[s], TupleOf(p)) : q.dot = x
      BY <2>1, <2>3
    <3>2. PICK j \in 1 .. Len(seq) : seq[j] = q
      BY <1>1, <1>3 DEF PoliciesOn, Range
    <3>3. j \in 1 .. i - 1 /\ TupleOf(q) = TupleOf(p)
      BY <1>1, <2>3, <3>2 DEF PoliciesOn
    <3> QED BY <2>1, <2>3, <3>1, <3>2, <3>3
  <2> QED BY <1>1, <2>1, <2>2, <2>3
<1> QED BY <1>2, <1>3

\* Appending an operation whose dot is not in the log yet leaves every one once.
LEMMA OnceEachKept ==
  ASSUME IInv, NEW s \in Site, NEW p \in PolicyOp, p.dot \notin PolicyDots(s),
         \A r \in Site : policies'[r] = IF r = s THEN Append(policies[r], p) ELSE policies[r]
  PROVE  OnceEach'
<1> SUFFICES ASSUME NEW r \in Site, NEW i \in DOMAIN policies'[r], NEW j \in DOMAIN policies'[r],
                    policies'[r][i].dot = policies'[r][j].dot
             PROVE  i = j
  BY DEF OnceEach
<1> DEFINE seq == policies[r]
<1>1. seq \in Seq(PolicyOp) /\ Len(seq) \in Nat /\ DOMAIN seq = 1 .. Len(seq)
  <2>1. seq \in Seq(PolicyOp)
    BY DEF IInv, TypeOK
  <2> HIDE DEF seq
  <2> QED BY <2>1
<1>2. \A k, l \in DOMAIN seq : seq[k].dot = seq[l].dot => k = l
  BY DEF IInv, OnceEach
<1>3. CASE r # s
  BY <1>2, <1>3
<1>4. CASE r = s
  <2>1. /\ Append(seq, p) \in Seq(PolicyOp)
        /\ Len(Append(seq, p)) = Len(seq) + 1
        /\ \A k \in 1 .. Len(seq) : Append(seq, p)[k] = seq[k]
        /\ Append(seq, p)[Len(seq) + 1] = p
    BY <1>1, AppendProperties
  <2>2. policies'[r] = Append(seq, p)
    BY <1>4
  <2>3. DOMAIN policies'[r] = 1 .. Len(seq) + 1
    BY <2>1, <2>2
  <2>4. ASSUME NEW k \in 1 .. Len(seq) PROVE policies'[r][k].dot # p.dot
    <3>1. seq[k].dot \in PolicyDots(s)
      BY <1>1, <1>4 DEF PolicyDots, DotsOf, Range
    <3> QED BY <2>1, <2>2, <3>1
  <2>5. policies'[r][Len(seq) + 1].dot = p.dot
    BY <2>1, <2>2
  <2>6. \A k \in 1 .. Len(seq) + 1 : k \in 1 .. Len(seq) \/ k = Len(seq) + 1
    BY <1>1
  <2>7. ASSUME NEW k \in 1 .. Len(seq), NEW l \in 1 .. Len(seq),
               policies'[r][k].dot = policies'[r][l].dot
        PROVE  k = l
    <3>1. policies'[r][k] = seq[k] /\ policies'[r][l] = seq[l]
      BY <2>1, <2>2
    <3> QED BY <1>1, <1>2, <2>7, <3>1
  <2> QED BY <2>3, <2>4, <2>5, <2>6, <2>7
<1> QED BY <1>3, <1>4

\* A client allows or denies a right.
LEMMA UpdatePolicyKeeps ==
  ASSUME IInv, NEW s \in Site, NEW t \in CommandTuples, NEW eff \in Effect,
         UpdatePolicy(s, t, eff)
  PROVE  IInv'
<1> DEFINE p == NewPolicyOp(s, t, eff)
           e == [op |-> p, past |-> Seen(s)]
<1>1. t \in AccessTuple /\ t.site \in Site
  BY CommandAssumption DEF AccessTuple
<1>2. p \in PolicyOp /\ p.dot = [site |-> s, n |-> AllocN(s)] /\ p.dot.site = s
  BY <1>1, NewPolicyOpTyped DEF NewPolicyOp
<1>3. /\ policyLog' = policyLog \union {e}
      /\ docLog' = docLog
      /\ EffectPolicy(s, p, Allocated(s)) /\ CountersFor(s, p.dot, Allocated(s))
  BY <1>2 DEF UpdatePolicy, CountersFor
<1> HIDE DEF p
<1>4. /\ policies' \in [Site -> Seq(PolicyOp)]
      /\ documents' = documents
      /\ \A r \in Site : policies'[r] = IF r = s THEN Append(policies[r], p) ELSE policies[r]
      /\ \A r \in Site : Range(policies'[r]) =
           IF r = s THEN Range(policies[r]) \union {p} ELSE Range(policies[r])
      /\ Learns(s, p.dot)
      /\ valid' \in [Site -> SUBSET Dot]
      /\ \A r \in Site : valid'[r] \subseteq Seen(r)'
  BY <1>2, <1>3, EffectPolicyResult DEF IInv
<1>5. p.dot \notin AllDots
  BY <1>2, FreshDot
<1>6. TypeOK'
  <2>1. e \in PolicyEntry
    BY <1>2, SeenTyped DEF PolicyEntry, IInv
  <2> QED BY <1>3, <1>4, <2>1 DEF IInv, TypeOK, Learns
<1>7. Recorded'
  <2>1. e \in policyLog' /\ e.op = p /\ policyLog \subseteq policyLog'
    BY <1>3
  <2>2. {f.op : f \in policyLog} \subseteq {f.op : f \in policyLog'}
    BY <2>1
  <2>3. p \in {f.op : f \in policyLog'}
    BY <2>1
  <2> QED BY <1>3, <1>4, <2>2, <2>3 DEF IInv, Recorded
<1>8. OwnKept'
  <2>1. \A f \in policyLog' : f.op \in Range(policies'[f.op.dot.site])
    <3>1. \A f \in policyLog : f.op.dot.site \in Site
      BY EntriesTyped DEF IInv, Dot
    <3> QED BY <1>2, <1>3, <1>4, <3>1 DEF IInv, OwnKept
  <2> QED BY <1>3, <1>4, <2>1 DEF IInv, OwnKept
<1>9. KindsApart'
  BY <1>3, <1>5 DEF IInv, KindsApart, AllDots
<1>10. Causality'
  <2>1. AllEntries' = AllEntries \union {e}
    BY <1>3 DEF AllEntries
  <2> QED BY <1>2, <1>4, <2>1, CausalityOnIssue
<1>11. LastSeenKnown'
  <2>1. /\ p.last_dot_seen = LastDotForWriteTuple(s, t.site)
        /\ p.missing_dots = DeriveMissingDots(s, t.site)
        /\ p.target = t.site
    BY DEF p, NewPolicyOp
  <2>2. p.last_dot_seen # 0 =>
          \E d \in docLog : /\ d.op.dot = [site |-> p.target, n |-> p.last_dot_seen]
                            /\ d.op.dot \in Seen(s)
    <3> SUFFICES ASSUME p.last_dot_seen # 0
                 PROVE  \E d \in docLog :
                          /\ d.op.dot = [site |-> p.target, n |-> p.last_dot_seen]
                          /\ d.op.dot \in Seen(s)
      OBVIOUS
    <3>1. p.last_dot_seen \in SeenDocNumbers(s, t.site)
      BY <1>1, <2>1, LastDotIsLast
    <3>2. PICK o \in documents[s] : o.dot.site = t.site /\ o.dot.n = p.last_dot_seen
      BY <3>1 DEF SeenDocNumbers
    <3>3. PICK d \in docLog : d.op = o
      BY <3>2 DEF IInv, Recorded
    <3>4. d.op.dot = [site |-> p.target, n |-> p.last_dot_seen]
      BY <2>1, <3>2, <3>3, EntriesTyped DEF IInv, Dot
    <3> QED BY <3>2, <3>3, <3>4 DEF Seen, DotsOf
  <2>3. \A x \in p.missing_dots : x.n <= p.last_dot_seen
    BY <1>1, <2>1, LastDotIsLast DEF DeriveMissingDots
  <2> QED BY <1>3, <2>2, <2>3 DEF IInv, LastSeenKnown
<1>12. LastSeenIsLast'
  <2> SUFFICES ASSUME NEW d \in docLog, d.op.dot.site = p.target, d.op.dot \in Seen(s)
               PROVE  d.op.dot.n <= p.last_dot_seen
    BY <1>3 DEF IInv, LastSeenIsLast
  <2>1. d.op \in documents[s]
    BY SeenDocument
  <2>2. p.last_dot_seen = LastDotForWriteTuple(s, t.site) /\ p.target = t.site
    BY DEF p, NewPolicyOp
  <2>3. d.op.dot.n \in SeenDocNumbers(s, t.site)
    BY <2>1, <2>2 DEF SeenDocNumbers
  <2> QED BY <1>1, <2>2, <2>3, LastDotIsLast
<1>13. \A x \in p.deps : \E q \in PoliciesOn(policies[s], TupleOf(p)) : q.dot = x
  <2>1. p.deps = CurrentTopLevelDeps(s, t) /\ TupleOf(p) = t
    BY <1>1 DEF p, NewPolicyOp, TupleOf, AccessTuple
  <2> QED BY <2>1, TopLevelDeps
<1>14. DepsInPast'
  <2>1. \A x \in p.deps : DependsOn(x, TupleOf(p), e)
    <3> TAKE x \in p.deps
    <3>1. PICK q \in PoliciesOn(policies[s], TupleOf(p)) : q.dot = x
      BY <1>13
    <3>2. PICK f \in policyLog : f.op = q
      BY DEF IInv, Recorded, PoliciesOn
    <3> QED BY <3>1, <3>2 DEF DependsOn, PoliciesOn, Seen, PolicyDots, DotsOf
  <2>2. \A x, u, f : DependsOn(x, u, f) => DependsOn(x, u, f)'
    BY <1>3, DependsOnKept
  <2> QED BY <1>3, <2>1, <2>2 DEF IInv, DepsInPast
<1>15. DepsDelivered'
  <2>1. ASSUME NEW r \in Site, NEW d \in documents[r], NEW x \in d.deps
        PROVE  \E q \in PoliciesOn(policies'[r], [site |-> d.dot.site, right |-> "Write"]) :
                 q.dot = x
    BY <1>4, <2>1 DEF IInv, DepsDelivered, PoliciesOn
  <2>2. \A r \in Site : \A i \in DOMAIN policies'[r] : \A x \in policies'[r][i].deps :
          \E j \in 1 .. i - 1 : /\ policies'[r][j].dot = x
                                /\ TupleOf(policies'[r][j]) = TupleOf(policies'[r][i])
    BY <1>2, <1>4, <1>13, PolicyDepsKept
  <2> QED BY <1>4, <2>1, <2>2 DEF DepsDelivered
<1>16. OnceEach'
  <2>1. p.dot \notin PolicyDots(s)
    BY <1>5 DEF IInv, Recorded, PolicyDots, DotsOf, AllDots
  <2> QED BY <1>2, <1>4, <2>1, OnceEachKept
<1> QED BY <1>6, <1>7, <1>8, <1>9, <1>10, <1>11, <1>12, <1>14, <1>15, <1>16 DEF IInv

\* A client edits the text.
LEMMA UpdateDocumentKeeps ==
  ASSUME IInv, NEW s \in Site, UpdateDocument(s)
  PROVE  IInv'
<1> DEFINE d == NewDocOp(s)
           e == [op |-> d, past |-> Seen(s)]
           w == [site |-> s, right |-> "Write"]
<1>1. /\ d \in DocOp
      /\ d.dot = [site |-> s, n |-> AllocN(s)]
      /\ d.dot.site = s
      /\ d.deps = CurrentTopLevelDeps(s, w)
  BY NewDocOpTyped DEF NewDocOp
<1>2. /\ docLog' = docLog \union {e}
      /\ policyLog' = policyLog
      /\ EffectDocument(s, d, Allocated(s)) /\ CountersFor(s, d.dot, Allocated(s))
      /\ valid' = [valid EXCEPT ![s] =
           IF IsValidDocument(d, policies[s], documents[s], valid[s], Strategy[s])
             THEN valid[s] \union {d.dot} ELSE valid[s]]
  BY <1>1 DEF UpdateDocument, CountersFor
<1> HIDE DEF d
<1>3. /\ documents' \in [Site -> SUBSET DocOp]
      /\ policies' = policies
      /\ \A r \in Site : documents'[r] =
           IF r = s THEN documents[r] \union {d} ELSE documents[r]
      /\ Learns(s, d.dot)
  BY <1>1, <1>2, EffectDocumentResult DEF IInv
<1>4. d.dot \notin AllDots /\ d.dot \in Dot
  BY <1>1, FreshDot
<1>5. TypeOK'
  <2>1. e \in DocEntry
    BY <1>1, SeenTyped DEF DocEntry, IInv
  <2>2. valid' \in [Site -> SUBSET Dot] /\ \A r \in Site : valid'[r] \subseteq Seen(r)'
    BY <1>2, <1>3, <1>4 DEF IInv, TypeOK, Learns
  <2> QED BY <1>2, <1>3, <2>1, <2>2 DEF IInv, TypeOK, Learns
<1>6. Recorded'
  <2>1. e \in docLog' /\ e.op = d /\ docLog \subseteq docLog'
    BY <1>2
  <2>2. {f.op : f \in docLog} \subseteq {f.op : f \in docLog'}
    BY <2>1
  <2>3. d \in {f.op : f \in docLog'}
    BY <2>1
  <2> QED BY <1>2, <1>3, <2>2, <2>3 DEF IInv, Recorded
<1>7. OwnKept'
  <2>1. \A f \in docLog : f.op.dot.site \in Site
    BY EntriesTyped DEF IInv, Dot
  <2> QED BY <1>1, <1>2, <1>3, <2>1 DEF IInv, OwnKept
<1>8. KindsApart'
  BY <1>2, <1>4 DEF IInv, KindsApart, AllDots
<1>9. Causality'
  <2>1. AllEntries' = AllEntries \union {e}
    BY <1>2 DEF AllEntries
  <2> QED BY <1>1, <1>3, <2>1, CausalityOnIssue
<1>10. LastSeenKnown'
  BY <1>2 DEF IInv, LastSeenKnown
<1>11. LastSeenIsLast'
  <2>1. \A f \in policyLog : d.dot \notin f.past
    BY <1>4 DEF IInv, Causality, PastKnown, AllEntries
  <2> QED BY <1>2, <2>1 DEF IInv, LastSeenIsLast
<1>12. \A x \in d.deps : \E q \in PoliciesOn(policies[s], w) : q.dot = x
  BY <1>1, TopLevelDeps
<1>13. DepsInPast'
  <2>1. \A x \in d.deps : DependsOn(x, w, e)
    <3> TAKE x \in d.deps
    <3>1. PICK q \in PoliciesOn(policies[s], w) : q.dot = x
      BY <1>12
    <3>2. PICK f \in policyLog : f.op = q
      BY DEF IInv, Recorded, PoliciesOn
    <3> QED BY <3>1, <3>2 DEF DependsOn, PoliciesOn, Seen, PolicyDots, DotsOf
  <2>2. \A x, u, f : DependsOn(x, u, f) => DependsOn(x, u, f)'
    BY <1>2, DependsOnKept
  <2> QED BY <1>1, <1>2, <2>1, <2>2 DEF IInv, DepsInPast
<1>14. DepsDelivered'
  BY <1>1, <1>3, <1>12 DEF IInv, DepsDelivered
<1>15. OnceEach'
  BY <1>3 DEF IInv, OnceEach
<1> QED BY <1>5, <1>6, <1>7, <1>8, <1>9, <1>10, <1>11, <1>13, <1>14, <1>15 DEF IInv

\* A dependency of a delivered entry is in the receiver's log.
LEMMA DependencyHere ==
  ASSUME IInv, NEW s \in Site, NEW e, Deliverable(s, e), NEW x, NEW t, DependsOn(x, t, e)
  PROVE  \E q \in PoliciesOn(policies[s], t) : q.dot = x
<1>1. PICK f \in policyLog : f.op.dot = x /\ TupleOf(f.op) = t /\ x \in e.past
  BY DEF DependsOn
<1>2. f.op \in Range(policies[s])
  BY <1>1, SeenPolicy DEF Deliverable
<1> QED BY <1>1, <1>2 DEF PoliciesOn

\* A site takes in a policy operation.
LEMMA ReceivePolicyKeeps ==
  ASSUME IInv, NEW s \in Site, NEW e \in policyLog, ReceivePolicy(s, e)
  PROVE  IInv'
<1> DEFINE p == e.op
<1>1. p \in PolicyOp
  BY EntriesTyped DEF IInv
<1>2. /\ policyLog' = policyLog /\ docLog' = docLog /\ Deliverable(s, e)
      /\ EffectPolicy(s, p, nextN) /\ CountersFor(s, p.dot, nextN)
  BY DEF ReceivePolicy, NewPolicy, CountersFor
<1>3. /\ policies' \in [Site -> Seq(PolicyOp)]
      /\ documents' = documents
      /\ \A r \in Site : policies'[r] = IF r = s THEN Append(policies[r], p) ELSE policies[r]
      /\ \A r \in Site : Range(policies'[r]) =
           IF r = s THEN Range(policies[r]) \union {p} ELSE Range(policies[r])
      /\ Learns(s, p.dot)
      /\ valid' \in [Site -> SUBSET Dot]
      /\ \A r \in Site : valid'[r] \subseteq Seen(r)'
  BY <1>1, <1>2, EffectPolicyResult DEF IInv
<1>4. TypeOK'
  BY <1>2, <1>3 DEF IInv, TypeOK, Learns
<1>5. Recorded'
  BY <1>2, <1>3 DEF IInv, Recorded
<1>6. OwnKept'
  <2>1. \A f \in policyLog : f.op.dot.site \in Site
    BY EntriesTyped DEF IInv, Dot
  <2> QED BY <1>2, <1>3, <2>1 DEF IInv, OwnKept
<1>7. Causality'
  <2>1. e \in AllEntries
    BY DEF AllEntries
  <2> QED BY <1>2, <1>3, <2>1, CausalityOnReceive
<1>8. KindsApart' /\ LastSeenKnown' /\ LastSeenIsLast'
  BY <1>2 DEF IInv, KindsApart, LastSeenKnown, LastSeenIsLast
<1>9. DepsInPast'
  BY <1>2 DEF IInv, DepsInPast, DependsOn
<1>10. DepsDelivered'
  <2>1. \A x \in p.deps : \E q \in PoliciesOn(policies[s], TupleOf(p)) : q.dot = x
    BY <1>2, DependencyHere DEF IInv, DepsInPast
  <2>2. \A r \in Site : \A i \in DOMAIN policies'[r] : \A x \in policies'[r][i].deps :
          \E j \in 1 .. i - 1 : /\ policies'[r][j].dot = x
                                /\ TupleOf(policies'[r][j]) = TupleOf(policies'[r][i])
    BY <1>1, <1>3, <2>1, PolicyDepsKept
  <2>3. ASSUME NEW r \in Site, NEW d \in documents[r], NEW x \in d.deps
        PROVE  \E q \in PoliciesOn(policies'[r], [site |-> d.dot.site, right |-> "Write"]) :
                 q.dot = x
    <3> DEFINE w == [site |-> d.dot.site, right |-> "Write"]
    <3>1. PICK q \in PoliciesOn(policies[r], w) : q.dot = x
      BY <2>3 DEF IInv, DepsDelivered
    <3>2. Range(policies[r]) \subseteq Range(policies'[r])
      BY <1>3
    <3> HIDE DEF w
    <3>3. q \in PoliciesOn(policies'[r], w)
      BY <3>1, <3>2 DEF PoliciesOn
    <3> QED BY <3>1, <3>3 DEF w
  <2> QED BY <1>3, <2>2, <2>3 DEF DepsDelivered
<1>11. OnceEach'
  <2>1. p.dot \notin PolicyDots(s)
    BY DEF ReceivePolicy, NewPolicy
  <2> QED BY <1>1, <1>3, <2>1, OnceEachKept
<1> QED BY <1>4, <1>5, <1>6, <1>7, <1>8, <1>9, <1>10, <1>11 DEF IInv

\* A site takes in an edit.
LEMMA ReceiveDocumentKeeps ==
  ASSUME IInv, NEW s \in Site, NEW e \in docLog, ReceiveDocument(s, e)
  PROVE  IInv'
<1> DEFINE d == e.op
<1>1. d \in DocOp
  BY EntriesTyped DEF IInv
<1>2. /\ policyLog' = policyLog /\ docLog' = docLog
      /\ Deliverable(s, e)
      /\ EffectDocument(s, d, nextN) /\ CountersFor(s, d.dot, nextN)
      /\ valid' = [valid EXCEPT ![s] =
           RebuildValidity(policies[s], documents[s] \union {d}, valid[s], Strategy[s])]
  BY DEF ReceiveDocument, NewDocument, CountersFor
<1>3. /\ documents' \in [Site -> SUBSET DocOp]
      /\ policies' = policies
      /\ \A r \in Site : documents'[r] =
           IF r = s THEN documents[r] \union {d} ELSE documents[r]
      /\ Learns(s, d.dot)
  BY <1>1, <1>2, EffectDocumentResult DEF IInv
<1>4. TypeOK'
  <2>1. valid'[s] \subseteq Seen(s)'
    <3>1. valid'[s] =
            RebuildValidity(policies[s], documents[s] \union {d}, valid[s], Strategy[s])
      BY <1>2 DEF IInv, TypeOK
    <3>2. valid'[s] \subseteq DotsOf(Range(policies[s])) \union DotsOf(documents[s] \union {d})
      BY <3>1, RebuildInLog
    <3> QED BY <1>3, <3>2 DEF Seen, PolicyDots
  <2>2. \A r \in Site : valid'[r] \subseteq Seen(r)' /\ Seen(r)' \subseteq Dot
    <3> TAKE r \in Site
    <3>1. Seen(r)' = (IF r = s THEN Seen(r) \union {d.dot} ELSE Seen(r)) /\ d.dot \in Dot
      BY <1>1, <1>3 DEF Learns, DocOp
    <3>2. Seen(r) \subseteq Dot
      BY SeenTyped DEF IInv
    <3>3. r # s => valid'[r] = valid[r] /\ valid[r] \subseteq Seen(r)
      BY <1>2 DEF IInv, TypeOK
    <3> QED BY <2>1, <3>1, <3>2, <3>3
  <2>3. valid' \in [Site -> SUBSET Dot]
    <3>1. valid' = [r \in Site |-> valid'[r]]
      BY <1>2 DEF IInv, TypeOK
    <3> QED BY <2>2, <3>1
  <2> QED BY <1>2, <1>3, <2>2, <2>3 DEF IInv, TypeOK, Learns
<1>5. Recorded'
  BY <1>2, <1>3 DEF IInv, Recorded
<1>6. OwnKept'
  <2>1. \A f \in docLog : f.op.dot.site \in Site
    BY EntriesTyped DEF IInv, Dot
  <2> QED BY <1>2, <1>3, <2>1 DEF IInv, OwnKept
<1>7. Causality'
  <2>1. e \in AllEntries
    BY DEF AllEntries
  <2> QED BY <1>2, <1>3, <2>1, CausalityOnReceive
<1>8. KindsApart' /\ LastSeenKnown' /\ LastSeenIsLast'
  BY <1>2 DEF IInv, KindsApart, LastSeenKnown, LastSeenIsLast
<1>9. DepsInPast'
  BY <1>2 DEF IInv, DepsInPast, DependsOn
<1>10. DepsDelivered'
  <2>1. \A x \in d.deps :
          \E q \in PoliciesOn(policies[s], [site |-> d.dot.site, right |-> "Write"]) : q.dot = x
    BY <1>2, DependencyHere DEF IInv, DepsInPast
  <2> QED BY <1>3, <2>1 DEF IInv, DepsDelivered
<1>11. OnceEach'
  BY <1>3 DEF IInv, OnceEach
<1> QED BY <1>4, <1>5, <1>6, <1>7, <1>8, <1>9, <1>10, <1>11 DEF IInv

-----------------------------------------------------------------------------
(***************************************************************************)
(* The invariant and what follows from it.                                 *)
(***************************************************************************)

\* The initial state, in which no site has received or issued anything.
LEMMA InitIInv == Init => IInv
<1> SUFFICES ASSUME Init PROVE IInv
  OBVIOUS
<1>1. /\ policyLog = {} /\ docLog = {} /\ AllEntries = {}
      /\ \A s \in Site : policies[s] = << >> /\ documents[s] = {} /\ valid[s] = {}
  BY DEF Init, AllEntries
<1>2. \A s \in Site : Range(policies[s]) = {} /\ Seen(s) = {}
  BY <1>1 DEF Range, Seen, PolicyDots, DotsOf
<1>3. TypeOK
  BY <1>1, <1>2 DEF Init, TypeOK
<1>4. Causality
  BY <1>1, <1>2 DEF Causality, Counted, DotsUnique, PastKnown, PastClosed, SeenClosed,
                    NumbersFollowPast, AllEntries
<1>5. DepsDelivered
  BY <1>1 DEF DepsDelivered
<1> QED
  BY <1>1, <1>2, <1>3, <1>4, <1>5
     DEF IInv, Recorded, OnceEach, OwnKept, KindsApart, LastSeenKnown, LastSeenIsLast, DepsInPast

\* Every step keeps the invariant.
LEMMA NextIInv == IInv /\ [Next]_vars => IInv'
<1> SUFFICES ASSUME IInv, [Next]_vars PROVE IInv'
  OBVIOUS
<1>1. ASSUME NEW s \in Site, NEW t \in CommandTuples, NEW e \in Effect, UpdatePolicy(s, t, e)
      PROVE  IInv'
  BY <1>1, UpdatePolicyKeeps
<1>2. ASSUME NEW s \in Site, UpdateDocument(s) PROVE IInv'
  BY <1>2, UpdateDocumentKeeps
<1>3. ASSUME NEW s \in Site, NEW e \in policyLog, ReceivePolicy(s, e) PROVE IInv'
  BY <1>3, ReceivePolicyKeeps
<1>4. ASSUME NEW s \in Site, NEW e \in docLog, ReceiveDocument(s, e) PROVE IInv'
  BY <1>4, ReceiveDocumentKeeps
<1>5. CASE UNCHANGED vars
  <2>1. OnceEach' /\ DepsDelivered'
    BY <1>5 DEF vars, IInv, OnceEach, DepsDelivered
  <2>2. TypeOK' /\ Recorded' /\ OwnKept' /\ KindsApart'
    BY <1>5 DEF vars, IInv, TypeOK, Recorded, OwnKept, KindsApart, Seen, PolicyDots
  <2>3. Causality'
    BY <1>5 DEF vars, IInv, Causality, Counted, DotsUnique, PastKnown, PastClosed, SeenClosed,
                NumbersFollowPast, AllEntries, AllDots, Seen, PolicyDots
  <2>4. LastSeenKnown' /\ LastSeenIsLast' /\ DepsInPast'
    BY <1>5 DEF vars, IInv, LastSeenKnown, LastSeenIsLast, DepsInPast, DependsOn
  <2> QED BY <2>1, <2>2, <2>3, <2>4 DEF IInv
<1> QED BY <1>1, <1>2, <1>3, <1>4, <1>5 DEF Next, Receive

\* IInv holds in every reachable state.
THEOREM Invariance == Spec => []IInv
BY InitIInv, NextIInv, PTL DEF Spec

\* Logs, lists, registers and counters keep their types, and a register has
\* entries of logged operations only.
THEOREM TypeCorrect == Spec => []TypeOK
<1>1. IInv => TypeOK
  BY DEF IInv
<1> QED BY <1>1, Invariance, PTL

\* No two operations ever share a dot: alloc_n's counter, raised by note_n for
\* whatever arrives, keeps policy and document operations of a site apart.
THEOREM UniqueDots == Spec => []DotsUnique
<1>1. IInv => DotsUnique
  BY DEF IInv, Causality
<1> QED BY <1>1, Invariance, PTL

\* Causal delivery is enough for effect_policy and effect_document to find
\* every dependency of an operation in the log, on the tuple it belongs to.
THEOREM DependenciesPrecede == Spec => []DepsDelivered
<1>1. IInv => DepsDelivered
  BY DEF IInv
<1> QED BY <1>1, Invariance, PTL

\* last_dot_seen and missing_dots describe exactly the edits the author of an
\* allow had received, so no allow covers an edit issued without its knowledge.
THEOREM CoverageIsKnowledge == Spec => []AllowCoversWhatWasSeen
<1>1. IInv => AllowCoversWhatWasSeen
  <2> SUFFICES ASSUME IInv, NEW e \in policyLog, NEW d \in docLog,
                      e.op.effect = "Allow", e.op.target = d.op.dot.site
               PROVE  Covers(e.op, d.op.dot) <=> d.op.dot \in e.past
    BY DEF AllowCoversWhatWasSeen
  <2>1. /\ e.op.last_dot_seen \in Nat
        /\ d.op.dot.n \in Nat \ {0}
        /\ d.op.dot \in Dot
    BY EntriesTyped DEF IInv, PolicyOp, Dot
  <2>2. ASSUME Covers(e.op, d.op.dot) PROVE d.op.dot \in e.past
    <3>1. d.op.dot.n <= e.op.last_dot_seen
      BY <2>1, <2>2 DEF Covers, IInv, LastSeenKnown
    <3>2. PICK f \in docLog : /\ f.op.dot = [site |-> e.op.target, n |-> e.op.last_dot_seen]
                              /\ f.op.dot \in e.past
      BY <2>1, <3>1 DEF IInv, LastSeenKnown
    <3>3. CASE d.op.dot.n = e.op.last_dot_seen
      BY <2>1, <3>2, <3>3 DEF Dot
    <3>4. CASE d.op.dot.n < e.op.last_dot_seen
      <4>1. d \in AllEntries /\ e \in AllEntries /\ f \in AllEntries
        BY DEF AllEntries
      <4>2. d.op.dot \in f.past
        BY <3>2, <3>4, <4>1 DEF IInv, Causality, NumbersFollowPast
      <4> QED BY <3>2, <4>1, <4>2 DEF IInv, Causality, PastClosed
    <3> QED BY <2>1, <3>1, <3>3, <3>4
  <2>3. ASSUME d.op.dot \in e.past PROVE Covers(e.op, d.op.dot)
    BY <2>1, <2>3 DEF Covers, IInv, LastSeenIsLast
  <2> QED BY <2>2, <2>3
<1> QED BY <1>1, Invariance, PTL

-----------------------------------------------------------------------------
(***************************************************************************)
(* The protocol core implements Delivery: issuing an operation is an       *)
(* Append of its site, receiving one a Receive, and the rebuilt register   *)
(* does not matter.                                                        *)
(***************************************************************************)
\* The entries Delivery sees, whichever list they are in.
LEMMA DeliveredAre ==
  /\ \A e \in AllEntries : [id |-> e.op.dot, past |-> e.past] \in DeliveredEntries
  /\ \A x \in DeliveredEntries :
       \E e \in AllEntries : x = [id |-> e.op.dot, past |-> e.past]
  /\ D!Ids = AllDots
<1>1. \A e \in AllEntries : [id |-> e.op.dot, past |-> e.past] \in DeliveredEntries
  BY DEF DeliveredEntries
<1>2. \A x \in DeliveredEntries :
        \E e \in AllEntries : x = [id |-> e.op.dot, past |-> e.past]
  BY DEF DeliveredEntries
<1>3. D!Ids \subseteq AllDots
  BY <1>2 DEF D!Ids, AllDots, AllEntries
<1>4. AllDots \subseteq D!Ids
  <2> SUFFICES ASSUME NEW e \in AllEntries PROVE e.op.dot \in D!Ids
    BY DEF AllDots, AllEntries
  <2>1. [id |-> e.op.dot, past |-> e.past].id = e.op.dot
    OBVIOUS
  <2> QED BY <1>1, <2>1 DEF D!Ids
<1> QED BY <1>1, <1>2, <1>3, <1>4

\* update_policy and update_document append an entry under a number that no
\* entry has, with what the site has received as its past.
LEMMA IssuingAppends ==
  ASSUME IInv, NEW s \in Site, NEW e,
         e.op.dot = [site |-> s, n |-> AllocN(s)],
         e.past = Seen(s),
         AllEntries' = AllEntries \union {e},
         Learns(s, e.op.dot)
  PROVE  D!Append(s)
<1> DEFINE x == [id |-> e.op.dot, past |-> e.past]
<1>1. x.id \notin D!Ids /\ x.past = Seen(s)
  BY FreshDot, DeliveredAre
<1>2. DeliveredEntries' = DeliveredEntries \union {x}
  BY DEF DeliveredEntries
<1>3. x \notin DeliveredEntries
  BY <1>1 DEF D!Ids
<1>4. [r \in Site |-> Seen(r)]' =
        [[r \in Site |-> Seen(r)] EXCEPT ![s] = @ \union {x.id}]
  BY DEF Learns
<1> QED BY <1>1, <1>2, <1>3, <1>4 DEF D!Append

\* rebuild_from_automerge takes an entry only after everything its author had
\* seen, and a dot names one entry, so what a site holds stays closed.
LEMMA ReceivingReceives ==
  ASSUME IInv, NEW s \in Site, NEW e \in AllEntries,
         Deliverable(s, e),
         UNCHANGED << policyLog, docLog >>,
         Learns(s, e.op.dot)
  PROVE  D!Receive(s)
<1>1. AllEntries' = AllEntries /\ DeliveredEntries' = DeliveredEntries
  BY DEF AllEntries, DeliveredEntries
<1>2. Seen(s)' = Seen(s) \union {e.op.dot}
  BY DEF Learns
<1>3. Seen(s)' \subseteq D!Ids
  <2>1. Seen(s) \subseteq AllDots
    BY DEF AllDots, IInv, Recorded, Seen, PolicyDots, DotsOf
  <2>2. e.op.dot \in AllDots
    BY DEF AllDots, AllEntries
  <2> QED BY <1>2, <2>1, <2>2, DeliveredAre
<1>4. D!Closed(Seen(s)')
  <2>1. SeenClosed'
    BY CausalityOnReceive DEF Causality
  <2>2. \A f \in AllEntries : f.op.dot \in Seen(s)' => f.past \subseteq Seen(s)'
    BY <1>1, <2>1 DEF SeenClosed
  <2> QED BY <2>2, DeliveredAre DEF D!Closed
<1>5. [r \in Site |-> Seen(r)]' = [[r \in Site |-> Seen(r)] EXCEPT ![s] = Seen(s)']
  BY DEF Learns
<1> QED BY <1>1, <1>2, <1>3, <1>4, <1>5 DEF D!Receive

\* At the start nothing has been appended and nothing is held.
LEMMA DeliveryInit == Init => D!Init
<1> SUFFICES ASSUME Init PROVE D!Init
  OBVIOUS
<1>1. \A s \in Site : Seen(s) = {}
  BY DEF Init, Seen, PolicyDots, DotsOf, Range
<1> QED BY <1>1 DEF D!Init, D!Closed

\* Every step of the core is a step of Delivery or none.
LEMMA DeliveryNext ==
  IInv /\ [Next]_vars => [D!Next]_<< DeliveredEntries, [s \in Site |-> Seen(s)] >>
<1> SUFFICES ASSUME IInv, [Next]_vars
             PROVE  D!Next \/ UNCHANGED << DeliveredEntries, [s \in Site |-> Seen(s)] >>
  OBVIOUS
<1>1. ASSUME NEW s \in Site, NEW t \in CommandTuples, NEW e \in Effect, UpdatePolicy(s, t, e)
      PROVE  D!Append(s)
  <2> DEFINE p == NewPolicyOp(s, t, e)
             x == [op |-> p, past |-> Seen(s)]
  <2>1. p \in PolicyOp /\ p.dot = [site |-> s, n |-> AllocN(s)]
    BY NewPolicyOpTyped, CommandAssumption DEF NewPolicyOp
  <2>2. /\ policyLog' = policyLog \union {x} /\ docLog' = docLog
        /\ EffectPolicy(s, p, Allocated(s)) /\ CountersFor(s, p.dot, Allocated(s))
    BY <1>1, <2>1 DEF UpdatePolicy, CountersFor
  <2> HIDE DEF p
  <2>3. Learns(s, p.dot)
    BY <2>1, <2>2, EffectPolicyResult DEF IInv
  <2>4. AllEntries' = AllEntries \union {x}
    BY <2>2 DEF AllEntries
  <2> QED BY <2>1, <2>3, <2>4, IssuingAppends
<1>2. ASSUME NEW s \in Site, UpdateDocument(s) PROVE D!Append(s)
  <2> DEFINE d == NewDocOp(s)
             x == [op |-> d, past |-> Seen(s)]
  <2>1. d \in DocOp /\ d.dot = [site |-> s, n |-> AllocN(s)]
    BY NewDocOpTyped DEF NewDocOp
  <2>2. /\ docLog' = docLog \union {x} /\ policyLog' = policyLog
        /\ EffectDocument(s, d, Allocated(s)) /\ CountersFor(s, d.dot, Allocated(s))
    BY <1>2, <2>1 DEF UpdateDocument, CountersFor
  <2> HIDE DEF d
  <2>3. Learns(s, d.dot)
    BY <2>1, <2>2, EffectDocumentResult DEF IInv
  <2>4. AllEntries' = AllEntries \union {x}
    BY <2>2 DEF AllEntries
  <2> QED BY <2>1, <2>3, <2>4, IssuingAppends
<1>3. ASSUME NEW s \in Site, NEW e \in policyLog, ReceivePolicy(s, e) PROVE D!Receive(s)
  <2>1. /\ e.op \in PolicyOp /\ e \in AllEntries
        /\ Deliverable(s, e)
        /\ EffectPolicy(s, e.op, nextN) /\ CountersFor(s, e.op.dot, nextN)
        /\ UNCHANGED << policyLog, docLog >>
    BY <1>3, EntriesTyped DEF ReceivePolicy, NewPolicy, IInv, AllEntries, CountersFor
  <2>2. Learns(s, e.op.dot)
    BY <2>1, EffectPolicyResult DEF IInv
  <2> QED BY <2>1, <2>2, ReceivingReceives
<1>4. ASSUME NEW s \in Site, NEW e \in docLog, ReceiveDocument(s, e) PROVE D!Receive(s)
  <2>1. /\ e.op \in DocOp /\ e \in AllEntries
        /\ Deliverable(s, e)
        /\ EffectDocument(s, e.op, nextN) /\ CountersFor(s, e.op.dot, nextN)
        /\ UNCHANGED << policyLog, docLog >>
    BY <1>4, EntriesTyped DEF ReceiveDocument, NewDocument, IInv, AllEntries, CountersFor
  <2>2. Learns(s, e.op.dot)
    BY <2>1, EffectDocumentResult DEF IInv
  <2> QED BY <2>1, <2>2, ReceivingReceives
<1>5. CASE UNCHANGED vars
  BY <1>5 DEF vars, DeliveredEntries, AllEntries, Seen, PolicyDots
<1> QED BY <1>1, <1>2, <1>3, <1>4, <1>5 DEF Next, Receive, D!Next

\* A site's log only grows, holds an operation only with everything its author
\* had seen, and a dot once given names one operation for ever.
THEOREM LogsAreDeliveredInOrder == Spec => LogsAreDelivered
<1>1. Init => D!Init
  BY DeliveryInit
<1>2. IInv /\ [Next]_vars => [D!Next]_<< DeliveredEntries, [s \in Site |-> Seen(s)] >>
  BY DeliveryNext
<1> QED BY <1>1, <1>2, Invariance, PTL DEF Spec, LogsAreDelivered, D!Spec
=============================================================================
