--------------------------- MODULE ConnectionProofs ---------------------------
(***************************************************************************)
(* Proofs about Connection for every set of clients, every capacity of the *)
(* reply channels, the bus and the sockets, and any number of commands and *)
(* operations of peers; and then about SendSession, for every script too   *)
(* and whether or not the server is in time.  What SendSession assumes of  *)
(* the tool is cited in that part alone.                                   *)
(***************************************************************************)
EXTENDS SendSessionInv, SequenceTheorems, TLAPS

(***************************************************************************)
(* Numbers in a row, and rising ones, along some positions of a sequence.  *)
(***************************************************************************)

\* A new position at the end with the next number.
LEMMA RowGrows ==
  ASSUME NEW A, NEW f, NEW g, NEW m \in Nat, NEW last \in Nat,
         A \subseteq 1 .. m, InARow(A, f, last),
         \A i \in A : g[i] = f[i],
         g[m + 1] = last + 1
  PROVE  InARow(A \union {m + 1}, g, last + 1)
<1> DEFINE B == A \union {m + 1}
<1>1. \A i \in B : i \in A \/ i = m + 1
  OBVIOUS
<1>2. m + 1 \notin A
  OBVIOUS
<1>3. \A i \in A : f[i] \in 1 .. last
  BY DEF InARow
<1>4. \A i \in B : g[i] \in 1 .. last + 1
  BY <1>1, <1>3
<1>5. ASSUME NEW i \in B, NEW j \in B, i < j PROVE g[i] < g[j]
  <2>1. CASE j \in A
    <3>1. i \in A
      BY <1>1, <1>5, <2>1
    <3>2. f[i] < f[j]
      BY <1>5, <2>1, <3>1 DEF InARow
    <3> QED BY <2>1, <3>1, <3>2
  <2>2. CASE j = m + 1
    <3>1. i \in A
      BY <1>1, <1>5, <2>2
    <3>2. g[i] \in 1 .. last /\ g[j] = last + 1
      BY <1>3, <2>2, <3>1
    <3> QED BY <3>2
  <2> QED BY <1>1, <2>1, <2>2
<1>6. ASSUME NEW i \in B, NEW n \in g[i] .. last + 1 PROVE \E j \in B : g[j] = n
  <2>1. CASE n = last + 1
    BY <2>1
  <2>2. CASE n # last + 1
    <3>1. i \in A
      <4>1. CASE i = m + 1
        BY <2>2, <4>1
      <4> QED BY <1>1, <4>1
    <3>2. f[i] \in Nat /\ g[i] = f[i]
      BY <1>3, <3>1
    <3>3. n \in f[i] .. last
      BY <2>2, <3>2
    <3>4. PICK j \in A : f[j] = n
      BY <3>1, <3>3 DEF InARow
    <3> QED BY <3>4
  <2> QED BY <2>1, <2>2
<1> QED BY <1>4, <1>5, <1>6 DEF InARow

\* The same numbers at the same positions.
LEMMA RowStays ==
  ASSUME NEW A, NEW f, NEW g, NEW last, InARow(A, f, last), \A i \in A : g[i] = f[i]
  PROVE  InARow(A, g, last)
BY DEF InARow

\* The first k positions are gone.
LEMMA RowShrinks ==
  ASSUME NEW A \in SUBSET Nat, NEW B \in SUBSET Nat, NEW f, NEW g, NEW last, NEW k \in Nat,
         InARow(A, f, last),
         \A i \in B : i + k \in A /\ g[i] = f[i + k],
         \A i \in A : i > k => i - k \in B
  PROVE  InARow(B, g, last)
<1>1. \A i \in B : g[i] \in 1 .. last
  BY DEF InARow
<1>2. ASSUME NEW i \in B, NEW j \in B, i < j PROVE g[i] < g[j]
  <2>1. i + k < j + k
    BY <1>2
  <2> QED BY <2>1 DEF InARow
<1>3. ASSUME NEW i \in B, NEW n \in g[i] .. last PROVE \E j \in B : g[j] = n
  <2>1. i + k \in A /\ g[i] = f[i + k]
    OBVIOUS
  <2>2. PICK j \in A : f[j] = n
    BY <2>1 DEF InARow
  <2>3. ~(j < i + k)
    <3>1. SUFFICES ASSUME j < i + k PROVE FALSE
      OBVIOUS
    <3>2. f[j] < f[i + k]
      BY <2>1, <3>1 DEF InARow
    <3>3. f[j] \in 1 .. last /\ f[i + k] \in 1 .. last
      BY <2>1 DEF InARow
    <3>4. n >= f[i + k] /\ n \in Int /\ f[i + k] \in Int
      BY <2>1, <3>3
    <3> QED BY <2>2, <3>2, <3>3, <3>4
  <2>4. j - k \in Nat /\ (j - k) + k = j /\ (j = k + i \/ j > k)
    BY <2>3
  <2>5. j - k \in B
    <3>1. CASE j > k
      BY <3>1
    <3>2. CASE ~(j > k)
      BY <2>3, <2>4, <3>2
    <3> QED BY <3>1, <3>2
  <2>6. g[j - k] = f[j]
    BY <2>4, <2>5
  <2> QED BY <2>2, <2>5, <2>6
<1> QED BY <1>1, <1>2, <1>3 DEF InARow

-----------------------------------------------------------------------------
(***************************************************************************)
(* The three views of a stream of frames, when it grows at its end and     *)
(* when it loses frames at its front.                                      *)
(***************************************************************************)

\* The answers, the traces and the snapshots are positions of the stream.
LEMMA Positions ==
  ASSUME NEW s \in Seq(Frame)
  PROVE  /\ Len(s) \in Nat
         /\ AnswersAt(s) \subseteq 1 .. Len(s)
         /\ TracesAt(s) \subseteq 1 .. Len(s)
         /\ StatesAt(s) \subseteq 1 .. Len(s)
         /\ \A i \in 1 .. Len(s) :
              /\ s[i] \in Frame /\ s[i].value \in Nat /\ s[i].answers \in Nat
              /\ s[i].kind \in {"State", "Error", "Trace"}
              /\ Answered(s)[i] = s[i].answers /\ Values(s)[i] = s[i].value
<1>1. Len(s) \in Nat /\ DOMAIN s = 1 .. Len(s) /\ \A i \in 1 .. Len(s) : s[i] \in Frame
  BY LenProperties, ElementOfSeq
<1>2. \A i \in 1 .. Len(s) : /\ s[i].value \in Nat /\ s[i].answers \in Nat
                             /\ s[i].kind \in {"State", "Error", "Trace"}
  BY <1>1 DEF Frame
<1>3. \A i \in 1 .. Len(s) : Answered(s)[i] = s[i].answers /\ Values(s)[i] = s[i].value
  BY <1>1 DEF Answered, Values
<1> QED BY <1>1, <1>2, <1>3 DEF AnswersAt, TracesAt, StatesAt

\* A stream with one frame more, seen by number, value and position.
LEMMA GrownPositions ==
  ASSUME NEW s \in Seq(Frame), NEW f \in Frame
  PROVE  /\ Append(s, f) \in Seq(Frame)
         /\ Len(Append(s, f)) = Len(s) + 1
         /\ \A i \in 1 .. Len(s) : Append(s, f)[i] = s[i]
         /\ Append(s, f)[Len(s) + 1] = f
         /\ \A i \in 1 .. Len(s) : /\ Answered(Append(s, f))[i] = Answered(s)[i]
                                   /\ Values(Append(s, f))[i] = Values(s)[i]
         /\ Answered(Append(s, f))[Len(s) + 1] = f.answers
         /\ Values(Append(s, f))[Len(s) + 1] = f.value
         /\ AnswersAt(Append(s, f)) =
              IF f.kind # "Trace" THEN AnswersAt(s) \union {Len(s) + 1} ELSE AnswersAt(s)
         /\ TracesAt(Append(s, f)) =
              IF f.kind = "Trace" THEN TracesAt(s) \union {Len(s) + 1} ELSE TracesAt(s)
         /\ StatesAt(Append(s, f)) =
              IF f.kind = "State" THEN StatesAt(s) \union {Len(s) + 1} ELSE StatesAt(s)
<1> DEFINE t == Append(s, f)
<1>1. /\ t \in Seq(Frame) /\ Len(t) = Len(s) + 1 /\ Len(s) \in Nat
      /\ \A i \in 1 .. Len(s) : t[i] = s[i]
      /\ t[Len(s) + 1] = f
  BY AppendProperties, LenProperties
<1>2. DOMAIN s = 1 .. Len(s) /\ DOMAIN t = 1 .. Len(s) + 1
  BY <1>1, LenProperties
<1> HIDE DEF t
<1>3. 1 .. Len(s) + 1 = (1 .. Len(s)) \union {Len(s) + 1}
  BY <1>1
<1>4. /\ \A i \in 1 .. Len(s) : Answered(t)[i] = Answered(s)[i] /\ Values(t)[i] = Values(s)[i]
      /\ Answered(t)[Len(s) + 1] = f.answers /\ Values(t)[Len(s) + 1] = f.value
  BY <1>1, <1>2, <1>3 DEF Answered, Values
<1>5. AnswersAt(t) = IF f.kind # "Trace" THEN AnswersAt(s) \union {Len(s) + 1} ELSE AnswersAt(s)
  BY <1>1, <1>2, <1>3 DEF AnswersAt
<1>6. TracesAt(t) = IF f.kind = "Trace" THEN TracesAt(s) \union {Len(s) + 1} ELSE TracesAt(s)
  BY <1>1, <1>2, <1>3 DEF TracesAt
<1>7. StatesAt(t) = IF f.kind = "State" THEN StatesAt(s) \union {Len(s) + 1} ELSE StatesAt(s)
  BY <1>1, <1>2, <1>3 DEF StatesAt
<1> QED BY <1>1, <1>4, <1>5, <1>6, <1>7 DEF t

\* The next answer, or anything that is not an answer.
LEMMA AnswersGrow ==
  ASSUME NEW s \in Seq(Frame), NEW f \in Frame, NEW last \in Nat,
         InARow(AnswersAt(s), Answered(s), last)
  PROVE  /\ f.kind # "Trace" /\ f.answers = last + 1
              => InARow(AnswersAt(Append(s, f)), Answered(Append(s, f)), last + 1)
         /\ f.kind = "Trace"
              => InARow(AnswersAt(Append(s, f)), Answered(Append(s, f)), last)
<1> DEFINE t == Append(s, f)
<1>1. Len(s) \in Nat /\ AnswersAt(s) \subseteq 1 .. Len(s)
  BY Positions
<1>2. /\ \A i \in AnswersAt(s) : Answered(t)[i] = Answered(s)[i]
      /\ Answered(t)[Len(s) + 1] = f.answers
      /\ AnswersAt(t) = IF f.kind # "Trace" THEN AnswersAt(s) \union {Len(s) + 1} ELSE AnswersAt(s)
  BY <1>1, GrownPositions
<1> HIDE DEF t
<1>3. ASSUME f.kind # "Trace", f.answers = last + 1
      PROVE  InARow(AnswersAt(t), Answered(t), last + 1)
  <2>1. InARow(AnswersAt(s) \union {Len(s) + 1}, Answered(t), last + 1)
    BY <1>1, <1>2, <1>3, RowGrows
  <2> QED BY <1>2, <1>3, <2>1
<1>4. ASSUME f.kind = "Trace" PROVE InARow(AnswersAt(t), Answered(t), last)
  <2>1. InARow(AnswersAt(s), Answered(t), last)
    BY <1>2, RowStays
  <2> QED BY <1>2, <1>4, <2>1
<1> QED BY <1>3, <1>4 DEF t

\* The next trace, or anything that is not a trace.
LEMMA TracesGrow ==
  ASSUME NEW s \in Seq(Frame), NEW f \in Frame, NEW last,
         InARow(TracesAt(s), Values(s), last)
  PROVE  /\ last \in Nat /\ f.kind = "Trace" /\ f.value = last + 1
              => InARow(TracesAt(Append(s, f)), Values(Append(s, f)), last + 1)
         /\ f.kind # "Trace"
              => InARow(TracesAt(Append(s, f)), Values(Append(s, f)), last)
<1> DEFINE t == Append(s, f)
<1>1. Len(s) \in Nat /\ TracesAt(s) \subseteq 1 .. Len(s)
  BY Positions
<1>2. /\ \A i \in TracesAt(s) : Values(t)[i] = Values(s)[i]
      /\ Values(t)[Len(s) + 1] = f.value
      /\ TracesAt(t) = IF f.kind = "Trace" THEN TracesAt(s) \union {Len(s) + 1} ELSE TracesAt(s)
  BY <1>1, GrownPositions
<1> HIDE DEF t
<1>3. ASSUME last \in Nat, f.kind = "Trace", f.value = last + 1
      PROVE  InARow(TracesAt(t), Values(t), last + 1)
  <2>1. InARow(TracesAt(s) \union {Len(s) + 1}, Values(t), last + 1)
    BY <1>1, <1>2, <1>3, RowGrows
  <2> QED BY <1>2, <1>3, <2>1
<1>4. ASSUME f.kind # "Trace" PROVE InARow(TracesAt(t), Values(t), last)
  <2>1. InARow(TracesAt(s), Values(t), last)
    BY <1>2, RowStays
  <2> QED BY <1>2, <1>4, <2>1
<1> QED BY <1>3, <1>4 DEF t

\* A snapshot that none before outdoes, or anything that is not a snapshot.
LEMMA StatesGrow ==
  ASSUME NEW s \in Seq(Frame), NEW f \in Frame, NEW low,
         Rising(StatesAt(s), Values(s), low),
         f.kind = "State" => /\ low <= f.value
                             /\ \A i \in StatesAt(s) : s[i].value <= f.value
  PROVE  Rising(StatesAt(Append(s, f)), Values(Append(s, f)), low)
<1> DEFINE t == Append(s, f)
<1>1. Len(s) \in Nat /\ StatesAt(s) \subseteq 1 .. Len(s)
  BY Positions
<1>2. /\ \A i \in StatesAt(s) : Values(t)[i] = Values(s)[i] /\ Values(s)[i] = s[i].value
      /\ Values(t)[Len(s) + 1] = f.value
      /\ StatesAt(t) = IF f.kind = "State" THEN StatesAt(s) \union {Len(s) + 1} ELSE StatesAt(s)
  BY <1>1, GrownPositions, Positions
<1> SUFFICES Rising(StatesAt(t), Values(t), low)
  OBVIOUS
<1> HIDE DEF t
<1>3. CASE f.kind # "State"
  BY <1>2, <1>3 DEF Rising
<1>4. CASE f.kind = "State"
  <2>1. \A i \in StatesAt(t) : i \in StatesAt(s) \/ i = Len(s) + 1
    BY <1>2, <1>4
  <2>2. \A i \in StatesAt(t) : low <= Values(t)[i]
    BY <1>2, <1>4, <2>1 DEF Rising
  <2>3. ASSUME NEW i \in StatesAt(t), NEW j \in StatesAt(t), i < j
        PROVE  Values(t)[i] <= Values(t)[j]
    <3>1. i \in StatesAt(s)
      BY <1>1, <2>1, <2>3
    <3> QED BY <1>2, <1>4, <2>1, <2>3, <3>1 DEF Rising
  <2> QED BY <2>2, <2>3 DEF Rising
<1> QED BY <1>3, <1>4

\* t is s without its first k frames.
Rest(s, t, k) ==
  /\ t \in Seq(Frame)
  /\ Len(s) = Len(t) + k
  /\ \A i \in 1 .. Len(t) : t[i] = s[i + k]

\* What is left of a row after its first frames are gone is a row to the same end.
LEMMA RestKeepsRows ==
  ASSUME NEW s \in Seq(Frame), NEW t, NEW k \in Nat, Rest(s, t, k), NEW last
  PROVE  /\ InARow(AnswersAt(s), Answered(s), last) => InARow(AnswersAt(t), Answered(t), last)
         /\ InARow(TracesAt(s), Values(s), last) => InARow(TracesAt(t), Values(t), last)
<1>1. t \in Seq(Frame) /\ Len(t) \in Nat /\ Len(s) = Len(t) + k
      /\ \A i \in 1 .. Len(t) : t[i] = s[i + k]
  BY LenProperties DEF Rest
<1>2. DOMAIN s = 1 .. Len(s) /\ DOMAIN t = 1 .. Len(t) /\ Len(s) \in Nat
  BY <1>1, LenProperties
<1>3. \A i \in 1 .. Len(t) : i + k \in 1 .. Len(s)
  BY <1>1
<1>4. \A i \in 1 .. Len(s) : i > k => i - k \in 1 .. Len(t) /\ (i - k) + k = i
  BY <1>1, <1>2
<1>5. /\ AnswersAt(s) \in SUBSET Nat /\ AnswersAt(t) \in SUBSET Nat
      /\ \A i \in AnswersAt(t) : i + k \in AnswersAt(s) /\ Answered(t)[i] = Answered(s)[i + k]
      /\ \A i \in AnswersAt(s) : i > k => i - k \in AnswersAt(t)
  BY <1>1, <1>2, <1>3, <1>4 DEF AnswersAt, Answered
<1>6. /\ TracesAt(s) \in SUBSET Nat /\ TracesAt(t) \in SUBSET Nat
      /\ \A i \in TracesAt(t) : i + k \in TracesAt(s) /\ Values(t)[i] = Values(s)[i + k]
      /\ \A i \in TracesAt(s) : i > k => i - k \in TracesAt(t)
  BY <1>1, <1>2, <1>3, <1>4 DEF TracesAt, Values
<1>7. ASSUME InARow(AnswersAt(s), Answered(s), last)
      PROVE  InARow(AnswersAt(t), Answered(t), last)
  BY <1>5, <1>7, RowShrinks
<1>8. ASSUME InARow(TracesAt(s), Values(s), last)
      PROVE  InARow(TracesAt(t), Values(t), last)
  BY <1>6, <1>8, RowShrinks
<1> QED BY <1>7, <1>8

\* The first frame has been taken; if it was a snapshot, this one is shown now.
LEMMA StatesTaken ==
  ASSUME NEW s \in Seq(Frame), s # << >>, NEW low \in Nat,
         Rising(StatesAt(s), Values(s), low)
  PROVE  LET now == IF s[1].kind = "State" THEN s[1].value ELSE low
         IN  /\ Rising(StatesAt(Tail(s)), Values(Tail(s)), now)
             /\ low <= now
             /\ \A i \in StatesAt(s) : i = 1 \/ i - 1 \in StatesAt(Tail(s))
             /\ \A i \in StatesAt(Tail(s)) :
                  i + 1 \in StatesAt(s) /\ Tail(s)[i] = s[i + 1]
<1> DEFINE t == Tail(s)
           now == IF s[1].kind = "State" THEN s[1].value ELSE low
<1>1. /\ t \in Seq(Frame) /\ Len(t) = Len(s) - 1 /\ Len(s) \in Nat /\ Len(s) >= 1
      /\ \A i \in 1 .. Len(t) : t[i] = s[i + 1]
      /\ DOMAIN s = 1 .. Len(s) /\ DOMAIN t = 1 .. Len(t)
  BY HeadTailProperties, LenProperties, EmptySeq
<1> HIDE DEF t
<1>2. \A i \in 1 .. Len(t) : i \in Nat /\ i + 1 \in 1 .. Len(s) /\ i + 1 > 1
  BY <1>1
<1>3. \A i \in 1 .. Len(s) : i = 1 \/ (i - 1 \in 1 .. Len(t) /\ (i - 1) + 1 = i)
  BY <1>1
<1>4. \A i \in StatesAt(s) : i = 1 \/ i - 1 \in StatesAt(t)
  BY <1>1, <1>3 DEF StatesAt
<1>5. \A i \in StatesAt(t) : i \in Nat /\ i + 1 > 1 /\ i + 1 \in StatesAt(s) /\ t[i] = s[i + 1]
                             /\ Values(t)[i] = Values(s)[i + 1]
  BY <1>1, <1>2 DEF StatesAt, Values
<1>6. s[1].kind = "State" => 1 \in StatesAt(s) /\ Values(s)[1] = s[1].value
  BY <1>1 DEF StatesAt, Values
<1>7. low <= now
  BY <1>6 DEF Rising
<1>8. \A i \in StatesAt(t) : now <= Values(t)[i]
  BY <1>5, <1>6 DEF Rising
<1>9. ASSUME NEW i \in StatesAt(t), NEW j \in StatesAt(t), i < j
      PROVE  Values(t)[i] <= Values(t)[j]
  <2>1. i + 1 < j + 1
    BY <1>5, <1>9
  <2> QED BY <1>5, <2>1 DEF Rising
<1> QED BY <1>4, <1>5, <1>7, <1>8, <1>9 DEF Rising, t

-----------------------------------------------------------------------------
(***************************************************************************)
(* What is on its way to a client: the frames on the socket, then those in *)
(* the reply channel.                                                      *)
(***************************************************************************)

\* A reply or a trace goes to its end.
LEMMA EndGrows ==
  ASSUME NEW u \in Seq(Frame), NEW v \in Seq(Frame), NEW f \in Frame
  PROVE  u \o Append(v, f) = Append(u \o v, f)
<1>1. << f >> \in Seq(Frame) /\ u \o v \in Seq(Frame)
  BY ConcatProperties
<1>2. u \o (v \o << f >>) = (u \o v) \o << f >>
  BY <1>1, ConcatAssociative
<1> QED BY <1>1, <1>2, AppendIsConcat

\* The writer moves a frame from one part to the other.
LEMMA WritingMoves ==
  ASSUME NEW u \in Seq(Frame), NEW v \in Seq(Frame), v # << >>
  PROVE  Append(u, Head(v)) \o Tail(v) = u \o v
<1>1. /\ Head(v) \in Frame /\ Tail(v) \in Seq(Frame)
      /\ << Head(v) >> \in Seq(Frame)
  BY HeadTailProperties
<1>2. Append(u, Head(v)) = u \o << Head(v) >>
  BY <1>1, AppendIsConcat
<1>3. (u \o << Head(v) >>) \o Tail(v) = u \o (<< Head(v) >> \o Tail(v))
  BY <1>1, ConcatAssociative
<1>4. << Head(v) >> \o Tail(v) = v
  BY ConcatSimplifications, HeadTailProperties, <1>1
<1> QED BY <1>2, <1>3, <1>4

\* The client takes the first frame.
LEMMA TakingShortens ==
  ASSUME NEW u \in Seq(Frame), NEW v \in Seq(Frame), u # << >>
  PROVE  /\ Tail(u) \o v = Tail(u \o v)
         /\ u \o v \in Seq(Frame) /\ u \o v # << >> /\ (u \o v)[1] = Head(u)
         /\ Rest(u \o v, Tail(u) \o v, 1)
<1>1. /\ u \o v \in Seq(Frame) /\ Len(u \o v) = Len(u) + Len(v)
      /\ Len(u) \in Nat /\ Len(v) \in Nat /\ Len(u) >= 1
      /\ \A i \in 1 .. Len(u) + Len(v) : (u \o v)[i] = IF i <= Len(u) THEN u[i] ELSE v[i - Len(u)]
  BY ConcatProperties, LenProperties, EmptySeq
<1>2. u \o v # << >> /\ (u \o v)[1] = u[1] /\ Head(u) = u[1]
  BY <1>1
<1>3. /\ Tail(u) \in Seq(Frame) /\ Len(Tail(u)) = Len(u) - 1
      /\ \A i \in 1 .. Len(Tail(u)) : Tail(u)[i] = u[i + 1]
      /\ Tail(u \o v) \in Seq(Frame) /\ Len(Tail(u \o v)) = Len(u \o v) - 1
      /\ \A i \in 1 .. Len(Tail(u \o v)) : Tail(u \o v)[i] = (u \o v)[i + 1]
  BY <1>1, <1>2, HeadTailProperties
<1> DEFINE a == Tail(u) \o v
           b == Tail(u \o v)
<1>4. /\ a \in Seq(Frame) /\ Len(a) = Len(Tail(u)) + Len(v)
      /\ \A i \in 1 .. Len(Tail(u)) + Len(v) :
           a[i] = IF i <= Len(Tail(u)) THEN Tail(u)[i] ELSE v[i - Len(Tail(u))]
  BY <1>3, ConcatProperties
<1>5. Len(a) = Len(b) /\ Len(a) = Len(u) + Len(v) - 1
  BY <1>1, <1>3, <1>4
<1>6. ASSUME NEW i \in 1 .. Len(a) PROVE a[i] = b[i]
  <2>1. i \in Nat /\ i >= 1 /\ i <= Len(u) + Len(v) - 1 /\ i + 1 \in 1 .. Len(u) + Len(v)
    BY <1>1, <1>5
  <2>2. b[i] = IF i + 1 <= Len(u) THEN u[i + 1] ELSE v[i + 1 - Len(u)]
    BY <1>1, <1>3, <1>5, <2>1
  <2>3. a[i] = IF i <= Len(u) - 1 THEN Tail(u)[i] ELSE v[i - (Len(u) - 1)]
    BY <1>1, <1>3, <1>4, <1>5
  <2>4. CASE i <= Len(u) - 1
    <3>1. i \in 1 .. Len(Tail(u)) /\ i + 1 <= Len(u)
      BY <1>1, <1>3, <2>1, <2>4
    <3> QED BY <1>3, <2>2, <2>3, <2>4, <3>1
  <2>5. CASE ~(i <= Len(u) - 1)
    <3>1. ~(i + 1 <= Len(u)) /\ i - (Len(u) - 1) = i + 1 - Len(u)
      BY <1>1, <2>1, <2>5
    <3> QED BY <2>2, <2>3, <2>5, <3>1
  <2> QED BY <2>4, <2>5
<1>7. a = b
  BY <1>3, <1>4, <1>5, <1>6, SeqEqual
<1>8. Rest(u \o v, b, 1)
  BY <1>1, <1>3 DEF Rest
<1> QED BY <1>1, <1>2, <1>7, <1>8

\* The client closes its end, and what was on the socket is lost.
LEMMA ClosingCuts ==
  ASSUME NEW u \in Seq(Frame), NEW v \in Seq(Frame)
  PROVE  Rest(u \o v, v, Len(u)) /\ Len(u) \in Nat
<1>1. /\ Len(u \o v) = Len(u) + Len(v) /\ Len(u) \in Nat /\ Len(v) \in Nat
      /\ \A i \in 1 .. Len(u) + Len(v) : (u \o v)[i] = IF i <= Len(u) THEN u[i] ELSE v[i - Len(u)]
  BY ConcatProperties, LenProperties
<1>2. ASSUME NEW i \in 1 .. Len(v) PROVE v[i] = (u \o v)[i + Len(u)]
  <2>1. /\ i + Len(u) \in 1 .. Len(u) + Len(v) /\ ~(i + Len(u) <= Len(u))
        /\ i + Len(u) - Len(u) = i
    BY <1>1
  <2> QED BY <1>1, <2>1
<1> QED BY <1>1, <1>2 DEF Rest

\* Nothing on its way: nothing to be out of order.
LEMMA NothingOnItsWay ==
  /\ << >> \o << >> = << >>
  /\ AnswersAt(<< >>) = {} /\ TracesAt(<< >>) = {} /\ StatesAt(<< >>) = {}
  /\ \A number, last : InARow({}, number, last) /\ Rising({}, number, last)
BY DEF AnswersAt, TracesAt, StatesAt, InARow, Rising

-----------------------------------------------------------------------------
(***************************************************************************)
(* The invariant, client by client.                                        *)
(***************************************************************************)
PlainInv(c) ==
  /\ At(c, "absent") <=> link[c] = "absent"
  /\ link[c] = "absent" => /\ handler[c].own = 0 /\ shown[c] = 0
                           /\ forwarder[c] = [next |-> 0, held |-> 0, running |-> FALSE]
  /\ writing[c] => link[c] # "absent"
  /\ At(c, "gone") => ~writing[c]
  /\ ~writing[c] => replies[c] = << >>
  /\ link[c] # "up" => frames[c] = << >>
  /\ handler[c].at \in {"updating", "announcing", "looking", "replying"} => handler[c].heard >= 1
  /\ At(c, "replying") => /\ handler[c].reply.kind # "Trace"
                          /\ handler[c].reply.answers = handler[c].heard
  /\ forwarder[c].running => forwarder[c].next >= 1
  /\ forwarder[c].held # 0 => forwarder[c].next = forwarder[c].held + 1

AnswersInv(c) ==
  writing[c] => InARow(AnswersAt(Stream(c)), Answered(Stream(c)), LastAnswered(c))

TracesInv(c) ==
  writing[c] => InARow(TracesAt(Stream(c)), Values(Stream(c)), LastForwarded(c))

LoggedInv(c) ==
  /\ handler[c].own <= logLen /\ shown[c] <= logLen
  /\ \A i \in StatesAt(Stream(c)) : Stream(c)[i].value <= logLen
  /\ At(c, "replying") => handler[c].reply.value <= logLen

CatchesUpInv(c) ==
  link[c] = "up" =>
    /\ Rising(StatesAt(Stream(c)), Values(Stream(c)), shown[c])
    /\ At(c, "replying") /\ handler[c].reply.kind = "State" =>
         /\ handler[c].own <= handler[c].reply.value
         /\ shown[c] <= handler[c].reply.value
         /\ \A i \in StatesAt(Stream(c)) : Stream(c)[i].value <= handler[c].reply.value
    /\ /\ writing[c]
       /\ \/ handler[c].at \in {"reading", "updating"}
          \/ At(c, "replying") /\ handler[c].reply.kind # "State"
       => OwnShown(c)

ClientInv(c) ==
  PlainInv(c) /\ AnswersInv(c) /\ TracesInv(c) /\ LoggedInv(c) /\ CatchesUpInv(c)

ClientsInv == \A c \in Client : ClientInv(c)

\* The invariant speaks of each client by itself.
LEMMA ByClient == ConnectionIInv <=> TypeOK /\ ClientsInv
<1>1. ASSUME ConnectionIInv, NEW c \in Client PROVE ClientInv(c)
  <2>1. PlainInv(c)
    BY <1>1 DEF ConnectionIInv, Fresh, NothingLeft, ReplyAnswers, HeldIsNext, PlainInv
  <2>2. AnswersInv(c) /\ TracesInv(c) /\ LoggedInv(c)
    BY <1>1 DEF ConnectionIInv, AnswersInOrder, NoTraceGaps, ShownWasLogged,
                AnswersInv, TracesInv, LoggedInv
  <2>3. CatchesUpInv(c)
    BY <1>1, <2>1 DEF ConnectionIInv, PlainInv, SnapshotsCatchUp, ReplyCatchesUp, At, CatchesUpInv
  <2> QED BY <2>1, <2>2, <2>3 DEF ClientInv
<1>2. ASSUME TypeOK, ClientsInv PROVE ConnectionIInv
  <2>1. Fresh /\ NothingLeft /\ ReplyAnswers /\ HeldIsNext
    BY <1>2 DEF ClientsInv, ClientInv, Fresh, NothingLeft, ReplyAnswers, HeldIsNext, PlainInv
  <2>2. AnswersInOrder /\ NoTraceGaps /\ ShownWasLogged
    BY <1>2 DEF ClientsInv, ClientInv, AnswersInOrder, NoTraceGaps, ShownWasLogged,
                AnswersInv, TracesInv, LoggedInv
  <2>3. ReplyCatchesUp /\ SnapshotsCatchUp
    BY <1>2 DEF ClientsInv, ClientInv, SnapshotsCatchUp, ReplyCatchesUp, At, CatchesUpInv
  <2> QED BY <1>2, <2>1, <2>2, <2>3 DEF ConnectionIInv
<1>3. ConnectionIInv => TypeOK
  BY DEF ConnectionIInv
<1> QED BY <1>1, <1>2, <1>3 DEF ClientsInv

\* The same after a step.
LEMMA ByClientNext == ConnectionIInv' <=> TypeOK' /\ ClientsInv'
BY ByClient, PTL

\* What the parts of a client's connection are.
LEMMA Typed ==
  ASSUME TypeOK, NEW c \in Client
  PROVE  /\ logLen \in Nat /\ due \in Nat /\ published \in Nat
         /\ handler[c].at \in Stages /\ handler[c].heard \in Nat /\ handler[c].own \in Nat
         /\ handler[c].reply \in Frame
         /\ forwarder[c].next \in Nat /\ forwarder[c].held \in Nat
         /\ forwarder[c].running \in BOOLEAN
         /\ replies[c] \in Seq(Frame) /\ frames[c] \in Seq(Frame)
         /\ requests[c] \in Seq(Command)
         /\ Stream(c) \in Seq(Frame)
         /\ shown[c] \in Nat
         /\ writing[c] \in BOOLEAN /\ link[c] \in {"absent", "up", "closed"}
<1>1. logLen \in Nat /\ due \in Nat /\ published \in Nat
  BY DEF TypeOK, server
<1>2. /\ handler[c] \in [at : Stages, heard : Nat, own : Nat, reply : Frame]
      /\ forwarder[c] \in [next : Nat, held : Nat, running : BOOLEAN]
      /\ replies[c] \in Seq(Frame) /\ frames[c] \in Seq(Frame)
      /\ requests[c] \in Seq(Command)
      /\ shown[c] \in Nat
      /\ writing[c] \in BOOLEAN /\ link[c] \in {"absent", "up", "closed"}
  BY DEF TypeOK
<1>3. Stream(c) \in Seq(Frame)
  BY <1>2, ConcatProperties DEF Stream
<1> QED BY <1>1, <1>2, <1>3

\* What one client's tasks do leaves the others' alone.
Apart(d) ==
  UNCHANGED << handler[d], forwarder[d], replies[d], writing[d], link[d], frames[d], shown[d] >>

\* A client that a step leaves alone; the log does not get shorter.
LEMMA ApartKeeps ==
  ASSUME TypeOK, NEW d \in Client, ClientInv(d), Apart(d), logLen' \in Nat, logLen <= logLen'
  PROVE  ClientInv(d)'
<1>1. /\ handler'[d] = handler[d] /\ forwarder'[d] = forwarder[d] /\ replies'[d] = replies[d]
      /\ writing'[d] = writing[d] /\ link'[d] = link[d] /\ frames'[d] = frames[d]
      /\ shown'[d] = shown[d]
  BY DEF Apart
<1>2. Stream(d)' = Stream(d)
  BY <1>1 DEF Stream
<1>3. PlainInv(d)'
  BY <1>1 DEF ClientInv, PlainInv, At
<1>4. AnswersInv(d)' /\ TracesInv(d)'
  BY <1>1, <1>2 DEF ClientInv, AnswersInv, TracesInv, LastAnswered, LastForwarded, At
<1>5. CatchesUpInv(d)'
  BY <1>1, <1>2 DEF ClientInv, CatchesUpInv, OwnShown, At
<1>6. LoggedInv(d)'
  <2>1. /\ logLen \in Nat /\ handler[d].own \in Nat /\ shown[d] \in Nat
        /\ handler[d].reply.value \in Nat
        /\ \A i \in StatesAt(Stream(d)) : Stream(d)[i].value \in Nat
    BY Typed, Positions DEF Frame
  <2>2. /\ handler[d].own <= logLen' /\ shown[d] <= logLen'
        /\ \A i \in StatesAt(Stream(d)) : Stream(d)[i].value <= logLen'
        /\ At(d, "replying") => handler[d].reply.value <= logLen'
    BY <2>1 DEF ClientInv, LoggedInv
  <2> QED BY <1>1, <1>2, <2>2 DEF LoggedInv, At
<1> QED BY <1>3, <1>4, <1>5, <1>6 DEF ClientInv

-----------------------------------------------------------------------------
(***************************************************************************)
(* The steps of the handler.                                               *)
(***************************************************************************)

\* What every step of client c's tasks shows, and what follows from it.
StepKeeps(c) ==
  /\ TypeOK' /\ ClientInv(c)' /\ logLen <= logLen'
  /\ \A d \in Client : d # c => Apart(d)

HandlerState == [at : Stages, heard : Nat, own : Nat, reply : Frame]

\* The handler and the forwarder of a client, as records.
LEMMA PartsTyped ==
  ASSUME TypeOK, NEW c \in Client
  PROVE  /\ handler[c] \in HandlerState
         /\ forwarder[c] \in [next : Nat, held : Nat, running : BOOLEAN]
BY DEF TypeOK, HandlerState

\* A handler that goes on has a state, and the others keep theirs.
LEMMA HandlerMoves ==
  ASSUME TypeOK, NEW c \in Client, NEW h \in HandlerState,
         handler' = [handler EXCEPT ![c] = h]
  PROVE  /\ handler' \in [Client -> HandlerState]
         /\ handler'[c] = h
         /\ \A d \in Client : d # c => handler'[d] = handler[d]
BY DEF TypeOK, HandlerState

(***************************************************************************)
(* A step of the handler that sends nothing: what is on its way to the     *)
(* client stays as it is, and the handler's new state has to agree with it.*)
(***************************************************************************)
SendsNothing(c, h) ==
  /\ handler' = [handler EXCEPT ![c] = h]
  /\ requests' \in [Client -> Seq(Command)]
  /\ logLen' \in Nat /\ due' \in Nat /\ published' \in Nat /\ logLen <= logLen'
  /\ UNCHANGED << forwarder, replies, writing, link, frames, shown >>

Executing(c, h) ==
  /\ handler[c].at \notin {"absent", "gone"}
  /\ h.at \notin {"absent", "gone", "reading"}
  /\ h.heard >= 1 /\ h.heard - 1 = LastAnswered(c)
  /\ h.at = "replying" => h.reply.kind # "Trace" /\ h.reply.answers = h.heard

ShowsLogged(h) == h.own <= logLen' /\ (h.at = "replying" => h.reply.value <= logLen')

CatchesUp(c, h) ==
  /\ h.at = "replying" /\ h.reply.kind = "State" =>
       /\ h.own <= h.reply.value
       /\ shown[c] <= h.reply.value
       /\ \A i \in StatesAt(Stream(c)) : Stream(c)[i].value <= h.reply.value
  /\ writing[c] /\ (h.at = "updating" \/ (h.at = "replying" /\ h.reply.kind # "State")) =>
       \/ h.own <= shown[c]
       \/ \E i \in StatesAt(Stream(c)) : h.own <= Stream(c)[i].value

\* A step of the handler that sends nothing keeps the invariant of its client.
LEMMA HandlerKeeps ==
  ASSUME TypeOK, NEW c \in Client, ClientInv(c), NEW h \in HandlerState,
         SendsNothing(c, h), Executing(c, h), ShowsLogged(h),
         link[c] = "up" => CatchesUp(c, h)
  PROVE  StepKeeps(c)
<1> USE DEF SendsNothing
<1>1. /\ handler' \in [Client -> HandlerState]
      /\ handler'[c] = h
      /\ \A d \in Client : d # c => handler'[d] = handler[d]
  BY HandlerMoves
<1>2. Stream(c)' = Stream(c)
  BY DEF Stream
<1>3. TypeOK'
  BY <1>1 DEF TypeOK, server, HandlerState
<1>4. LastAnswered(c)' = LastAnswered(c)
  BY <1>1 DEF Executing, LastAnswered, At
<1>5. PlainInv(c)'
  BY <1>1 DEF Executing, ClientInv, PlainInv, At
<1>6. AnswersInv(c)' /\ TracesInv(c)'
  BY <1>2, <1>4 DEF ClientInv, AnswersInv, TracesInv, LastForwarded
<1>7. LoggedInv(c)'
  <2>1. /\ logLen \in Nat /\ shown[c] \in Nat
        /\ \A i \in StatesAt(Stream(c)) : Stream(c)[i].value \in Nat
    BY Typed, Positions DEF Frame
  <2>2. shown[c] <= logLen' /\ \A i \in StatesAt(Stream(c)) : Stream(c)[i].value <= logLen'
    BY <2>1 DEF ClientInv, LoggedInv
  <2> QED BY <1>1, <1>2, <2>2 DEF ShowsLogged, LoggedInv, At
<1>8. CatchesUpInv(c)'
  BY <1>1, <1>2 DEF Executing, CatchesUp, ClientInv, CatchesUpInv, OwnShown, At
<1>9. \A d \in Client : d # c => Apart(d)
  BY <1>1 DEF Apart
<1> QED BY <1>3, <1>5, <1>6, <1>7, <1>8, <1>9 DEF StepKeeps, ClientInv

\* A command is read: the one before has been answered.
LEMMA ReadCommandKeeps ==
  ASSUME TypeOK, NEW c \in Client, ClientInv(c), ReadCommand(c)
  PROVE  StepKeeps(c)
<1> DEFINE a == IF Head(requests[c]) = "Update" THEN "updating" ELSE "looking"
           n == handler[c].heard + 1
           h == [handler[c] EXCEPT !.at = a, !.heard = n]
<1>1. /\ handler[c].at = "reading" /\ requests[c] # << >>
      /\ requests' = [requests EXCEPT ![c] = Tail(@)]
      /\ handler' = [handler EXCEPT ![c] = h]
      /\ UNCHANGED << server, forwarder, replies, writing, link, frames, shown >>
  BY DEF ReadCommand, At
<1>2. a \in {"updating", "looking"} /\ a \in Stages
  BY DEF Stages
<1>3. n \in Nat /\ n >= 1 /\ n - 1 = LastAnswered(c)
  <2>1. handler[c].heard \in Nat /\ LastAnswered(c) = handler[c].heard
    BY <1>1, Typed DEF LastAnswered, At
  <2> QED BY <2>1
<1> HIDE DEF a, n
<1>4. /\ h \in HandlerState /\ h.at = a /\ h.heard = n
      /\ h.own = handler[c].own
  BY <1>2, <1>3, PartsTyped DEF HandlerState
<1> HIDE DEF h
<1>5. requests' \in [Client -> Seq(Command)]
  BY <1>1, HeadTailProperties DEF TypeOK
<1>6. logLen' = logLen /\ due' = due /\ published' = published
  BY <1>1 DEF server
<1>7. h.own <= logLen
  BY <1>4 DEF ClientInv, LoggedInv
<1>8. link[c] = "up" /\ writing[c] =>
        \/ h.own <= shown[c]
        \/ \E i \in StatesAt(Stream(c)) : h.own <= Stream(c)[i].value
  BY <1>1, <1>4 DEF ClientInv, CatchesUpInv, OwnShown
<1>9. logLen \in Nat /\ due \in Nat /\ published \in Nat
  BY Typed
<1>10. SendsNothing(c, h)
  BY <1>1, <1>5, <1>6, <1>9 DEF SendsNothing
<1>11. Executing(c, h)
  BY <1>1, <1>2, <1>3, <1>4 DEF Executing
<1>12. ShowsLogged(h) /\ (link[c] = "up" => CatchesUp(c, h))
  BY <1>2, <1>4, <1>6, <1>7, <1>8 DEF ShowsLogged, CatchesUp
<1> QED BY <1>4, <1>10, <1>11, <1>12, HandlerKeeps

\* An update is accepted: the log is as long as the client is owed.
LEMMA AcceptKeeps ==
  ASSUME TypeOK, NEW c \in Client, ClientInv(c), Accept(c)
  PROVE  StepKeeps(c)
<1> DEFINE n == logLen + 1
           h == [handler[c] EXCEPT !.at = "announcing", !.own = n]
<1>1. /\ handler[c].at = "updating" /\ logLen' = n
      /\ handler' = [handler EXCEPT ![c] = h]
      /\ UNCHANGED << due, published, forwarder, replies, writing, socket >>
  BY DEF Accept, At
<1>2. n \in Nat /\ logLen <= n
  BY Typed
<1> HIDE DEF n
<1>3. /\ h \in HandlerState /\ h.at = "announcing" /\ h.own = n
      /\ h.heard = handler[c].heard
  BY <1>2, PartsTyped DEF HandlerState, Stages
<1> HIDE DEF h
<1>4. handler[c].heard >= 1 /\ LastAnswered(c) = handler[c].heard - 1
  BY <1>1 DEF ClientInv, PlainInv, LastAnswered, At
<1>5. /\ due \in Nat /\ published \in Nat /\ requests' \in [Client -> Seq(Command)]
      /\ UNCHANGED << forwarder, replies, writing, link, frames, shown >>
  BY <1>1, Typed DEF socket, TypeOK
<1>6. SendsNothing(c, h)
  BY <1>1, <1>2, <1>5 DEF SendsNothing
<1>7. Executing(c, h)
  BY <1>1, <1>3, <1>4 DEF Executing
<1>8. ShowsLogged(h) /\ CatchesUp(c, h)
  BY <1>1, <1>2, <1>3 DEF ShowsLogged, CatchesUp
<1> QED BY <1>3, <1>6, <1>7, <1>8, HandlerKeeps

\* An update is refused: the reply is an error.
LEMMA RefuseKeeps ==
  ASSUME TypeOK, NEW c \in Client, ClientInv(c), Refuse(c)
  PROVE  StepKeeps(c)
<1> DEFINE r == [kind |-> "Error", answers |-> handler[c].heard, value |-> 0]
           h == [handler[c] EXCEPT !.at = "replying", !.reply = r]
<1>1. /\ handler[c].at = "updating"
      /\ handler' = [handler EXCEPT ![c] = h]
      /\ UNCHANGED << server, forwarder, replies, writing, socket >>
  BY DEF Refuse, At
<1>2. r \in Frame /\ r.kind = "Error" /\ r.answers = handler[c].heard /\ r.value = 0
  BY Typed DEF Frame
<1> HIDE DEF r
<1>3. /\ h \in HandlerState /\ h.at = "replying" /\ h.reply = r
      /\ h.heard = handler[c].heard /\ h.own = handler[c].own
  BY <1>2, PartsTyped DEF HandlerState, Stages
<1> HIDE DEF h
<1>4. handler[c].heard >= 1 /\ LastAnswered(c) = handler[c].heard - 1
  BY <1>1 DEF ClientInv, PlainInv, LastAnswered, At
<1>5. logLen' = logLen /\ due' = due /\ published' = published
  BY <1>1 DEF server
<1>6. h.own <= logLen
  BY <1>3 DEF ClientInv, LoggedInv
<1>7. link[c] = "up" /\ writing[c] =>
        \/ h.own <= shown[c]
        \/ \E i \in StatesAt(Stream(c)) : h.own <= Stream(c)[i].value
  BY <1>1, <1>3 DEF ClientInv, CatchesUpInv, OwnShown
<1>8. /\ logLen \in Nat /\ due \in Nat /\ published \in Nat
      /\ requests' \in [Client -> Seq(Command)]
      /\ UNCHANGED << forwarder, replies, writing, link, frames, shown >>
  BY <1>1, Typed DEF socket, TypeOK
<1>9. SendsNothing(c, h)
  BY <1>1, <1>5, <1>8 DEF SendsNothing
<1>10. Executing(c, h)
  BY <1>1, <1>2, <1>3, <1>4 DEF Executing
<1>11. ShowsLogged(h) /\ (link[c] = "up" => CatchesUp(c, h))
  BY <1>2, <1>3, <1>5, <1>6, <1>7, <1>8 DEF ShowsLogged, CatchesUp
<1> QED BY <1>3, <1>9, <1>10, <1>11, HandlerKeeps

\* The bus gets the event of the update.
LEMMA AnnounceKeeps ==
  ASSUME TypeOK, NEW c \in Client, ClientInv(c), Announce(c)
  PROVE  StepKeeps(c)
<1> DEFINE h == [handler[c] EXCEPT !.at = "looking"]
<1>1. /\ handler[c].at = "announcing" /\ published' = published + 1
      /\ handler' = [handler EXCEPT ![c] = h]
      /\ UNCHANGED << logLen, due, forwarder, replies, writing, socket >>
  BY DEF Announce, At
<1>2. /\ h \in HandlerState /\ h.at = "looking"
      /\ h.heard = handler[c].heard /\ h.own = handler[c].own
  BY PartsTyped DEF HandlerState, Stages
<1> HIDE DEF h
<1>3. handler[c].heard >= 1 /\ LastAnswered(c) = handler[c].heard - 1
  BY <1>1 DEF ClientInv, PlainInv, LastAnswered, At
<1>4. h.own <= logLen
  BY <1>2 DEF ClientInv, LoggedInv
<1>5. /\ requests' \in [Client -> Seq(Command)]
      /\ UNCHANGED << forwarder, replies, writing, link, frames, shown >>
  BY <1>1 DEF socket, TypeOK
<1>6. logLen' = logLen /\ logLen \in Nat /\ due' \in Nat /\ published' \in Nat
  BY <1>1, Typed
<1>7. SendsNothing(c, h)
  BY <1>1, <1>5, <1>6 DEF SendsNothing
<1>8. Executing(c, h)
  BY <1>1, <1>2, <1>3 DEF Executing
<1>9. ShowsLogged(h) /\ CatchesUp(c, h)
  BY <1>2, <1>4, <1>6 DEF ShowsLogged, CatchesUp
<1> QED BY <1>2, <1>7, <1>8, <1>9, HandlerKeeps

\* The snapshot is made: no earlier one shows a longer log.
LEMMA LookUpKeeps ==
  ASSUME TypeOK, NEW c \in Client, ClientInv(c), LookUp(c)
  PROVE  StepKeeps(c)
<1> DEFINE r == [kind |-> "State", answers |-> handler[c].heard, value |-> logLen]
           h == [handler[c] EXCEPT !.at = "replying", !.reply = r]
<1>1. /\ handler[c].at = "looking"
      /\ handler' = [handler EXCEPT ![c] = h]
      /\ UNCHANGED << server, forwarder, replies, writing, socket >>
  BY DEF LookUp, At
<1>2. r \in Frame /\ r.kind = "State" /\ r.answers = handler[c].heard /\ r.value = logLen
  BY Typed DEF Frame
<1> HIDE DEF r
<1>3. /\ h \in HandlerState /\ h.at = "replying" /\ h.reply = r
      /\ h.heard = handler[c].heard /\ h.own = handler[c].own
  BY <1>2, PartsTyped DEF HandlerState, Stages
<1> HIDE DEF h
<1>4. handler[c].heard >= 1 /\ LastAnswered(c) = handler[c].heard - 1
  BY <1>1 DEF ClientInv, PlainInv, LastAnswered, At
<1>5. logLen' = logLen /\ due' = due /\ published' = published
  BY <1>1 DEF server
<1>6. /\ h.own <= logLen /\ shown[c] <= logLen
      /\ \A i \in StatesAt(Stream(c)) : Stream(c)[i].value <= logLen
  BY <1>3 DEF ClientInv, LoggedInv
<1>7. /\ logLen \in Nat /\ due \in Nat /\ published \in Nat
      /\ requests' \in [Client -> Seq(Command)]
      /\ UNCHANGED << forwarder, replies, writing, link, frames, shown >>
  BY <1>1, Typed DEF socket, TypeOK
<1>8. SendsNothing(c, h)
  BY <1>1, <1>5, <1>7 DEF SendsNothing
<1>9. Executing(c, h)
  BY <1>1, <1>2, <1>3, <1>4 DEF Executing
<1>10. ShowsLogged(h) /\ CatchesUp(c, h)
  BY <1>2, <1>3, <1>5, <1>6, <1>7 DEF ShowsLogged, CatchesUp
<1> QED BY <1>3, <1>8, <1>9, <1>10, HandlerKeeps

\* The snapshots on their way, when a frame goes to the end.
LEMMA GrownStates ==
  ASSUME NEW s \in Seq(Frame), NEW f \in Frame
  PROVE  /\ \A i \in StatesAt(Append(s, f)) :
              \/ i \in StatesAt(s) /\ Append(s, f)[i] = s[i]
              \/ f.kind = "State" /\ Append(s, f)[i] = f
         /\ \A i \in StatesAt(s) : i \in StatesAt(Append(s, f)) /\ Append(s, f)[i] = s[i]
         /\ f.kind = "State" => \E i \in StatesAt(Append(s, f)) : Append(s, f)[i] = f
<1>1. Len(s) \in Nat /\ StatesAt(s) \subseteq 1 .. Len(s)
  BY Positions
<1>2. /\ \A i \in 1 .. Len(s) : Append(s, f)[i] = s[i]
      /\ Append(s, f)[Len(s) + 1] = f
      /\ StatesAt(Append(s, f)) =
           IF f.kind = "State" THEN StatesAt(s) \union {Len(s) + 1} ELSE StatesAt(s)
  BY GrownPositions
<1> QED BY <1>1, <1>2

(***************************************************************************)
(* The reply is put into the channel, or dropped when there is no writer.  *)
(***************************************************************************)
LEMMA ReplyKeeps ==
  ASSUME TypeOK, NEW c \in Client, ClientInv(c), Reply(c)
  PROVE  StepKeeps(c)
<1> DEFINE f == handler[c].reply
           s == Stream(c)
           h == [handler[c] EXCEPT !.at = "reading", !.reply = NoReply]
<1>1. /\ handler[c].at = "replying"
      /\ handler' = [handler EXCEPT ![c] = h]
      /\ UNCHANGED << server, forwarder, writing, socket >>
      /\ \/ /\ writing[c] /\ Room(c)
            /\ replies' = [replies EXCEPT ![c] = Append(@, f)]
         \/ /\ ~writing[c]
            /\ UNCHANGED replies
  BY DEF Reply, At
<1>2. /\ h \in HandlerState /\ h.at = "reading" /\ h.heard = handler[c].heard
      /\ h.own = handler[c].own
  BY PartsTyped DEF HandlerState, Stages, NoReply, Frame
<1> HIDE DEF h
<1>3. /\ handler' \in [Client -> HandlerState]
      /\ handler'[c] = h
      /\ \A d \in Client : d # c => handler'[d] = handler[d]
  BY <1>1, <1>2, HandlerMoves
<1>4. /\ f \in Frame /\ f.kind # "Trace" /\ f.answers = handler[c].heard
      /\ handler[c].heard \in Nat /\ handler[c].heard >= 1
      /\ LastAnswered(c) = handler[c].heard - 1
      /\ f.value <= logLen
  BY <1>1, Typed DEF ClientInv, PlainInv, LoggedInv, LastAnswered, At
<1>5. LastAnswered(c)' = handler[c].heard
  BY <1>2, <1>3 DEF LastAnswered, At
<1>6. /\ UNCHANGED << logLen, due, published, requests, link, frames, shown, writing, forwarder >>
      /\ logLen \in Nat /\ logLen <= logLen
      /\ replies[c] \in Seq(Frame) /\ frames[c] \in Seq(Frame) /\ s \in Seq(Frame)
  BY <1>1, Typed DEF server, socket
<1>7. PlainInv(c)' /\ \A d \in Client : d # c => Apart(d)
  <2>1. ~writing[c] => replies'[c] = << >>
    BY <1>1 DEF ClientInv, PlainInv
  <2>2. PlainInv(c)'
    BY <1>1, <1>2, <1>3, <1>6, <2>1 DEF ClientInv, PlainInv, At
  <2>3. \A d \in Client : d # c => replies'[d] = replies[d]
    BY <1>1 DEF TypeOK
  <2> QED BY <1>3, <1>6, <2>2, <2>3 DEF Apart
<1>8. CASE ~writing[c]
  <2>1. replies' = replies /\ s' = s
    BY <1>1, <1>6, <1>8 DEF Stream
  <2>2. TypeOK'
    BY <1>3, <1>6, <2>1 DEF TypeOK, server, HandlerState
  <2>3. AnswersInv(c)' /\ TracesInv(c)'
    BY <1>6, <1>8, <2>1 DEF ClientInv, AnswersInv, TracesInv, LastForwarded
  <2>4. LoggedInv(c)' /\ CatchesUpInv(c)'
    BY <1>2, <1>3, <1>6, <1>8, <2>1 DEF ClientInv, LoggedInv, CatchesUpInv, At
  <2> QED BY <1>6, <1>7, <2>2, <2>3, <2>4 DEF StepKeeps, ClientInv
<1>9. CASE writing[c]
  <2>1. /\ Room(c) /\ replies' = [replies EXCEPT ![c] = Append(@, f)]
        /\ replies'[c] = Append(replies[c], f)
    BY <1>1, <1>9 DEF TypeOK
  <2>2. s' = Append(s, f)
    <3>1. frames[c] \o Append(replies[c], f) = Append(frames[c] \o replies[c], f)
      BY <1>4, <1>6, EndGrows
    <3> QED BY <1>6, <2>1, <3>1 DEF Stream
  <2>3. TypeOK'
    <3>1. Append(replies[c], f) \in Seq(Frame) /\ Len(Append(replies[c], f)) = Len(replies[c]) + 1
      BY <1>4, <1>6, AppendProperties
    <3>2. Len(Append(replies[c], f)) <= ReplyCapacity
      BY <1>6, <2>1, <3>1, LenProperties, CapacityAssumption DEF Room
    <3>3. /\ replies' \in [Client -> Seq(Frame)]
          /\ \A d \in Client : Len(replies'[d]) <= ReplyCapacity
      BY <2>1, <3>1, <3>2 DEF TypeOK
    <3> QED BY <1>3, <1>6, <3>3 DEF TypeOK, server, HandlerState
  <2>4. AnswersInv(c)'
    <3>1. InARow(AnswersAt(s), Answered(s), handler[c].heard - 1)
      BY <1>4, <1>9 DEF ClientInv, AnswersInv
    <3>2. handler[c].heard - 1 \in Nat /\ handler[c].heard - 1 + 1 = handler[c].heard
      BY <1>4
    <3> HIDE DEF f, s
    <3>3. InARow(AnswersAt(Append(s, f)), Answered(Append(s, f)), handler[c].heard)
      BY <1>4, <1>6, <3>1, <3>2, AnswersGrow
    <3> USE DEF s
    <3> QED BY <1>5, <2>2, <3>3 DEF AnswersInv
  <2>5. TracesInv(c)'
    <3>1. InARow(TracesAt(s), Values(s), LastForwarded(c))
      BY <1>9 DEF ClientInv, TracesInv
    <3>2. InARow(TracesAt(Append(s, f)), Values(Append(s, f)), LastForwarded(c))
      BY <1>4, <1>6, <3>1, TracesGrow
    <3> QED BY <1>6, <2>2, <3>2 DEF TracesInv, LastForwarded
  <2>6. /\ \A i \in StatesAt(s') : \/ i \in StatesAt(s) /\ s'[i] = s[i]
                                   \/ f.kind = "State" /\ s'[i] = f
        /\ \A i \in StatesAt(s) : i \in StatesAt(s') /\ s'[i] = s[i]
        /\ f.kind = "State" => \E i \in StatesAt(s') : s'[i] = f
    <3> HIDE DEF f
    <3>1. StatesAt(s') = StatesAt(Append(s, f)) /\ s' = Append(s, f)
      BY <2>2
    <3> DEFINE t == Append(s, f)
    <3>2. s \in Seq(Frame) /\ f \in Frame
      BY <1>4, <1>6
    <3>3. /\ \A i \in StatesAt(t) : \/ i \in StatesAt(s) /\ t[i] = s[i]
                                    \/ f.kind = "State" /\ t[i] = f
          /\ \A i \in StatesAt(s) : i \in StatesAt(t) /\ t[i] = s[i]
          /\ f.kind = "State" => \E i \in StatesAt(t) : t[i] = f
      BY <3>2, GrownStates
    <3> HIDE DEF t, s
    <3>4. s' = t
      BY <3>1 DEF t
    <3> QED BY <3>3, <3>4
  <2>7. LoggedInv(c)'
    <3>1. \A i \in StatesAt(s') : s'[i].value <= logLen
      BY <1>4, <2>6 DEF ClientInv, LoggedInv
    <3>2. handler[c].own <= logLen /\ shown[c] <= logLen
      BY DEF ClientInv, LoggedInv
    <3> QED BY <1>2, <1>3, <1>6, <3>1, <3>2 DEF LoggedInv, At
  <2>8. CatchesUpInv(c)'
    <3> SUFFICES ASSUME link[c] = "up"
                 PROVE  /\ Rising(StatesAt(s'), Values(s'), shown[c])
                        /\ OwnShown(c)'
      BY <1>2, <1>3, <1>6 DEF CatchesUpInv, At
    <3>1. Rising(StatesAt(s), Values(s), shown[c])
      BY DEF ClientInv, CatchesUpInv
    <3>2. f.kind = "State" => /\ handler[c].own <= f.value
                              /\ shown[c] <= f.value
                              /\ \A i \in StatesAt(s) : s[i].value <= f.value
      BY <1>1 DEF ClientInv, CatchesUpInv, At
    <3>3. f.kind # "State" => OwnShown(c)
      BY <1>1, <1>9 DEF ClientInv, CatchesUpInv, At
    <3>4. Rising(StatesAt(Append(s, f)), Values(Append(s, f)), shown[c])
      BY <1>4, <1>6, <3>1, <3>2, StatesGrow
    <3>5. OwnShown(c)'
      <4>1. CASE f.kind = "State"
        BY <1>2, <1>3, <2>6, <3>2, <4>1 DEF OwnShown
      <4>2. CASE f.kind # "State"
        BY <1>2, <1>3, <1>6, <2>6, <3>3, <4>2 DEF OwnShown
      <4> QED BY <4>1, <4>2
    <3> QED BY <2>2, <3>4, <3>5
  <2> QED BY <1>6, <1>7, <2>3, <2>4, <2>5, <2>7, <2>8 DEF StepKeeps, ClientInv
<1> QED BY <1>8, <1>9, Typed

\* Reading has failed, and with the tasks the reply channel is gone.
LEMMA HangUpKeeps ==
  ASSUME TypeOK, NEW c \in Client, ClientInv(c), HangUp(c)
  PROVE  StepKeeps(c)
<1> DEFINE h == [handler[c] EXCEPT !.at = "gone"]
           w == [forwarder[c] EXCEPT !.running = FALSE, !.held = 0]
<1>1. /\ handler[c].at = "reading" /\ link[c] = "closed"
      /\ handler' = [handler EXCEPT ![c] = h]
      /\ forwarder' = [forwarder EXCEPT ![c] = w]
      /\ writing' = [writing EXCEPT ![c] = FALSE]
      /\ replies' = [replies EXCEPT ![c] = << >>]
      /\ UNCHANGED << server, socket >>
  BY DEF HangUp, At
<1>2. /\ h \in HandlerState /\ h.at = "gone" /\ h.own = handler[c].own
      /\ w \in [next : Nat, held : Nat, running : BOOLEAN] /\ w.running = FALSE /\ w.held = 0
  BY PartsTyped DEF HandlerState, Stages
<1> HIDE DEF h, w
<1>3. /\ handler' \in [Client -> HandlerState]
      /\ handler'[c] = h
      /\ \A d \in Client : d # c => handler'[d] = handler[d]
  BY <1>1, <1>2, HandlerMoves
<1>4. /\ forwarder' \in [Client -> [next : Nat, held : Nat, running : BOOLEAN]]
      /\ writing' \in [Client -> BOOLEAN]
      /\ replies' \in [Client -> Seq(Frame)]
      /\ forwarder'[c] = w /\ writing'[c] = FALSE /\ replies'[c] = << >>
      /\ \A d \in Client : d # c => /\ forwarder'[d] = forwarder[d] /\ writing'[d] = writing[d]
                                    /\ replies'[d] = replies[d]
  BY <1>1, <1>2 DEF TypeOK
<1>5. UNCHANGED << logLen, due, published, requests, link, frames, shown >> /\ logLen \in Nat
  BY <1>1, Typed DEF server, socket
<1>6. TypeOK'
  <2>1. \A d \in Client : Len(replies'[d]) <= ReplyCapacity
    <3>1. Len(<< >>) = 0 /\ 0 <= ReplyCapacity
      BY CapacityAssumption
    <3>2. \A d \in Client : replies'[d] = replies[d] \/ replies'[d] = << >>
      BY <1>4
    <3> QED BY <3>1, <3>2 DEF TypeOK
  <2> QED BY <1>3, <1>4, <1>5, <2>1 DEF TypeOK, server, HandlerState
<1>7. Stream(c)' = << >>
  BY <1>1, <1>4, <1>5, NothingOnItsWay DEF ClientInv, PlainInv, Stream
<1>8. PlainInv(c)'
  BY <1>1, <1>2, <1>3, <1>4, <1>5 DEF ClientInv, PlainInv, At
<1>9. AnswersInv(c)' /\ TracesInv(c)'
  BY <1>7, NothingOnItsWay DEF AnswersInv, TracesInv
<1>10. LoggedInv(c)' /\ CatchesUpInv(c)'
  BY <1>1, <1>2, <1>3, <1>5, <1>7, NothingOnItsWay DEF ClientInv, LoggedInv, CatchesUpInv, At
<1>11. \A d \in Client : d # c => Apart(d)
  BY <1>3, <1>4, <1>5 DEF Apart
<1> QED BY <1>5, <1>6, <1>8, <1>9, <1>10, <1>11 DEF StepKeeps, ClientInv

-----------------------------------------------------------------------------
(***************************************************************************)
(* The steps of the forwarder and the writer.                              *)
(***************************************************************************)
ForwarderState == [next : Nat, held : Nat, running : BOOLEAN]

\* The forwarder takes the next event, or ends because it lags.
LEMMA ForwardKeeps ==
  ASSUME TypeOK, NEW c \in Client, ClientInv(c), Forward(c)
  PROVE  StepKeeps(c)
<1> DEFINE n == forwarder[c].next
           m == n + 1
           ended == [forwarder[c] EXCEPT !.running = FALSE]
           going == [forwarder[c] EXCEPT !.held = n, !.next = m]
           w == IF Lagged(c) THEN ended ELSE going
<1>1. /\ forwarder[c].running /\ forwarder[c].held = 0
      /\ forwarder' = [forwarder EXCEPT ![c] = w]
      /\ UNCHANGED << server, handler, replies, writing, socket >>
  <2>1. forwarder' = [forwarder EXCEPT ![c] = w]
    BY DEF Forward, TypeOK
  <2> QED BY <2>1 DEF Forward, Receivable
<1>2. n \in Nat /\ n >= 1 /\ m \in Nat /\ m = n + 1 /\ forwarder[c] \in ForwarderState
  <2>1. n \in Nat /\ n >= 1
    BY <1>1, Typed DEF ClientInv, PlainInv
  <2>2. forwarder[c] \in ForwarderState
    BY DEF TypeOK, ForwarderState
  <2> QED BY <2>1, <2>2
<1> HIDE DEF m
<1>3. /\ ended \in ForwarderState /\ going \in ForwarderState
      /\ ended.running = FALSE /\ ended.held = 0 /\ ended.next = n
      /\ going.held = n /\ going.next = m
  BY <1>1, <1>2 DEF ForwarderState
<1> HIDE DEF ended, going
<1>4. /\ w \in ForwarderState
      /\ (w.running = FALSE /\ w.held = 0 /\ w.next = n) \/ (w.held = n /\ w.next = m)
  BY <1>3
<1> HIDE DEF w, n
<1>5. /\ forwarder' \in [Client -> ForwarderState]
      /\ forwarder'[c] = w
      /\ \A d \in Client : d # c => forwarder'[d] = forwarder[d]
  BY <1>1, <1>4 DEF TypeOK, ForwarderState
<1>6. /\ UNCHANGED << logLen, due, published, requests, link, frames, shown, handler, replies, writing >>
      /\ logLen \in Nat
  BY <1>1, Typed DEF server, socket
<1>7. TypeOK'
  BY <1>5, <1>6 DEF TypeOK, server, ForwarderState
<1>8. Stream(c)' = Stream(c)
  BY <1>6 DEF Stream
<1>9. LastForwarded(c) = n - 1 /\ LastForwarded(c)' = n - 1
  <2>1. LastForwarded(c) = n - 1
    BY <1>1 DEF LastForwarded, n
  <2>2. LastForwarded(c)' = n - 1
    BY <1>2, <1>4, <1>5 DEF LastForwarded
  <2> QED BY <2>1, <2>2
<1>10. PlainInv(c)'
  <2>1. link[c] # "absent"
    BY <1>1 DEF ClientInv, PlainInv
  <2>2. /\ forwarder'[c].running => forwarder'[c].next >= 1
        /\ forwarder'[c].held # 0 => forwarder'[c].next = forwarder'[c].held + 1
    BY <1>2, <1>4, <1>5
  <2> QED BY <1>6, <2>1, <2>2 DEF ClientInv, PlainInv, At
<1>11. AnswersInv(c)' /\ TracesInv(c)'
  BY <1>6, <1>8, <1>9 DEF ClientInv, AnswersInv, TracesInv, LastAnswered, At
<1>12. LoggedInv(c)' /\ CatchesUpInv(c)'
  BY <1>6, <1>8 DEF ClientInv, LoggedInv, CatchesUpInv, OwnShown, At
<1>13. \A d \in Client : d # c => Apart(d)
  BY <1>5, <1>6 DEF Apart
<1> QED BY <1>6, <1>7, <1>10, <1>11, <1>12, <1>13 DEF StepKeeps, ClientInv

\* The trace in its hands goes into the channel.
LEMMA PushTraceKeeps ==
  ASSUME TypeOK, NEW c \in Client, ClientInv(c), PushTrace(c)
  PROVE  StepKeeps(c)
<1> DEFINE n == forwarder[c].held
           f == Trace(n)
           s == Stream(c)
           pushed == [forwarder[c] EXCEPT !.held = 0]
           ended == [forwarder[c] EXCEPT !.held = 0, !.running = FALSE]
<1>1. /\ n # 0
      /\ UNCHANGED << server, handler, writing, socket >>
      /\ \/ /\ writing[c] /\ Room(c)
            /\ replies' = [replies EXCEPT ![c] = Append(@, f)]
            /\ forwarder' = [forwarder EXCEPT ![c] = pushed]
         \/ /\ ~writing[c]
            /\ forwarder' = [forwarder EXCEPT ![c] = ended]
            /\ UNCHANGED replies
  BY DEF PushTrace
<1>2. n \in Nat /\ n >= 1 /\ forwarder[c].next = n + 1 /\ forwarder[c] \in ForwarderState
  BY <1>1, Typed DEF ClientInv, PlainInv, TypeOK, ForwarderState
<1>3. /\ pushed \in ForwarderState /\ ended \in ForwarderState
      /\ pushed.held = 0 /\ ended.held = 0
      /\ pushed.next = forwarder[c].next /\ ended.next = forwarder[c].next
      /\ ended.running = FALSE
  BY DEF TypeOK, ForwarderState
<1> HIDE DEF pushed, ended
<1>4. /\ f \in Frame /\ f.kind = "Trace" /\ f.value = n
  BY <1>2 DEF Trace, Frame
<1> HIDE DEF f
<1>5. PICK w \in {pushed, ended} : forwarder' = [forwarder EXCEPT ![c] = w]
  BY <1>1
<1>6. /\ forwarder' \in [Client -> ForwarderState]
      /\ forwarder'[c].held = 0 /\ forwarder'[c].next = n + 1
      /\ \A d \in Client : d # c => forwarder'[d] = forwarder[d]
  BY <1>2, <1>3, <1>5 DEF TypeOK, ForwarderState
<1>7. /\ UNCHANGED << logLen, due, published, requests, link, frames, shown, handler, writing >>
      /\ logLen \in Nat
      /\ replies[c] \in Seq(Frame) /\ frames[c] \in Seq(Frame) /\ s \in Seq(Frame)
  BY <1>1, Typed DEF server, socket
<1>8. link[c] # "absent"
  BY <1>1 DEF ClientInv, PlainInv
<1>9. PlainInv(c)'
  <2>1. ~writing[c] => replies'[c] = << >>
    BY <1>1 DEF ClientInv, PlainInv
  <2>2. forwarder'[c].next >= 1
    BY <1>2, <1>6
  <2> QED BY <1>6, <1>7, <1>8, <2>1, <2>2 DEF ClientInv, PlainInv, At
<1>10. \A d \in Client : d # c => Apart(d)
  <2>1. \A d \in Client : d # c => replies'[d] = replies[d]
    BY <1>1 DEF TypeOK
  <2> QED BY <1>6, <1>7, <2>1 DEF Apart
<1>11. CASE ~writing[c]
  <2>1. replies' = replies /\ s' = s
    BY <1>1, <1>7, <1>11 DEF Stream
  <2>2. TypeOK'
    BY <1>6, <1>7, <2>1 DEF TypeOK, server, ForwarderState
  <2>3. AnswersInv(c)' /\ TracesInv(c)'
    BY <1>7, <1>11 DEF AnswersInv, TracesInv
  <2>4. LoggedInv(c)' /\ CatchesUpInv(c)'
    BY <1>7, <2>1 DEF ClientInv, LoggedInv, CatchesUpInv, OwnShown, At
  <2> QED BY <1>7, <1>9, <1>10, <2>2, <2>3, <2>4 DEF StepKeeps, ClientInv
<1>12. CASE writing[c]
  <2>1. /\ Room(c) /\ replies' = [replies EXCEPT ![c] = Append(@, f)]
        /\ replies'[c] = Append(replies[c], f)
    BY <1>1, <1>12 DEF TypeOK
  <2>2. s' = Append(s, f)
    <3>1. frames[c] \o Append(replies[c], f) = Append(frames[c] \o replies[c], f)
      BY <1>4, <1>7, EndGrows
    <3> QED BY <1>7, <2>1, <3>1 DEF Stream
  <2>3. TypeOK'
    <3>1. Append(replies[c], f) \in Seq(Frame) /\ Len(Append(replies[c], f)) = Len(replies[c]) + 1
      BY <1>4, <1>7, AppendProperties
    <3>2. Len(Append(replies[c], f)) <= ReplyCapacity
      BY <1>7, <2>1, <3>1, LenProperties, CapacityAssumption DEF Room
    <3>3. /\ replies' \in [Client -> Seq(Frame)]
          /\ \A d \in Client : Len(replies'[d]) <= ReplyCapacity
      BY <2>1, <3>1, <3>2 DEF TypeOK
    <3> QED BY <1>6, <1>7, <3>3 DEF TypeOK, server, ForwarderState
  <2>4. AnswersInv(c)'
    <3>1. InARow(AnswersAt(s), Answered(s), LastAnswered(c))
      BY <1>12 DEF ClientInv, AnswersInv
    <3>2. LastAnswered(c) \in Nat
      <4>1. link[c] # "absent" /\ ~At(c, "gone") /\ ~At(c, "absent")
        BY <1>8, <1>12 DEF ClientInv, PlainInv
      <4>2. handler[c].heard \in Nat /\ (At(c, "reading") \/ handler[c].heard >= 1)
        BY <4>1, Typed DEF ClientInv, PlainInv, At, Stages
      <4> QED BY <4>2 DEF LastAnswered
    <3>3. InARow(AnswersAt(Append(s, f)), Answered(Append(s, f)), LastAnswered(c))
      BY <1>4, <1>7, <3>1, <3>2, AnswersGrow
    <3> QED BY <1>7, <2>2, <3>3 DEF AnswersInv, LastAnswered, At
  <2>5. TracesInv(c)'
    <3>1. InARow(TracesAt(s), Values(s), n - 1)
      BY <1>1, <1>12 DEF ClientInv, TracesInv, LastForwarded
    <3>2. n - 1 \in Nat /\ (n - 1) + 1 = n /\ (n + 1) - 1 = n
      BY <1>2
    <3>3. LastForwarded(c)' = n
      BY <1>6, <3>2 DEF LastForwarded
    <3> HIDE DEF n, s
    <3>4. InARow(TracesAt(Append(s, f)), Values(Append(s, f)), n)
      BY <1>4, <1>7, <3>1, <3>2, TracesGrow
    <3> USE DEF s
    <3> QED BY <2>2, <3>3, <3>4 DEF TracesInv
  <2>6. /\ \A i \in StatesAt(s') : i \in StatesAt(s) /\ s'[i] = s[i]
        /\ \A i \in StatesAt(s) : i \in StatesAt(s') /\ s'[i] = s[i]
    <3> DEFINE t == Append(s, f)
    <3>1. /\ \A i \in StatesAt(t) : i \in StatesAt(s) /\ t[i] = s[i]
          /\ \A i \in StatesAt(s) : i \in StatesAt(t) /\ t[i] = s[i]
      BY <1>4, <1>7, GrownStates
    <3> HIDE DEF t
    <3>2. s' = t
      BY <2>2 DEF t
    <3> QED BY <3>1, <3>2
  <2>7. LoggedInv(c)'
    BY <1>7, <2>6 DEF ClientInv, LoggedInv, At
  <2>8. CatchesUpInv(c)'
    <3> SUFFICES ASSUME link[c] = "up" PROVE CatchesUpInv(c)'
      BY <1>7 DEF CatchesUpInv
    <3>1. Rising(StatesAt(s), Values(s), shown[c])
      BY DEF ClientInv, CatchesUpInv
    <3>2. Rising(StatesAt(Append(s, f)), Values(Append(s, f)), shown[c])
      BY <1>4, <1>7, <3>1, StatesGrow
    <3>3. OwnShown(c) => OwnShown(c)'
      BY <1>7, <2>6 DEF OwnShown
    <3>4. Rising(StatesAt(s'), Values(s'), shown[c])
      BY <2>2, <3>2
    <3> QED BY <1>7, <2>6, <3>3, <3>4 DEF ClientInv, CatchesUpInv, At
  <2> QED BY <1>7, <1>9, <1>10, <2>3, <2>4, <2>5, <2>7, <2>8 DEF StepKeeps, ClientInv
<1> QED BY <1>11, <1>12, Typed

\* Without the channel, what is on the socket is a first part of what was on its way.
LEMMA StatesKept ==
  ASSUME NEW c \in Client, frames[c] \in Seq(Frame), replies[c] \in Seq(Frame),
         frames' = frames, replies'[c] = << >>
  PROVE  \A i \in StatesAt(Stream(c)') :
           i \in StatesAt(Stream(c)) /\ Stream(c)'[i] = Stream(c)[i]
<1> DEFINE s == frames[c]
           t == frames[c] \o replies[c]
           v == replies[c]
<1>1. Stream(c)' = s /\ Stream(c) = t
  BY ConcatEmptySeq DEF Stream
<1>2. /\ s \in Seq(Frame) /\ v \in Seq(Frame) /\ t = s \o v
  OBVIOUS
<1> HIDE DEF s, t, v
<1>3. /\ DOMAIN s = 1 .. Len(s) /\ DOMAIN t = 1 .. Len(t)
      /\ \A i \in 1 .. Len(s) : i \in 1 .. Len(t) /\ t[i] = s[i]
  <2>1. t \in Seq(Frame) /\ Len(t) = Len(s) + Len(v) /\ Len(s) \in Nat /\ Len(v) \in Nat
    BY <1>2, ConcatProperties, LenProperties
  <2>2. \A i \in 1 .. Len(s) + Len(v) : t[i] = IF i <= Len(s) THEN s[i] ELSE v[i - Len(s)]
    BY <1>2, ConcatProperties
  <2> QED BY <1>2, <2>1, <2>2, LenProperties
<1>4. \A i \in StatesAt(s) : i \in StatesAt(t) /\ s[i] = t[i]
  BY <1>3 DEF StatesAt
<1> QED BY <1>1, <1>4

\* The writer moves a frame or ends.
LEMMA WriteKeeps ==
  ASSUME TypeOK, NEW c \in Client, ClientInv(c), Write(c)
  PROVE  StepKeeps(c)
<1>1. /\ writing[c] /\ replies[c] # << >>
      /\ UNCHANGED << server, handler, forwarder, link, requests, shown >>
  BY DEF Write
<1>2. /\ UNCHANGED << logLen, due, published >> /\ logLen \in Nat
      /\ replies[c] \in Seq(Frame) /\ frames[c] \in Seq(Frame)
  BY <1>1, Typed DEF server
<1>3. /\ Head(replies[c]) \in Frame /\ Tail(replies[c]) \in Seq(Frame)
      /\ Len(Tail(replies[c])) <= Len(replies[c])
      /\ Append(frames[c], Head(replies[c])) \in Seq(Frame)
  BY <1>1, <1>2, HeadTailProperties, LenProperties, AppendProperties
<1>4. CASE /\ link[c] = "up"
           /\ frames' = [frames EXCEPT ![c] = Append(@, Head(replies[c]))]
           /\ replies' = [replies EXCEPT ![c] = Tail(@)]
           /\ UNCHANGED writing
  <2>1. /\ frames'[c] = Append(frames[c], Head(replies[c])) /\ replies'[c] = Tail(replies[c])
        /\ \A d \in Client : d # c => frames'[d] = frames[d] /\ replies'[d] = replies[d]
        /\ frames' \in [Client -> Seq(Frame)] /\ replies' \in [Client -> Seq(Frame)]
    BY <1>3, <1>4 DEF TypeOK
  <2>2. Stream(c)' = Stream(c)
    BY <1>1, <1>2, <2>1, WritingMoves DEF Stream
  <2>3. TypeOK'
    <3>1. \A d \in Client : Len(replies'[d]) <= ReplyCapacity
      <4>1. /\ Len(replies[c]) <= ReplyCapacity /\ Len(replies[c]) \in Nat
            /\ Len(Tail(replies[c])) \in Nat /\ ReplyCapacity \in Nat
        BY <1>2, <1>3, LenProperties, CapacityAssumption DEF TypeOK
      <4>2. Len(replies'[c]) <= ReplyCapacity
        BY <1>3, <2>1, <4>1
      <4> QED BY <2>1, <4>2 DEF TypeOK
    <3> QED BY <1>1, <1>2, <1>4, <2>1, <3>1 DEF TypeOK, server
  <2>4. PlainInv(c)'
    BY <1>1, <1>4 DEF ClientInv, PlainInv, At
  <2>5. AnswersInv(c)' /\ TracesInv(c)'
    BY <1>1, <1>4, <2>2 DEF ClientInv, AnswersInv, TracesInv, LastAnswered, LastForwarded, At
  <2>6. LoggedInv(c)' /\ CatchesUpInv(c)'
    BY <1>1, <1>2, <2>2 DEF ClientInv, LoggedInv, CatchesUpInv, OwnShown, At
  <2>7. \A d \in Client : d # c => Apart(d)
    BY <1>1, <1>4, <2>1 DEF Apart
  <2> QED BY <1>2, <2>3, <2>4, <2>5, <2>6, <2>7 DEF StepKeeps, ClientInv
<1>5. CASE /\ writing' = [writing EXCEPT ![c] = FALSE]
           /\ replies' = [replies EXCEPT ![c] = << >>]
           /\ UNCHANGED frames
  <2>1. /\ replies'[c] = << >> /\ writing'[c] = FALSE
        /\ \A d \in Client : d # c => writing'[d] = writing[d] /\ replies'[d] = replies[d]
        /\ writing' \in [Client -> BOOLEAN] /\ replies' \in [Client -> Seq(Frame)]
    BY <1>5 DEF TypeOK
  <2>2. \A i \in StatesAt(Stream(c)') :
          i \in StatesAt(Stream(c)) /\ Stream(c)'[i] = Stream(c)[i]
    BY <1>2, <1>5, <2>1, StatesKept
  <2>3. TypeOK'
    <3>1. Len(<< >>) = 0 /\ 0 <= ReplyCapacity
      BY CapacityAssumption
    <3>2. \A d \in Client : replies'[d] = replies[d] \/ replies'[d] = << >>
      BY <2>1
    <3>3. \A d \in Client : Len(replies'[d]) <= ReplyCapacity
      BY <3>1, <3>2 DEF TypeOK
    <3> QED BY <1>1, <1>2, <1>5, <2>1, <3>3 DEF TypeOK, server
  <2>4. PlainInv(c)'
    BY <1>1, <1>5, <2>1 DEF ClientInv, PlainInv, At
  <2>5. AnswersInv(c)' /\ TracesInv(c)'
    BY <2>1 DEF AnswersInv, TracesInv
  <2>6. LoggedInv(c)'
    BY <1>1, <1>2, <2>2 DEF ClientInv, LoggedInv, At
  <2>7. CatchesUpInv(c)'
    <3>1. link[c] = "up" => Rising(StatesAt(Stream(c)'), Values(Stream(c)'), shown[c])
      BY <2>2 DEF ClientInv, CatchesUpInv, Rising, Values, StatesAt
    <3> QED BY <1>1, <2>1, <2>2, <3>1 DEF ClientInv, CatchesUpInv, At
  <2>8. \A d \in Client : d # c => Apart(d)
    BY <1>1, <1>5, <2>1 DEF Apart
  <2> QED BY <1>2, <2>3, <2>4, <2>5, <2>6, <2>7, <2>8 DEF StepKeeps, ClientInv
<1> QED BY <1>4, <1>5 DEF Write

-----------------------------------------------------------------------------
(***************************************************************************)
(* The rest of the server and the client's end of the connection.          *)
(***************************************************************************)
LEMMA PeerKeeps ==
  ASSUME TypeOK, ClientsInv, PeerIntegrate \/ PeerPublish
  PROVE  TypeOK' /\ ClientsInv'
<1>1. logLen \in Nat /\ due \in Nat /\ published \in Nat
  BY DEF TypeOK, server
<1>2. /\ logLen' \in Nat /\ due' \in Nat /\ published' \in Nat /\ logLen <= logLen'
      /\ UNCHANGED << tasks, socket >>
  <2>1. CASE PeerIntegrate
    BY <1>1, <2>1 DEF PeerIntegrate
  <2>2. CASE PeerPublish
    BY <1>1, <2>2 DEF PeerPublish
  <2> QED BY <2>1, <2>2
<1>3. TypeOK'
  BY <1>2 DEF TypeOK, server, tasks, socket
<1>4. \A d \in Client : Apart(d)
  BY <1>2 DEF Apart, tasks, socket
<1> QED BY <1>2, <1>3, <1>4, ApartKeeps DEF ClientsInv

\* A connection is accepted.
LEMMA ConnectKeeps ==
  ASSUME TypeOK, NEW c \in Client, ClientInv(c), Connect(c)
  PROVE  StepKeeps(c)
<1> DEFINE h == [handler[c] EXCEPT !.at = "reading"]
           n == published + 1
           w == [next |-> n, held |-> 0, running |-> TRUE]
<1>1. /\ link[c] = "absent"
      /\ link' = [link EXCEPT ![c] = "up"]
      /\ handler' = [handler EXCEPT ![c] = h]
      /\ forwarder' = [forwarder EXCEPT ![c] = w]
      /\ writing' = [writing EXCEPT ![c] = TRUE]
      /\ UNCHANGED << server, replies, requests, frames, shown >>
  BY DEF Connect
<1>2. n \in Nat /\ n >= 1
  BY Typed
<1> HIDE DEF n
<1>3. /\ h \in HandlerState /\ h.at = "reading" /\ h.own = handler[c].own
      /\ w \in ForwarderState /\ w.next = n /\ w.held = 0
  BY <1>2, PartsTyped DEF HandlerState, ForwarderState, Stages
<1> HIDE DEF h, w
<1>4. /\ handler' \in [Client -> HandlerState]
      /\ handler'[c] = h
      /\ \A d \in Client : d # c => handler'[d] = handler[d]
  BY <1>1, <1>3, HandlerMoves
<1>5. /\ forwarder' \in [Client -> ForwarderState]
      /\ writing' \in [Client -> BOOLEAN]
      /\ link' \in [Client -> {"absent", "up", "closed"}]
      /\ forwarder'[c] = w /\ writing'[c] = TRUE /\ link'[c] = "up"
      /\ \A d \in Client : d # c => /\ forwarder'[d] = forwarder[d] /\ writing'[d] = writing[d]
                                    /\ link'[d] = link[d]
  BY <1>1, <1>3 DEF TypeOK, ForwarderState
<1>6. UNCHANGED << logLen, due, published, requests, frames, shown, replies >> /\ logLen \in Nat
  BY <1>1, Typed DEF server
<1>7. TypeOK'
  BY <1>4, <1>5, <1>6 DEF TypeOK, server, HandlerState, ForwarderState
<1>8. handler[c].own = 0 /\ shown[c] = 0 /\ replies[c] = << >> /\ frames[c] = << >>
  <2>1. ~writing[c]
    BY <1>1 DEF ClientInv, PlainInv
  <2> QED BY <1>1, <2>1 DEF ClientInv, PlainInv
<1>9. Stream(c)' = << >>
  BY <1>6, <1>8, NothingOnItsWay DEF Stream
<1>10. PlainInv(c)'
  BY <1>2, <1>3, <1>4, <1>5, <1>6 DEF PlainInv, At
<1>11. AnswersInv(c)' /\ TracesInv(c)'
  BY <1>9, NothingOnItsWay DEF AnswersInv, TracesInv
<1>12. LoggedInv(c)' /\ CatchesUpInv(c)'
  <2>1. handler'[c].own = 0 /\ handler'[c].at = "reading" /\ shown'[c] = 0
    BY <1>3, <1>4, <1>6, <1>8
  <2>2. StatesAt(Stream(c)') = {} /\ Rising(StatesAt(Stream(c)'), Values(Stream(c)'), shown'[c])
    BY <1>9, NothingOnItsWay
  <2>3. logLen' \in Nat /\ 0 <= logLen'
    BY <1>6
  <2>4. LoggedInv(c)'
    BY <2>1, <2>2, <2>3 DEF LoggedInv, At
  <2>5. CatchesUpInv(c)'
    BY <2>1, <2>2 DEF CatchesUpInv, OwnShown, At
  <2> QED BY <2>4, <2>5
<1>13. \A d \in Client : d # c => Apart(d)
  BY <1>4, <1>5, <1>6 DEF Apart
<1> QED BY <1>6, <1>7, <1>10, <1>11, <1>12, <1>13 DEF StepKeeps, ClientInv

\* A command on the socket is of no concern to what is on its way back.
LEMMA RequestKeeps ==
  ASSUME TypeOK, ClientsInv, NEW c \in Client, NEW cmd \in Command,
         requests' = [requests EXCEPT ![c] = Append(@, cmd)],
         UNCHANGED << server, tasks, link, frames, shown >>
  PROVE  TypeOK' /\ ClientsInv'
<1>1. requests' \in [Client -> Seq(Command)]
  BY AppendProperties DEF TypeOK
<1>2. TypeOK'
  BY <1>1 DEF TypeOK, server, tasks
<1>3. \A d \in Client : Apart(d)
  BY DEF Apart, tasks
<1>4. logLen' = logLen /\ logLen \in Nat
  BY DEF server, TypeOK
<1> QED BY <1>2, <1>3, <1>4, ApartKeeps DEF ClientsInv

\* The client takes a frame.
LEMMA TakeKeeps ==
  ASSUME TypeOK, NEW c \in Client, ClientInv(c), Take(c)
  PROVE  StepKeeps(c)
<1> DEFINE s == Stream(c)
           now == IF s[1].kind = "State" THEN s[1].value ELSE shown[c]
<1>1. /\ link[c] = "up" /\ frames[c] # << >>
      /\ frames' = [frames EXCEPT ![c] = Tail(@)]
      /\ UNCHANGED << server, tasks, link, requests >>
  BY DEF Take
<1>2. /\ UNCHANGED << logLen, due, published, handler, forwarder, replies, writing >>
      /\ logLen \in Nat /\ shown[c] \in Nat
      /\ replies[c] \in Seq(Frame) /\ frames[c] \in Seq(Frame)
  BY <1>1, Typed DEF server, tasks
<1>3. /\ s \in Seq(Frame) /\ s # << >> /\ s[1] = Head(frames[c])
      /\ Tail(frames[c]) \o replies[c] = Tail(s)
      /\ Rest(s, Tail(s), 1)
  BY <1>1, <1>2, TakingShortens DEF Stream
<1>4. /\ frames'[c] = Tail(frames[c])
      /\ \A d \in Client : d # c => frames'[d] = frames[d]
      /\ frames' \in [Client -> Seq(Frame)]
  BY <1>1, <1>2, HeadTailProperties DEF TypeOK
<1>5. s' = Tail(s)
  BY <1>2, <1>3, <1>4 DEF Stream
<1>6. s[1].value \in Nat /\ (s[1].kind = "State" => 1 \in StatesAt(s))
  <2>1. Len(s) \in Nat /\ Len(s) >= 1 /\ DOMAIN s = 1 .. Len(s)
    BY <1>3, LenProperties, EmptySeq
  <2>2. 1 \in 1 .. Len(s) /\ 1 \in DOMAIN s
    BY <2>1
  <2>3. s[1].value \in Nat
    BY <1>3, <2>2, Positions
  <2> QED BY <2>2, <2>3 DEF StatesAt
<1>7. /\ shown' = [shown EXCEPT ![c] = now]
      /\ now \in Nat
  BY <1>2, <1>3, <1>6 DEF Take
<1>8. /\ shown' \in [Client -> Nat] /\ shown'[c] = now
      /\ \A d \in Client : d # c => shown'[d] = shown[d]
  BY <1>7 DEF TypeOK
<1>9. TypeOK'
  BY <1>1, <1>2, <1>4, <1>8 DEF TypeOK, server
<1>10. PlainInv(c)'
  BY <1>1, <1>2 DEF ClientInv, PlainInv, At
<1>11. AnswersInv(c)' /\ TracesInv(c)'
  <2>1. writing[c] => /\ InARow(AnswersAt(Tail(s)), Answered(Tail(s)), LastAnswered(c))
                      /\ InARow(TracesAt(Tail(s)), Values(Tail(s)), LastForwarded(c))
    BY <1>3, RestKeepsRows DEF ClientInv, AnswersInv, TracesInv
  <2> QED BY <1>2, <1>5, <2>1 DEF AnswersInv, TracesInv, LastAnswered, LastForwarded, At
<1>12. Rising(StatesAt(s), Values(s), shown[c])
  BY <1>1 DEF ClientInv, CatchesUpInv
<1>13. /\ Rising(StatesAt(s'), Values(s'), now)
       /\ shown[c] <= now
       /\ \A i \in StatesAt(s) : i = 1 \/ i - 1 \in StatesAt(s')
       /\ \A i \in StatesAt(s') : i + 1 \in StatesAt(s) /\ s'[i] = s[i + 1]
  <2> DEFINE t == Tail(s)
  <2>1. /\ Rising(StatesAt(t), Values(t), now)
        /\ shown[c] <= now
        /\ \A i \in StatesAt(s) : i = 1 \/ i - 1 \in StatesAt(t)
        /\ \A i \in StatesAt(t) : i + 1 \in StatesAt(s) /\ t[i] = s[i + 1]
    BY <1>2, <1>3, <1>12, StatesTaken
  <2> HIDE DEF t
  <2>2. s' = t
    BY <1>5 DEF t
  <2> QED BY <2>1, <2>2
<1>14. \A i \in StatesAt(s) : i \in Nat /\ s[i].value \in Nat
  BY <1>3, Positions
<1>15. LoggedInv(c)'
  <2>1. now <= logLen
    BY <1>6 DEF ClientInv, LoggedInv
  <2>2. \A i \in StatesAt(s') : s'[i].value <= logLen
    BY <1>13 DEF ClientInv, LoggedInv
  <2> QED BY <1>2, <1>8, <2>1, <2>2 DEF ClientInv, LoggedInv, At
<1>16. CatchesUpInv(c)'
  <2>1. OwnShown(c) => OwnShown(c)'
    <3> SUFFICES ASSUME OwnShown(c) PROVE OwnShown(c)'
      OBVIOUS
    <3>1. handler[c].own \in Nat
      BY Typed
    <3>2. CASE handler[c].own <= shown[c]
      <4>1. handler[c].own <= now
        BY <1>2, <1>7, <1>13, <3>1, <3>2
      <4> QED BY <1>2, <1>8, <4>1 DEF OwnShown
    <3>3. ASSUME NEW i \in StatesAt(s), handler[c].own <= s[i].value PROVE OwnShown(c)'
      <4>1. CASE i = 1
        <5>1. s[1].kind = "State"
          BY <4>1 DEF StatesAt
        <5>2. handler[c].own <= now
          BY <3>3, <4>1, <5>1
        <5> QED BY <1>2, <1>8, <5>2 DEF OwnShown
      <4>2. CASE i # 1
        <5>1. i - 1 \in StatesAt(s') /\ (i - 1) + 1 = i
          BY <1>13, <1>14, <4>2
        <5>2. s'[i - 1] = s[i]
          BY <1>13, <5>1
        <5> QED BY <1>2, <3>3, <5>1, <5>2 DEF OwnShown
      <4> QED BY <4>1, <4>2
    <3> QED BY <3>2, <3>3 DEF OwnShown
  <2>2. ASSUME At(c, "replying"), handler[c].reply.kind = "State"
        PROVE  /\ handler[c].own <= handler[c].reply.value
               /\ now <= handler[c].reply.value
               /\ \A i \in StatesAt(s') : s'[i].value <= handler[c].reply.value
    <3>1. /\ handler[c].own <= handler[c].reply.value
          /\ shown[c] <= handler[c].reply.value
          /\ \A i \in StatesAt(s) : s[i].value <= handler[c].reply.value
      BY <1>1, <2>2 DEF ClientInv, CatchesUpInv
    <3> QED BY <1>6, <1>13, <3>1
  <2> QED BY <1>1, <1>2, <1>8, <1>13, <2>1, <2>2 DEF ClientInv, CatchesUpInv, At
<1>17. \A d \in Client : d # c => Apart(d)
  BY <1>1, <1>2, <1>4, <1>8 DEF Apart
<1> QED BY <1>2, <1>9, <1>10, <1>11, <1>15, <1>16, <1>17 DEF StepKeeps, ClientInv

\* The client closes: what was on the socket is gone, what is in the channel stays.
LEMMA CloseKeeps ==
  ASSUME TypeOK, NEW c \in Client, ClientInv(c), Close(c)
  PROVE  StepKeeps(c)
<1> DEFINE s == Stream(c)
           t == replies[c]
           k == Len(frames[c])
<1>1. /\ link[c] = "up"
      /\ link' = [link EXCEPT ![c] = "closed"]
      /\ frames' = [frames EXCEPT ![c] = << >>]
      /\ UNCHANGED << server, tasks, requests, shown >>
  BY DEF Close
<1>2. /\ UNCHANGED << logLen, due, published, handler, forwarder, replies, writing >>
      /\ logLen \in Nat
      /\ t \in Seq(Frame) /\ frames[c] \in Seq(Frame) /\ s \in Seq(Frame)
  BY <1>1, Typed DEF server, tasks
<1>3. /\ link'[c] = "closed" /\ frames'[c] = << >>
      /\ \A d \in Client : d # c => frames'[d] = frames[d] /\ link'[d] = link[d]
      /\ frames' \in [Client -> Seq(Frame)]
      /\ link' \in [Client -> {"absent", "up", "closed"}]
  <2>1. /\ link \in [Client -> {"absent", "up", "closed"}] /\ frames \in [Client -> Seq(Frame)]
        /\ << >> \in Seq(Frame)
    BY DEF TypeOK
  <2>2. /\ link'[c] = "closed" /\ link' \in [Client -> {"absent", "up", "closed"}]
        /\ \A d \in Client : d # c => link'[d] = link[d]
    BY <1>1, <2>1
  <2>3. /\ frames'[c] = << >> /\ frames' \in [Client -> Seq(Frame)]
        /\ \A d \in Client : d # c => frames'[d] = frames[d]
    BY <1>1, <2>1
  <2> QED BY <2>2, <2>3
<1>4. s' = t /\ Rest(s, t, k) /\ k \in Nat
  BY <1>2, <1>3, ConcatEmptySeq, ClosingCuts DEF Stream
<1>5. TypeOK'
  BY <1>1, <1>2, <1>3 DEF TypeOK, server
<1>6. PlainInv(c)'
  BY <1>1, <1>2, <1>3 DEF ClientInv, PlainInv, At
<1> HIDE DEF t, k
<1>7. AnswersInv(c)' /\ TracesInv(c)'
  <2>1. writing[c] => /\ InARow(AnswersAt(t), Answered(t), LastAnswered(c))
                      /\ InARow(TracesAt(t), Values(t), LastForwarded(c))
    BY <1>2, <1>4, RestKeepsRows DEF ClientInv, AnswersInv, TracesInv
  <2> QED BY <1>2, <1>4, <2>1 DEF AnswersInv, TracesInv, LastAnswered, LastForwarded, At
<1>8. \A i \in StatesAt(t) : i + k \in StatesAt(s) /\ t[i] = s[i + k]
  <2>1. /\ DOMAIN t = 1 .. Len(t) /\ DOMAIN s = 1 .. Len(s) /\ Len(t) \in Nat
        /\ Len(s) = Len(t) + k /\ \A i \in 1 .. Len(t) : t[i] = s[i + k]
    BY <1>2, <1>4, LenProperties DEF Rest
  <2>2. \A i \in 1 .. Len(t) : i + k \in 1 .. Len(s)
    BY <1>4, <2>1
  <2> QED BY <2>1, <2>2 DEF StatesAt
<1>9. LoggedInv(c)'
  <2>1. \A i \in StatesAt(t) : t[i].value <= logLen
    BY <1>8 DEF ClientInv, LoggedInv
  <2> QED BY <1>1, <1>2, <1>4, <2>1 DEF ClientInv, LoggedInv, At
<1>10. CatchesUpInv(c)'
  BY <1>3 DEF CatchesUpInv
<1>11. \A d \in Client : d # c => Apart(d)
  BY <1>1, <1>2, <1>3 DEF Apart
<1> QED BY <1>2, <1>5, <1>6, <1>7, <1>9, <1>10, <1>11 DEF StepKeeps, ClientInv

-----------------------------------------------------------------------------
(***************************************************************************)
(* The invariant and what follows from it.                                 *)
(***************************************************************************)

\* A step of one client's tasks keeps the invariant of all.
LEMMA StepKeepsAll ==
  ASSUME TypeOK, ClientsInv, NEW c \in Client, StepKeeps(c)
  PROVE  ConnectionIInv'
<1>1. TypeOK' /\ logLen' \in Nat /\ logLen <= logLen'
  BY DEF StepKeeps, TypeOK, server
<1>2. ASSUME NEW d \in Client PROVE ClientInv(d)'
  <2>1. CASE d = c
    BY <2>1 DEF StepKeeps
  <2>2. CASE d # c
    BY <1>1, <2>2, ApartKeeps DEF StepKeeps, ClientsInv
  <2> QED BY <2>1, <2>2
<1>3. ClientsInv'
  BY <1>2 DEF ClientsInv
<1> QED BY <1>1, <1>3, ByClientNext

\* The invariant at the start.
LEMMA InitConnectionIInv == Init => ConnectionIInv
<1> SUFFICES ASSUME Init PROVE ConnectionIInv
  OBVIOUS
<1>1. TypeOK
  <2>1. NoReply \in Frame
    BY DEF NoReply, Frame
  <2>2. Len(<< >>) = 0 /\ 0 <= ReplyCapacity
    BY CapacityAssumption
  <2> QED BY <2>1, <2>2 DEF Init, TypeOK, server, Stages
<1>2. ASSUME NEW c \in Client PROVE ClientInv(c)
  <2>1. Stream(c) = << >>
    BY <1>2, NothingOnItsWay DEF Init, Stream
  <2>2. PlainInv(c)
    BY <1>2 DEF Init, PlainInv, At
  <2>3. /\ handler[c].at = "absent" /\ handler[c].own = 0 /\ shown[c] = 0 /\ logLen = 0
        /\ writing[c] = FALSE /\ link[c] = "absent" /\ StatesAt(Stream(c)) = {}
    BY <1>2, <2>1, NothingOnItsWay DEF Init
  <2>4. AnswersInv(c) /\ TracesInv(c)
    BY <2>1, <2>3, NothingOnItsWay DEF AnswersInv, TracesInv
  <2>5. LoggedInv(c) /\ CatchesUpInv(c)
    BY <2>3 DEF LoggedInv, CatchesUpInv, At
  <2> QED BY <2>2, <2>4, <2>5 DEF ClientInv
<1> QED BY <1>1, <1>2, ByClient DEF ClientsInv

\* Every step of the server keeps the invariant.
LEMMA ServerNextKeeps ==
  ASSUME ConnectionIInv, ServerNext
  PROVE  ConnectionIInv'
<1>1. TypeOK /\ ClientsInv /\ \A c \in Client : ClientInv(c)
  BY ByClient DEF ClientsInv
<1>2. ASSUME NEW c \in Client, HandlerStep(c) PROVE StepKeeps(c)
  BY <1>1, <1>2, ReadCommandKeeps, AcceptKeeps, RefuseKeeps, AnnounceKeeps, LookUpKeeps,
     ReplyKeeps, HangUpKeeps DEF HandlerStep
<1>3. ASSUME NEW c \in Client, Connect(c) \/ Forward(c) \/ PushTrace(c) \/ Write(c)
      PROVE  StepKeeps(c)
  BY <1>1, <1>3, ConnectKeeps, ForwardKeeps, PushTraceKeeps, WriteKeeps
<1>4. CASE PeerIntegrate \/ PeerPublish
  BY <1>1, <1>4, PeerKeeps, ByClientNext
<1> QED BY <1>1, <1>2, <1>3, <1>4, StepKeepsAll DEF ServerNext

\* Every step of a client keeps it.
LEMMA ClientKeeps ==
  ASSUME ConnectionIInv, NEW c \in Client,
         (\E cmd \in Command : Request(c, cmd)) \/ Take(c) \/ Close(c)
  PROVE  ConnectionIInv'
<1>1. TypeOK /\ ClientsInv /\ ClientInv(c)
  BY ByClient DEF ClientsInv
<1>2. ASSUME NEW cmd \in Command, Request(c, cmd) PROVE ConnectionIInv'
  <2>1. TypeOK' /\ ClientsInv'
    BY <1>1, <1>2, RequestKeeps DEF Request
  <2> QED BY <2>1, ByClientNext
<1>3. CASE Take(c)
  BY <1>1, <1>3, TakeKeeps, StepKeepsAll
<1>4. CASE Close(c)
  BY <1>1, <1>4, CloseKeeps, StepKeepsAll
<1> QED BY <1>2, <1>3, <1>4

\* Nothing happens here.
LEMMA StutterKeeps ==
  ASSUME ConnectionIInv, UNCHANGED vars
  PROVE  ConnectionIInv'
<1>1. TypeOK /\ ClientsInv
  BY ByClient
<1>2. logLen' = logLen /\ logLen \in Nat /\ \A d \in Client : Apart(d)
  BY <1>1 DEF vars, server, tasks, socket, Apart, TypeOK
<1>3. TypeOK'
  BY <1>1 DEF vars, server, tasks, socket, TypeOK
<1>4. ClientsInv'
  BY <1>1, <1>2, ApartKeeps DEF ClientsInv
<1> QED BY <1>3, <1>4, ByClientNext

\* Every step keeps the invariant.
LEMMA NextConnectionIInv == ConnectionIInv /\ [Next]_vars => ConnectionIInv'
BY ServerNextKeeps, ClientKeeps, StutterKeeps DEF Next

\* The invariant, with which the three promises to a client are inductive.
THEOREM ConnectionInvariance == Spec => []ConnectionIInv
BY InitConnectionIInv, NextConnectionIInv, PTL DEF Spec

\* Answers come in the order of the commands, one for each, none missing,
\* whatever traces are put between them.
THEOREM AnswersComeInOrder == Spec => []AnswersInOrder
<1>1. ConnectionIInv => AnswersInOrder
  BY DEF ConnectionIInv
<1> QED BY <1>1, ConnectionInvariance, PTL

\* Snapshots never go back, and an answered command's effect is in one of them.
THEOREM SnapshotsDoCatchUp == Spec => []SnapshotsCatchUp
<1>1. ConnectionIInv => SnapshotsCatchUp
  BY DEF ConnectionIInv
<1> QED BY <1>1, ConnectionInvariance, PTL

\* The traces a client gets are those its forwarder has received, without gaps.
THEOREM TracesHaveNoGaps == Spec => []NoTraceGaps
<1>1. ConnectionIInv => NoTraceGaps
  BY DEF ConnectionIInv
<1> QED BY <1>1, ConnectionInvariance, PTL

-----------------------------------------------------------------------------

(***************************************************************************)
(* What a step of the server shows of one client: of its handler, its      *)
(* commands on the socket and the snapshots on their way.                  *)
(***************************************************************************)

\* Every snapshot that is on its way was so before.
NoNewState(c) ==
  \A i \in StatesAt(Stream(c)') :
    \E j \in StatesAt(Stream(c)) : Stream(c)'[i] = Stream(c)[j]

Quiet(c) ==
  /\ handler'[c].at = handler[c].at /\ handler'[c].heard = handler[c].heard
  /\ requests'[c] = requests[c] /\ link'[c] = link[c]
  /\ NoNewState(c)

Connects(c) ==
  /\ At(c, "absent") /\ handler'[c].at = "reading" /\ handler'[c].heard = handler[c].heard
  /\ requests'[c] = requests[c] /\ link'[c] = "up"
  /\ NoNewState(c)

Reads(c) ==
  /\ At(c, "reading") /\ handler'[c].heard = handler[c].heard + 1
  /\ requests[c] # << >> /\ requests'[c] = Tail(requests[c]) /\ link'[c] = link[c]
  /\ NoNewState(c)

Executes(c) ==
  /\ handler[c].at \notin {"absent", "reading"} /\ handler'[c].heard = handler[c].heard
  /\ requests'[c] = requests[c] /\ link'[c] = link[c]
  /\ \A i \in StatesAt(Stream(c)') :
       \/ \E j \in StatesAt(Stream(c)) : Stream(c)'[i] = Stream(c)[j]
       \/ Stream(c)'[i].answers = handler[c].heard

Ends(c) ==
  /\ link[c] = "closed" /\ handler'[c].heard = handler[c].heard
  /\ requests'[c] = requests[c] /\ link'[c] = link[c]

Shows(c) ==
  /\ writing'[c] => writing[c] \/ link[c] = "absent"
  /\ Quiet(c) \/ Connects(c) \/ Reads(c) \/ Executes(c) \/ Ends(c)

\* An unchanged stream, one with a trace more, or an empty one has no new snapshot.
LEMMA SameStream ==
  ASSUME NEW c \in Client, Stream(c)' = Stream(c)
  PROVE  NoNewState(c)
BY DEF NoNewState

\* A frame put into the channel is the last of what is on its way.
LEMMA StreamGrows ==
  ASSUME TypeOK, NEW c \in Client, NEW f \in Frame,
         UNCHANGED frames, replies' = [replies EXCEPT ![c] = Append(@, f)]
  PROVE  Stream(c)' = Append(Stream(c), f)
<1>1. frames[c] \in Seq(Frame) /\ replies[c] \in Seq(Frame)
  BY Typed
<1>2. replies'[c] = Append(replies[c], f) /\ frames'[c] = frames[c]
  BY DEF TypeOK
<1>3. frames[c] \o Append(replies[c], f) = Append(frames[c] \o replies[c], f)
  BY <1>1, EndGrows
<1> QED BY <1>2, <1>3 DEF Stream

\* The handler reads, executes or ends; what it sends answers the last command read.
LEMMA HandlerShows ==
  ASSUME ConnectionIInv, NEW c \in Client, HandlerStep(c)
  PROVE  Shows(c)
<1>1. TypeOK /\ ClientInv(c)
  BY ByClient DEF ClientsInv
<1>2. handler[c] \in HandlerState /\ replies[c] \in Seq(Frame) /\ frames[c] \in Seq(Frame)
      /\ Stream(c) \in Seq(Frame)
  BY <1>1, Typed DEF TypeOK, HandlerState
<1>3. CASE ReadCommand(c)
  <2>1. /\ UNCHANGED << frames, replies, writing, link >>
        /\ requests[c] # << >> /\ At(c, "reading")
    BY <1>3 DEF ReadCommand
  <2>2. handler'[c].heard = handler[c].heard + 1 /\ requests'[c] = Tail(requests[c])
    BY <1>1, <1>3 DEF ReadCommand, TypeOK
  <2>3. NoNewState(c)
    BY <2>1, SameStream DEF Stream
  <2> QED BY <2>1, <2>2, <2>3 DEF Shows, Reads
<1>4. CASE Accept(c) \/ Refuse(c) \/ Announce(c) \/ LookUp(c)
  <2>1. UNCHANGED << frames, replies, writing, link, requests >>
    BY <1>4 DEF Accept, Refuse, Announce, LookUp, socket
  <2>2. handler[c].at \notin {"absent", "reading"}
    BY <1>4 DEF Accept, Refuse, Announce, LookUp, At
  <2>3. handler'[c].heard = handler[c].heard
    BY <1>1, <1>4 DEF Accept, Refuse, Announce, LookUp, TypeOK
  <2>4. NoNewState(c)
    BY <2>1, SameStream DEF Stream
  <2> QED BY <2>1, <2>2, <2>3, <2>4 DEF Shows, Executes, NoNewState
<1>5. CASE Reply(c)
  <2> DEFINE f == handler[c].reply
             s == Stream(c)
  <2>1. /\ UNCHANGED << frames, writing, link, requests >> /\ At(c, "replying")
        /\ replies' = [replies EXCEPT ![c] = Append(@, f)] \/ UNCHANGED replies
    BY <1>5 DEF Reply, socket
  <2>2. handler'[c].heard = handler[c].heard
    BY <1>1, <1>5 DEF Reply, TypeOK
  <2>3. f \in Frame /\ f.answers = handler[c].heard
    BY <1>1, <2>1, Typed DEF ClientInv, PlainInv
  <2>4. s' = s \/ s' = Append(s, f)
    <3>1. CASE UNCHANGED replies
      BY <2>1, <3>1 DEF Stream
    <3>2. CASE replies' = [replies EXCEPT ![c] = Append(@, f)]
      <4> HIDE DEF f, s
      <4>1. Stream(c)' = Append(Stream(c), f)
        BY <1>1, <2>1, <2>3, <3>2, StreamGrows
      <4> QED BY <4>1 DEF s
    <3> QED BY <2>1, <3>1, <3>2
  <2>5. \A i \in StatesAt(s') : (\E j \in StatesAt(s) : s'[i] = s[j]) \/ s'[i] = f
    <3>1. CASE s' = s
      BY <3>1
    <3>2. CASE s' = Append(s, f)
      <4> DEFINE t == Append(s, f)
      <4>1. \A i \in StatesAt(t) : (i \in StatesAt(s) /\ t[i] = s[i]) \/ t[i] = f
        BY <1>2, <2>3, GrownStates
      <4> HIDE DEF t
      <4>2. s' = t
        BY <3>2 DEF t
      <4> QED BY <4>1, <4>2
    <3> QED BY <2>4, <3>1, <3>2
  <2> QED BY <2>1, <2>2, <2>3, <2>5 DEF Shows, Executes, At
<1>6. CASE HangUp(c)
  <2>1. link[c] = "closed" /\ UNCHANGED << link, requests >> /\ ~writing'[c]
    BY <1>1, <1>6 DEF HangUp, socket, TypeOK
  <2>2. handler'[c].heard = handler[c].heard
    BY <1>1, <1>6 DEF HangUp, TypeOK
  <2> QED BY <2>1, <2>2 DEF Shows, Ends
<1> QED BY <1>3, <1>4, <1>5, <1>6 DEF HandlerStep

\* Forwarder, writer and listener put no snapshot on its way.
LEMMA TasksShow ==
  ASSUME ConnectionIInv, NEW c \in Client, Connect(c) \/ Forward(c) \/ PushTrace(c) \/ Write(c)
  PROVE  Shows(c)
<1>1. TypeOK /\ ClientInv(c)
  BY ByClient DEF ClientsInv
<1>2. replies[c] \in Seq(Frame) /\ frames[c] \in Seq(Frame) /\ Stream(c) \in Seq(Frame)
  BY <1>1, Typed
<1>3. CASE Connect(c)
  <2>1. UNCHANGED << frames, replies, requests >> /\ link[c] = "absent"
    BY <1>3 DEF Connect
  <2>2. At(c, "absent")
    BY <1>1, <2>1 DEF ClientInv, PlainInv
  <2>3. handler'[c].at = "reading" /\ handler'[c].heard = handler[c].heard /\ link'[c] = "up"
    BY <1>1, <1>3 DEF Connect, TypeOK
  <2>4. NoNewState(c)
    BY <2>1, SameStream DEF Stream
  <2> QED BY <2>1, <2>2, <2>3, <2>4 DEF Shows, Connects
<1>4. CASE Forward(c)
  <2>1. UNCHANGED << handler, frames, replies, writing, requests, link >>
    BY <1>4 DEF Forward, socket
  <2>2. NoNewState(c)
    BY <2>1, SameStream DEF Stream
  <2> QED BY <2>1, <2>2 DEF Shows, Quiet
<1>5. CASE PushTrace(c)
  <2> DEFINE f == Trace(forwarder[c].held)
             s == Stream(c)
  <2>1. /\ UNCHANGED << handler, frames, writing, requests, link >>
        /\ replies' = [replies EXCEPT ![c] = Append(@, f)] \/ UNCHANGED replies
    BY <1>5 DEF PushTrace, socket
  <2>2. f \in Frame /\ f.kind = "Trace"
    BY <1>1, Typed DEF Trace, Frame
  <2> HIDE DEF f
  <2>3. s' = s \/ s' = Append(s, f)
    <3>1. CASE UNCHANGED replies
      BY <2>1, <3>1 DEF Stream
    <3>2. CASE replies' = [replies EXCEPT ![c] = Append(@, f)]
      <4> HIDE DEF s
      <4>1. Stream(c)' = Append(Stream(c), f)
        BY <1>1, <2>1, <2>2, <3>2, StreamGrows
      <4> QED BY <4>1 DEF s
    <3> QED BY <2>1, <3>1, <3>2
  <2>4. \A i \in StatesAt(s') : \E j \in StatesAt(s) : s'[i] = s[j]
    <3>1. CASE s' = s
      BY <3>1
    <3>2. CASE s' = Append(s, f)
      <4> DEFINE t == Append(s, f)
      <4>1. \A i \in StatesAt(t) : i \in StatesAt(s) /\ t[i] = s[i]
        BY <1>2, <2>2, GrownStates
      <4> HIDE DEF t
      <4>2. s' = t
        BY <3>2 DEF t
      <4> QED BY <4>1, <4>2
    <3> QED BY <2>3, <3>1, <3>2
  <2> QED BY <2>1, <2>4 DEF Shows, Quiet, NoNewState
<1>6. CASE Write(c)
  <2>1. UNCHANGED << handler, requests, link >> /\ replies[c] # << >> /\ writing[c]
    BY <1>6 DEF Write
  <2>2. CASE frames' = [frames EXCEPT ![c] = Append(@, Head(replies[c]))]
             /\ replies' = [replies EXCEPT ![c] = Tail(@)]
    <3>1. frames'[c] = Append(frames[c], Head(replies[c])) /\ replies'[c] = Tail(replies[c])
      BY <1>1, <2>2 DEF TypeOK
    <3>2. Stream(c)' = Stream(c)
      BY <1>2, <2>1, <3>1, WritingMoves DEF Stream
    <3>3. NoNewState(c)
      BY <3>2, SameStream
    <3> QED BY <2>1, <3>3 DEF Shows, Quiet
  <2>3. CASE UNCHANGED frames /\ replies' = [replies EXCEPT ![c] = << >>]
    <3>1. replies'[c] = << >>
      BY <1>1, <2>3 DEF TypeOK
    <3>2. NoNewState(c)
      BY <1>2, <2>3, <3>1, StatesKept DEF NoNewState
    <3> QED BY <2>1, <3>2 DEF Shows, Quiet
  <2> QED BY <1>6, <2>2, <2>3 DEF Write
<1> QED BY <1>3, <1>4, <1>5, <1>6

\* Every step of the server is one of these for every client.
LEMMA ServerShows ==
  ASSUME ConnectionIInv, ServerNext, NEW d \in Client
  PROVE  Shows(d)
<1>1. TypeOK /\ \A c \in Client : ClientInv(c)
  BY ByClient DEF ClientsInv
<1>2. ASSUME Apart(d), requests'[d] = requests[d] PROVE Shows(d)
  <2>1. NoNewState(d)
    BY <1>2, SameStream DEF Apart, Stream
  <2> QED BY <1>2, <2>1 DEF Apart, Shows, Quiet
<1>3. ASSUME NEW c \in Client, HandlerStep(c) \/ Connect(c) \/ Forward(c) \/ PushTrace(c) \/ Write(c)
      PROVE  Shows(d)
  <2>1. CASE c = d
    BY <1>3, <2>1, HandlerShows, TasksShow
  <2>2. CASE c # d
    <3>1. StepKeeps(c)
      BY <1>1, <1>3, ConnectKeeps, ForwardKeeps, PushTraceKeeps, WriteKeeps, ReadCommandKeeps,
         AcceptKeeps, RefuseKeeps, AnnounceKeeps, LookUpKeeps, ReplyKeeps, HangUpKeeps
      DEF HandlerStep
    <3>2. Apart(d)
      BY <2>2, <3>1 DEF StepKeeps
    <3>3. requests'[d] = requests[d]
      BY <1>1, <1>3, <2>2
      DEF TypeOK, HandlerStep, ReadCommand, Accept, Refuse, Announce, LookUp, Reply, HangUp,
          Connect, Forward, PushTrace, Write, socket
    <3> QED BY <1>2, <3>2, <3>3
  <2> QED BY <2>1, <2>2
<1>4. CASE PeerIntegrate \/ PeerPublish
  <2>1. UNCHANGED << tasks, socket >>
    BY <1>4 DEF PeerIntegrate, PeerPublish
  <2> QED BY <1>2, <2>1 DEF tasks, socket, Apart
<1> QED BY <1>3, <1>4 DEF ServerNext

-----------------------------------------------------------------------------
(***************************************************************************)
(* The tool's beliefs through a step of the server or of another client.   *)
(***************************************************************************)
Held == Connected /\ OneAtATime /\ FreshResponse

\* Every one of them keeps what the tool relies on.
LEMMA ShowsKeeps ==
  ASSUME ConnectionIInv, Held, Shows(tool), UNCHANGED << prompt, phase, taken >>
  PROVE  Held'
<1>0. Served' => Served
  BY DEF Served, Shows, Quiet, Connects, Reads, Executes, Ends
<1>1. /\ handler[tool].heard \in Nat /\ requests[tool] \in Seq(Command)
      /\ tool \in Client
  BY ByClient, Typed, ToolAssumption
<1>2. Connected'
  BY DEF Held, Connected, Shows, Quiet, Connects, Reads, Executes, Ends
<1>3. CommandsSent' = CommandsSent
  <2>1. CASE Reads(tool)
    <3>1. Len(Tail(requests[tool])) = Len(requests[tool]) - 1 /\ Len(requests[tool]) \in Nat
      BY <1>1, <2>1, HeadTailProperties, LenProperties DEF Reads
    <3> QED BY <1>1, <2>1, <3>1 DEF Reads, CommandsSent
  <2> QED BY <2>1 DEF Shows, Quiet, Connects, Executes, Ends, CommandsSent
<1>4. FreshResponse'
  BY <1>3, <1>0 DEF Held, FreshResponse
<1>5. ASSUME prompt, phase = "sending", Served' PROVE Idle'
  <2>1. Idle /\ link[tool] # "closed"
    BY <1>5, <1>0 DEF Held, OneAtATime, Connected
  <2>2. CASE Quiet(tool)
    BY <2>1, <2>2 DEF Idle, Quiet, NoNewState
  <2>3. CASE Connects(tool)
    BY <2>1, <2>3 DEF Idle, Connects, NoNewState
  <2> QED BY <2>1, <2>2, <2>3 DEF Idle, Shows, Reads, Executes, Ends
<1>6. ASSUME prompt, phase = "draining", Served' PROVE Waiting' \/ Answering'
  <2>1. (Waiting \/ Answering) /\ link[tool] = "up"
    BY <1>6, <1>0 DEF Held, OneAtATime, Connected
  <2>2. ASSUME Waiting PROVE Waiting' \/ Answering'
    <3>1. CASE Quiet(tool)
      BY <2>2, <3>1 DEF Waiting, Quiet, NoNewState, At
    <3>2. CASE Reads(tool)
      <4>1. Len(Tail(requests[tool])) = 0 /\ Tail(requests[tool]) \in Seq(Command)
        BY <1>1, <2>2, <3>2, HeadTailProperties, LenProperties DEF Reads, Waiting
      <4>2. requests'[tool] = << >>
        BY <3>2, <4>1, EmptySeq DEF Reads
      <4> QED BY <2>2, <3>2, <4>2 DEF Waiting, Answering, Reads, NoNewState
    <3> QED BY <2>1, <2>2, <3>1, <3>2 DEF Waiting, Shows, Connects, Executes, Ends, At
  <2>3. ASSUME Answering PROVE Answering'
    <3>1. CASE Quiet(tool)
      BY <2>3, <3>1 DEF Answering, Quiet, NoNewState
    <3>2. CASE Connects(tool)
      BY <2>3, <3>2 DEF Answering, Connects, NoNewState
    <3>3. CASE Executes(tool)
      BY <2>3, <3>3 DEF Answering, Executes
    <3> QED BY <2>1, <2>3, <3>1, <3>2, <3>3 DEF Answering, Shows, Reads, Ends
  <2> QED BY <2>1, <2>2, <2>3
<1>7. OneAtATime'
  BY <1>5, <1>6 DEF Held, OneAtATime
<1> QED BY <1>2, <1>4, <1>7 DEF Held

\* The parts of the invariant as the proofs use them.
LEMMA SendSessionParts ==
  SendSessionIInv <=> ConnectionIInv /\ ToolTypeOK /\ MidFrame /\ Held
BY DEF SendSessionIInv, Held

\* The same after a step.
LEMMA SendSessionPartsNext ==
  SendSessionIInv' <=> ConnectionIInv' /\ ToolTypeOK' /\ MidFrame' /\ Held'
BY SendSessionParts, PTL

\* What is the tool's own is of its type.
LEMMA ToolTyped ==
  ASSUME ConnectionIInv', UNCHANGED script, script \in Scripts,
         prompt' \in BOOLEAN, position' \in 0 .. Len(script),
         phase' \in {"absent", "sending", "draining", "done", "rejected", "failed"},
         midFrame' \in BOOLEAN, astray' \in BOOLEAN, taken' \in Nat
  PROVE  ToolTypeOK'
<1>1. TypeOK'
  BY ByClientNext
<1> QED BY <1>1 DEF ToolTypeOK

\* Nothing the server has or the sockets hold changes.
LEMMA SameShows ==
  ASSUME ConnectionIInv, UNCHANGED vars
  PROVE  ConnectionIInv' /\ Shows(tool) /\ Stream(tool)' = Stream(tool)
<1>1. UNCHANGED << handler, replies, writing, link, requests, frames >>
  BY DEF vars, tasks, socket
<1>2. Stream(tool)' = Stream(tool)
  BY <1>1 DEF Stream
<1> QED BY <1>1, <1>2, StutterKeeps, SameStream, ToolAssumption DEF Shows, Quiet

\* Another step of the server, or of a client that is not the tool.
LEMMA OthersKeep ==
  ASSUME SendSessionIInv, ServerNext \/ \E c \in Client : OtherClient(c), UNCHANGED tool_vars
  PROVE  SendSessionIInv'
<1>1. /\ ConnectionIInv /\ ToolTypeOK /\ MidFrame /\ Held /\ TypeOK
      /\ ClientsInv /\ \A c \in Client : ClientInv(c)
  BY SendSessionParts, ByClient DEF ClientsInv
<1>2. UNCHANGED << prompt, script, phase, position, midFrame, astray, taken >>
  BY DEF tool_vars
<1>3. ASSUME ConnectionIInv', Held' PROVE SendSessionIInv'
  <2>1. ToolTypeOK'
    BY <1>1, <1>2, <1>3, ToolTyped DEF ToolTypeOK
  <2>2. MidFrame'
    BY <1>1, <1>2 DEF MidFrame
  <2> QED BY <1>3, <2>1, <2>2, SendSessionPartsNext
<1>4. CASE ServerNext
  BY <1>1, <1>2, <1>3, <1>4, ServerNextKeeps, ServerShows, ShowsKeeps, ToolAssumption
<1>5. ASSUME NEW c \in Client, OtherClient(c) PROVE SendSessionIInv'
  <2>1. ConnectionIInv'
    BY <1>1, <1>5, ClientKeeps DEF OtherClient
  <2>2. CASE c # tool
    <3>1. Apart(tool) /\ requests'[tool] = requests[tool]
      <4>1. CASE \E cmd \in Command : Request(c, cmd)
        BY <1>1, <2>2, <4>1, ToolAssumption DEF Request, tasks, Apart, TypeOK
      <4>2. CASE Take(c)
        BY <1>1, <2>2, <4>2, TakeKeeps, ToolAssumption DEF Take, StepKeeps
      <4>3. CASE Close(c)
        BY <1>1, <2>2, <4>3, CloseKeeps, ToolAssumption DEF Close, StepKeeps
      <4> QED BY <1>5, <4>1, <4>2, <4>3 DEF OtherClient
    <3>2. Shows(tool)
      BY <3>1, SameStream, ToolAssumption DEF Apart, Stream, Shows, Quiet
    <3> QED BY <1>1, <1>2, <1>3, <2>1, <3>2, ShowsKeeps
  <2>3. CASE c = tool
    <3>1. phase = "absent" /\ ~prompt
      BY <1>1, <1>5, <2>3 DEF OtherClient, Held, OneAtATime
    <3>2. Held'
      BY <1>2, <3>1 DEF Held, Connected, OneAtATime, FreshResponse
    <3> QED BY <1>3, <2>1, <3>2
  <2> QED BY <2>2, <2>3
<1> QED BY <1>4, <1>5

-----------------------------------------------------------------------------
(***************************************************************************)
(* The steps of the tool.                                                  *)
(***************************************************************************)

\* The length of the script bounds the position.
LEMMA Positioned ==
  ASSUME ToolTypeOK
  PROVE  /\ Len(script) \in Nat /\ position \in Nat
         /\ position < Len(script) => position + 1 \in 0 .. Len(script)
<1>1. script \in Seq(Seq(STRING)) /\ position \in 0 .. Len(script)
  BY ToolAssumption DEF ToolTypeOK
<1> QED BY <1>1, LenProperties

\* A line that is passed over.
LEMMA SkipKeeps ==
  ASSUME SendSessionIInv, Skip
  PROVE  SendSessionIInv'
<1>1. ConnectionIInv /\ ToolTypeOK /\ MidFrame /\ Held
  BY SendSessionParts
<1>2. /\ position' = position + 1 /\ position < Len(script)
      /\ UNCHANGED << vars, prompt, script, phase, midFrame, astray, taken >>
  BY DEF Skip, Ready
<1>3. ConnectionIInv' /\ Held'
  BY <1>1, <1>2, SameShows, ShowsKeeps
<1>4. ToolTypeOK'
  <2>1. position' \in 0 .. Len(script)
    BY <1>1, <1>2, Positioned
  <2> QED BY <1>1, <1>2, <1>3, <2>1, ToolTyped DEF ToolTypeOK
<1>5. MidFrame'
  BY <1>1, <1>2 DEF MidFrame
<1> QED BY <1>3, <1>4, <1>5, SendSessionPartsNext

\* The program returns and its connection is closed.
LEMMA ClosingKeeps ==
  ASSUME SendSessionIInv, Close(tool), ~midFrame,
         phase' \in {"done", "rejected", "failed"},
         UNCHANGED << prompt, script, position, midFrame, astray, taken >>
  PROVE  SendSessionIInv'
<1>1. /\ ConnectionIInv /\ ToolTypeOK /\ MidFrame /\ Held /\ TypeOK
      /\ ClientsInv /\ ClientInv(tool)
  BY SendSessionParts, ByClient, ToolAssumption DEF ClientsInv
<1>2. ConnectionIInv'
  BY <1>1, CloseKeeps, StepKeepsAll, ToolAssumption
<1>3. /\ handler' = handler /\ requests' = requests /\ writing' = writing
      /\ link'[tool] = "closed"
  BY <1>1, ToolAssumption DEF Close, tasks, TypeOK
<1>4. Held'
  <2>1. phase' \notin {"absent", "sending", "draining"}
    OBVIOUS
  <2>2. Connected' /\ OneAtATime'
    BY <2>1 DEF Connected, OneAtATime
  <2>3. CommandsSent' = CommandsSent
    BY <1>3 DEF CommandsSent
  <2>4. FreshResponse'
    BY <1>1, <1>3, <2>3 DEF Held, FreshResponse, Served
  <2> QED BY <2>2, <2>4 DEF Held
<1>5. ToolTypeOK'
  BY <1>1, <1>2, ToolTyped DEF ToolTypeOK
<1>6. MidFrame'
  BY DEF MidFrame
<1> QED BY <1>2, <1>4, <1>5, <1>6, SendSessionPartsNext

\* A line is sent: before the command nothing is under way.
LEMMA SendKeeps ==
  ASSUME SendSessionIInv, Send
  PROVE  SendSessionIInv'
<1>1. /\ ConnectionIInv /\ ToolTypeOK /\ MidFrame /\ Held /\ TypeOK
      /\ ClientsInv /\ ClientInv(tool) /\ tool \in Client
  BY SendSessionParts, ByClient, ToolAssumption DEF ClientsInv
<1>2. /\ phase = "sending" /\ link[tool] = "up" /\ position < Len(script)
      /\ position' = position + 1 /\ taken' = 0 /\ phase' = "draining"
      /\ UNCHANGED << server, tasks, link, frames, shown, prompt, script, midFrame, astray >>
  BY DEF Send, Ready
<1>3. PICK cmd \in Command : requests' = [requests EXCEPT ![tool] = Append(@, cmd)]
  BY DEF Send, Sent, Command
<1>4. ConnectionIInv'
  <2>1. TypeOK' /\ ClientsInv'
    BY <1>1, <1>2, <1>3, RequestKeeps
  <2> QED BY <2>1, ByClientNext
<1>5. ToolTypeOK'
  <2>1. position' \in 0 .. Len(script)
    BY <1>1, <1>2, Positioned
  <2> QED BY <1>1, <1>2, <1>4, <2>1, ToolTyped DEF ToolTypeOK
<1>6. MidFrame'
  BY <1>1, <1>2 DEF MidFrame
<1>7. ASSUME prompt, Served' PROVE Waiting'
  <2>1. Idle
    BY <1>1, <1>2, <1>7 DEF Held, OneAtATime, Served, tasks
  <2>2. At(tool, "reading")
    BY <1>1, <1>2, <2>1 DEF Idle, ClientInv, PlainInv, At
  <2>3. requests'[tool] = << cmd >>
    <3>1. requests'[tool] = Append(requests[tool], cmd)
      BY <1>1, <1>3 DEF TypeOK
    <3> QED BY <2>1, <3>1 DEF Idle
  <2>4. Len(requests'[tool]) = 1
    BY <2>3
  <2> QED BY <1>2, <2>1, <2>2, <2>4 DEF Waiting, Idle, At, Stream, tasks
<1>8. Held'
  BY <1>1, <1>2, <1>7 DEF Held, Connected, OneAtATime, FreshResponse
<1> QED BY <1>4, <1>5, <1>6, <1>8, SendSessionPartsNext

\* The length of a frame is read; nothing changes for the server.
LEMMA ReadLengthKeeps ==
  ASSUME SendSessionIInv, ReadLength
  PROVE  SendSessionIInv'
<1>1. ConnectionIInv /\ ToolTypeOK /\ MidFrame /\ Held
  BY SendSessionParts
<1>2. /\ phase = "draining" /\ ~astray /\ midFrame' = TRUE
      /\ UNCHANGED << vars, prompt, script, phase, position, astray, taken >>
  BY DEF ReadLength
<1>3. ConnectionIInv' /\ Held'
  BY <1>1, <1>2, SameShows, ShowsKeeps
<1>4. ToolTypeOK'
  BY <1>1, <1>2, <1>3, ToolTyped DEF ToolTypeOK
<1>5. MidFrame'
  BY <1>2 DEF MidFrame
<1> QED BY <1>3, <1>4, <1>5, SendSessionPartsNext

\* What a taken frame leaves on its way, and what it was.
LEMMA TakeShows ==
  ASSUME ConnectionIInv, Take(tool)
  PROVE  /\ ConnectionIInv' /\ Quiet(tool)
         /\ UNCHANGED << handler, requests, writing, link >> /\ link[tool] = "up"
         /\ Stream(tool) \in Seq(Frame) /\ Stream(tool)[1] = Head(frames[tool])
         /\ 1 \in DOMAIN Stream(tool) /\ Head(frames[tool]) \in Frame
         /\ \A i \in StatesAt(Stream(tool)') : i \in Nat /\ 1 < i + 1
                                               /\ i + 1 \in StatesAt(Stream(tool))
<1> DEFINE s == Stream(tool)
<1>1. TypeOK /\ ClientsInv /\ ClientInv(tool) /\ tool \in Client
  BY ByClient, ToolAssumption DEF ClientsInv
<1>2. /\ link[tool] = "up" /\ frames[tool] # << >>
      /\ frames' = [frames EXCEPT ![tool] = Tail(@)]
      /\ UNCHANGED << handler, replies, requests, writing, link >>
  BY DEF Take, tasks
<1>3. /\ frames[tool] \in Seq(Frame) /\ replies[tool] \in Seq(Frame)
      /\ shown[tool] \in Nat
  BY <1>1, Typed
<1>4. /\ Tail(frames[tool]) \o replies[tool] = Tail(s)
      /\ s \in Seq(Frame) /\ s # << >> /\ s[1] = Head(frames[tool])
  BY <1>2, <1>3, TakingShortens DEF Stream
<1>5. s' = Tail(s)
  <2>1. frames'[tool] = Tail(frames[tool])
    BY <1>1, <1>2 DEF TypeOK
  <2> QED BY <1>2, <1>4, <2>1 DEF Stream
<1>6. Rising(StatesAt(s), Values(s), shown[tool])
  BY <1>1, <1>2 DEF ClientInv, CatchesUpInv
<1>7. \A i \in StatesAt(s') : i + 1 \in StatesAt(s) /\ s'[i] = s[i + 1]
  <2> DEFINE t == Tail(s)
  <2>1. \A i \in StatesAt(t) : i + 1 \in StatesAt(s) /\ t[i] = s[i + 1]
    BY <1>3, <1>4, <1>6, StatesTaken
  <2> HIDE DEF t
  <2>2. s' = t
    BY <1>5 DEF t
  <2> QED BY <2>1, <2>2
<1>8. NoNewState(tool)
  BY <1>7 DEF NoNewState
<1>9. \A i \in StatesAt(s') : i \in Nat /\ 1 < i + 1
  <2> DEFINE t == Tail(s)
  <2>1. t \in Seq(Frame)
    BY <1>4, HeadTailProperties
  <2> HIDE DEF t
  <2>2. \A i \in StatesAt(t) : i \in 1 .. Len(t) /\ Len(t) \in Nat
    BY <2>1, Positions
  <2>3. \A i \in StatesAt(t) : i \in Nat /\ 1 < i + 1
    BY <2>2
  <2>4. s' = t
    BY <1>5 DEF t
  <2> QED BY <2>3, <2>4
<1>10. 1 \in DOMAIN s
  BY <1>4, LenProperties, EmptySeq
<1>11. ConnectionIInv'
  BY <1>1, TakeKeeps, StepKeepsAll
<1>12. Head(frames[tool]) \in Frame
  BY <1>2, <1>3, HeadTailProperties
<1> QED BY <1>2, <1>4, <1>7, <1>8, <1>9, <1>10, <1>11, <1>12 DEF Quiet

(***************************************************************************)
(* A frame is read.  When the server is in time a snapshot answers the     *)
(* only command under way, so it is the last answer there is to come.      *)
(***************************************************************************)
LEMMA ReadBodyKeeps ==
  ASSUME SendSessionIInv, ReadBody
  PROVE  SendSessionIInv'
<1> DEFINE s == Stream(tool)
<1>1. /\ ConnectionIInv /\ ToolTypeOK /\ MidFrame /\ Held /\ TypeOK /\ ClientInv(tool)
      /\ tool \in Client
  BY SendSessionParts, ByClient, ToolAssumption DEF ClientsInv
<1>2. /\ midFrame /\ Take(tool) /\ midFrame' = FALSE /\ phase = "draining"
      /\ UNCHANGED << prompt, script, position, astray >>
  BY <1>1 DEF ReadBody, MidFrame
<1>3. /\ ConnectionIInv' /\ Quiet(tool)
      /\ UNCHANGED << handler, requests, writing, link >> /\ link[tool] = "up"
      /\ s \in Seq(Frame) /\ s[1] = Head(frames[tool]) /\ 1 \in DOMAIN s
      /\ Head(frames[tool]) \in Frame
      /\ \A i \in StatesAt(s') : i \in Nat /\ 1 < i + 1 /\ i + 1 \in StatesAt(s)
  BY <1>1, <1>2, TakeShows
<1>4. MidFrame'
  BY <1>2 DEF MidFrame
<1>5. CASE Head(frames[tool]).kind # "State"
  <2>1. UNCHANGED << phase, taken >>
    BY <1>5 DEF ReadBody
  <2>2. Held'
    BY <1>1, <1>2, <1>3, <2>1, ShowsKeeps DEF Shows
  <2>3. ToolTypeOK'
    BY <1>1, <1>2, <1>3, <2>1, ToolTyped DEF ToolTypeOK
  <2> QED BY <1>3, <1>4, <2>2, <2>3, SendSessionPartsNext
<1>6. CASE Head(frames[tool]).kind = "State"
  <2>1. /\ phase' = "sending" /\ taken' = s[1].answers /\ 1 \in StatesAt(s)
        /\ taken' \in Nat
    BY <1>3, <1>6 DEF ReadBody, StatesAt, Frame
  <2>2. ToolTypeOK'
    BY <1>1, <1>2, <1>3, <2>1, ToolTyped DEF ToolTypeOK
  <2>3. ASSUME prompt, Served' PROVE Idle' /\ taken' = CommandsSent'
    <3>0. Served /\ writing[tool]
      BY <1>3, <2>3 DEF Served
    <3>1. Answering
      BY <1>1, <1>2, <2>1, <2>3, <3>0 DEF Held, OneAtATime, Waiting
    <3>2. \A i \in StatesAt(s) : s[i].answers = handler[tool].heard
      BY <3>1 DEF Answering
    <3>3. taken' = CommandsSent'
      <4>1. requests'[tool] = << >> /\ handler'[tool].heard = handler[tool].heard
        BY <1>3, <3>1 DEF Answering
      <4>2. handler[tool].heard \in Nat
        BY <1>1, Typed
      <4>3. CommandsSent' = handler[tool].heard
        BY <4>1, <4>2 DEF CommandsSent
      <4> QED BY <2>1, <3>2, <4>3
    <3>4. InARow(AnswersAt(s), Answered(s), LastAnswered(tool))
      BY <1>1, <3>0 DEF ClientInv, AnswersInv
    <3>5. \A i \in StatesAt(s) : i \in AnswersAt(s) /\ Answered(s)[i] = handler[tool].heard
      BY <3>2 DEF StatesAt, AnswersAt, Answered
    <3>6. At(tool, "reading")
      <4>1. handler[tool].heard \in 1 .. LastAnswered(tool)
        BY <2>1, <3>4, <3>5 DEF InARow
      <4>2. handler[tool].heard \in Nat
        BY <1>1, Typed
      <4> QED BY <4>1, <4>2 DEF LastAnswered
    <3>7. StatesAt(s') = {}
      <4> SUFFICES ASSUME NEW i \in StatesAt(s') PROVE FALSE
        OBVIOUS
      <4>1. i + 1 \in StatesAt(s) /\ 1 < i + 1
        BY <1>3
      <4>2. Answered(s)[1] < Answered(s)[i + 1]
        BY <2>1, <3>4, <3>5, <4>1 DEF InARow
      <4>3. handler[tool].heard < handler[tool].heard /\ handler[tool].heard \in Nat
        BY <1>1, <2>1, <3>5, <4>1, <4>2, Typed
      <4> QED BY <4>3
    <3> QED BY <1>3, <3>1, <3>3, <3>6, <3>7 DEF Idle, Answering, At
  <2>4. Held'
    BY <1>2, <1>3, <2>1, <2>3 DEF Held, Connected, OneAtATime, FreshResponse
  <2> QED BY <1>3, <1>4, <2>2, <2>4, SendSessionPartsNext
<1> QED BY <1>5, <1>6

\* The drain gives up; with a server that is in time nothing is under way.
LEMMA DeadlineKeeps ==
  ASSUME SendSessionIInv, Deadline
  PROVE  SendSessionIInv'
<1>1. ConnectionIInv /\ ToolTypeOK /\ MidFrame /\ Held
  BY SendSessionParts
<1>2. /\ phase = "draining" /\ (prompt => NoAnswerComing) /\ phase' = "sending"
      /\ astray' = (astray \/ midFrame) /\ midFrame' = FALSE
      /\ UNCHANGED << vars, prompt, script, position, taken >>
  BY DEF Deadline
<1>3. /\ ConnectionIInv' /\ Stream(tool)' = Stream(tool)
      /\ UNCHANGED << handler, requests, writing, link >>
  BY <1>1, <1>2, SameShows DEF vars, tasks, socket
<1>4. ToolTypeOK'
  <2>1. astray' \in BOOLEAN
    BY <1>2
  <2> QED BY <1>1, <1>2, <1>3, <2>1, ToolTyped DEF ToolTypeOK
<1>5. MidFrame'
  BY <1>2 DEF MidFrame
<1>6. prompt => Idle'
  BY <1>2, <1>3 DEF NoAnswerComing, Idle, At, AnswersAt, StatesAt
<1>7. Held'
  BY <1>1, <1>2, <1>3, <1>6
  DEF Held, Connected, OneAtATime, FreshResponse, CommandsSent, Served
<1> QED BY <1>3, <1>4, <1>5, <1>7, SendSessionPartsNext

\* Every step of the tool keeps the invariant.
LEMMA ToolStepKeeps ==
  ASSUME SendSessionIInv, ToolStep
  PROVE  SendSessionIInv'
<1>1. MidFrame
  BY SendSessionParts
<1>2. CASE Reject \/ Finish \/ ReadAstray \/ ReadEnd
  <2>1. /\ Close(tool) /\ ~midFrame /\ phase' \in {"done", "rejected", "failed"}
        /\ UNCHANGED << prompt, script, position, midFrame, astray, taken >>
    BY <1>1, <1>2 DEF Reject, Ready, Finish, ReadAstray, ReadEnd, MidFrame
  <2> QED BY <2>1, ClosingKeeps
<1> QED BY <1>2, SkipKeeps, SendKeeps, ReadLengthKeeps, ReadBodyKeeps, DeadlineKeeps
    DEF ToolStep

-----------------------------------------------------------------------------
\* The invariant at the start.
LEMMA ToolInitIInv == ToolInit => SendSessionIInv
<1> SUFFICES ASSUME ToolInit PROVE SendSessionIInv
  OBVIOUS
<1>1. /\ Init /\ script \in Scripts /\ position = 0 /\ midFrame = FALSE /\ astray = FALSE
      /\ taken = 0 /\ prompt \in BOOLEAN /\ phase \in {"absent", "sending"}
      /\ phase = "absent" => prompt = FALSE
  BY DEF ToolInit
<1>2. ConnectionIInv /\ TypeOK
  BY <1>1, InitConnectionIInv, ByClient
<1>3. ToolTypeOK
  <2>1. Len(script) \in Nat
    BY <1>1, ToolAssumption, LenProperties
  <2>2. position \in 0 .. Len(script)
    BY <1>1, <2>1
  <2> QED BY <1>1, <1>2, <2>2 DEF ToolTypeOK
<1>4. /\ link[tool] = "absent" /\ requests[tool] = << >> /\ handler[tool].at = "absent"
      /\ Stream(tool) = << >>
  BY <1>1, ToolAssumption, NothingOnItsWay DEF Init, Stream
<1>5. Idle
  BY <1>4, NothingOnItsWay DEF Idle
<1>6. Held
  BY <1>1, <1>4, <1>5 DEF Held, Connected, OneAtATime, FreshResponse
<1>7. MidFrame
  BY <1>1 DEF MidFrame
<1> QED BY <1>2, <1>3, <1>6, <1>7, SendSessionParts

\* Nothing happens.
LEMMA ToolStutterKeeps ==
  ASSUME SendSessionIInv, UNCHANGED allVars
  PROVE  SendSessionIInv'
<1>1. /\ ConnectionIInv /\ ToolTypeOK /\ MidFrame /\ Held
      /\ UNCHANGED << vars, prompt, script, phase, position, midFrame, astray, taken >>
  BY SendSessionParts DEF allVars, tool_vars
<1>2. ConnectionIInv' /\ Held'
  BY <1>1, SameShows, ShowsKeeps
<1>3. ToolTypeOK'
  BY <1>1, <1>2, ToolTyped DEF ToolTypeOK
<1>4. MidFrame'
  BY <1>1 DEF MidFrame
<1> QED BY <1>2, <1>3, <1>4, SendSessionPartsNext

\* The invariant with which the freshness of a drain's response is inductive.
THEOREM SendSessionInvariance == ToolSpec => []SendSessionIInv
<1>1. SendSessionIInv /\ [ToolNext]_allVars => SendSessionIInv'
  BY OthersKeep, ToolStepKeeps, ToolStutterKeeps DEF ToolNext
<1> QED BY <1>1, ToolInitIInv, PTL DEF ToolSpec

\* Connections, channels and the sender are always of their types.
THEOREM ToolTypeCorrect == ToolSpec => []ToolTypeOK
<1>1. SendSessionIInv => ToolTypeOK
  BY DEF SendSessionIInv
<1> QED BY <1>1, SendSessionInvariance, PTL

\* With a server that answers in time, the snapshot a drain of accure-send ends
\* with answers the command it was for, whatever the other clients and the
\* peers do and however long the script is.
THEOREM ResponsesAreFresh == ToolSpec => []FreshResponse
<1>1. SendSessionIInv => FreshResponse
  BY DEF SendSessionIInv
<1> QED BY <1>1, SendSessionInvariance, PTL

\* accure-send among its clients breaks none of the server's promises to them:
\* dropping a read or closing the connection part-way leaves every client's
\* answers, snapshots and traces in order.
THEOREM PromisesHoldBesideTool ==
  ToolSpec => [](AnswersInOrder /\ SnapshotsCatchUp /\ NoTraceGaps)
<1>1. SendSessionIInv => AnswersInOrder /\ SnapshotsCatchUp /\ NoTraceGaps
  BY DEF SendSessionIInv, ConnectionIInv
<1> QED BY <1>1, SendSessionInvariance, PTL
=============================================================================
