------------------------------- MODULE Rendering -------------------------------
(***************************************************************************)
(* The text a site shows (render_text in accure-core/src/compensation.rs): *)
(* the valid edits of its log, applied to an empty text in the order of    *)
(* their dots.  Which edits are valid is decided in Accure, where an allow *)
(* or deny may reach any edit at any time; here a site's register turns as *)
(* it likes.                                                               *)
(***************************************************************************)
EXTENDS Naturals, SequencesExt

CONSTANTS
  Site,       \* site names, numbered in their alphabetical order
  MaxEdits,   \* bound: how many edits each site issues
  MaxPos      \* bound: the positions named

ASSUME NameAssumption  == Site \subseteq Nat
ASSUME BoundAssumption == MaxEdits \in [Site -> Nat] /\ MaxPos \in Nat

VARIABLES
  issued,   \* every edit so far
  log,      \* the edits in each site's State.log, in arrival order
  valid     \* the dots of the valid ones

vars == << issued, log, valid >>

Dot == [site : Site, n : Nat \ {0}]

\* DocOp with its TextEdit, and what its author had in the log.  The
\* character an insert brings is known by the insert's dot.
Edit == [dot : Dot, kind : {"Insert", "Delete"}, pos : 0 .. MaxPos, past : SUBSET Dot]

DotsIn(q) == {e.dot : e \in Range(q)}

Init ==
  /\ issued = {}
  /\ log = [s \in Site |-> << >>]
  /\ valid = [s \in Site |-> {}]

-----------------------------------------------------------------------------
(***************************************************************************)
(* render_text.  A text is the sequence of the dots of its characters;     *)
(* positions count from 0.                                                 *)
(***************************************************************************)
\* Slips: by number first; in the order of arrival.
Before_ByNumber(d, e) == d.n < e.n \/ (d.n = e.n /\ d.site < e.site)

Before(d, e) == d.site < e.site \/ (d.site = e.site /\ d.n < e.n)

InOrder_AsReceived(q) == q

\* sort_by keeps the order of two that are neither before the other.
Precedes(q, j, k) ==
  Before(q[j].dot, q[k].dot) \/ (~Before(q[k].dot, q[j].dot) /\ j < k)

InOrder(q) ==
  [i \in DOMAIN q |->
     q[CHOOSE k \in DOMAIN q : Cardinality({j \in DOMAIN q : Precedes(q, j, k)}) = i - 1]]

\* A position beyond the end is the end for an insert and nothing for a delete.
ApplyEdit(text, e) ==
  IF e.kind = "Insert"
    THEN InsertAt(text, (IF e.pos <= Len(text) THEN e.pos ELSE Len(text)) + 1, e.dot)
    ELSE IF e.pos < Len(text) THEN RemoveAt(text, e.pos + 1) ELSE text

\* Slip: whether an edit is valid or not.
RenderText_Unfiltered(q, marked) == FoldLeft(ApplyEdit, << >>, InOrder(q))

RenderText(q, marked) ==
  FoldLeft(LAMBDA text, e : IF e.dot \in marked THEN ApplyEdit(text, e) ELSE text,
           << >>, InOrder(q))

Text(s) == RenderText(log[s], valid[s])

\* Text(s)', in a form that TLC need not evaluate again at every use.
TextAfter(s) == RenderText(log'[s], valid'[s])

-----------------------------------------------------------------------------
\* The register gives the dots that the site holds and believes valid.
Judge(s, d) ==
  \/ valid' = [valid EXCEPT ![s] = @ \union {d}]
  \/ UNCHANGED valid

\* A client of s edits the text; an accepted edit need not be valid.  Only the
\* order of a site's numbers matters here, so the policy operations that take
\* some of them are left out.
UpdateDocument(s, kind, pos) ==
  LET own == {e \in issued : e.dot.site = s}
      new == [dot |-> [site |-> s, n |-> Cardinality(own) + 1], kind |-> kind, pos |-> pos,
              past |-> DotsIn(log[s])]
  IN  /\ Cardinality(own) < MaxEdits[s]
      /\ issued' = issued \union {new}
      /\ log' = [log EXCEPT ![s] = Append(@, new)]
      /\ Judge(s, new.dot)

ReceiveDocument(s, e) ==
  /\ e.dot \notin DotsIn(log[s])
  /\ e.past \subseteq DotsIn(log[s])
  /\ log' = [log EXCEPT ![s] = Append(@, e)]
  /\ Judge(s, e.dot)
  /\ UNCHANGED issued

\* A rebuild undoes some edits and redoes others.
Rejudge(s) ==
  /\ \E marked \in SUBSET DotsIn(log[s]) : valid' = [valid EXCEPT ![s] = marked]
  /\ UNCHANGED << issued, log >>

Next ==
  \E s \in Site :
    \/ \E kind \in {"Insert", "Delete"}, pos \in 0 .. MaxPos : UpdateDocument(s, kind, pos)
    \/ \E e \in issued : ReceiveDocument(s, e)
    \/ Rejudge(s)

Spec == Init /\ [][Next]_vars

-----------------------------------------------------------------------------
(***************************************************************************)
(* State, and of the text: every character in it was brought by one valid  *)
(* insert and is there once.                                               *)
(***************************************************************************)
TypeOK ==
  /\ issued \subseteq Edit
  /\ \A s \in Site :
       /\ Range(log[s]) \subseteq issued
       /\ valid[s] \subseteq DotsIn(log[s])
       /\ IsInjective(Text(s))
       /\ Range(Text(s)) \subseteq
            {e.dot : e \in {d \in issued : d.kind = "Insert" /\ d.dot \in valid[s]}}

(***************************************************************************)
(* Sites that consider the same edits valid show the same text, whatever   *)
(* else each has received, in whatever order the edits arrived and however *)
(* often they were undone and redone on the way.                           *)
(***************************************************************************)
SameEditsSameText ==
  \A s, r \in Site : valid[s] = valid[r] => Text(s) = Text(r)

(***************************************************************************)
(* What a user who looks at text expects of an edit ("insert a character   *)
(* at position", "delete a character at position", README.md:80-81).       *)
(***************************************************************************)
TakesEffect(e, text, after) ==
  IF e.kind = "Insert"
    THEN \E i \in 1 .. Len(after) :
           /\ after[i] = e.dot
           /\ RemoveAt(after, i) = text
           /\ i = e.pos + 1 \/ (i = Len(after) /\ e.pos >= i)
    ELSE IF e.pos < Len(text) THEN after = RemoveAt(text, e.pos + 1) ELSE after = text

(***************************************************************************)
(* An edit that becomes valid by itself, made, received or redone, has     *)
(* exactly the effect its author asked for on the text as it is, provided  *)
(* no edit of a site later in the alphabet, nor a later one of its author, *)
(* is valid: the edits of the last author are never moved or lost.         *)
(***************************************************************************)
LastEditExact ==
  [][\A s \in Site : \A e \in issued' :
       /\ e.dot \notin valid[s]
       /\ valid'[s] = valid[s] \union {e.dot}
       /\ \A d \in valid[s] : d.site < e.dot.site \/ (d.site = e.dot.site /\ d.n < e.dot.n)
       => TakesEffect(e, Text(s), TextAfter(s))]_vars

(***************************************************************************)
(* A valid delete removes the character its author sees at the position    *)
(* ("delete a character at position", README.md:81).                       *)
(***************************************************************************)
DeleteTakesEffect ==
  [][\A e \in issued' \ issued :
       e.kind = "Delete" /\ e.dot \in valid'[e.dot.site] =>
         TakesEffect(e, Text(e.dot.site), TextAfter(e.dot.site))]_vars
=============================================================================
