--------------------------------- MODULE Ops ---------------------------------
(***************************************************************************)
(* The operations ACCURE replicates (accure-core/src/dot.rs, op.rs and the *)
(* enums of state.rs).  A policy operation allows or denies a right to a   *)
(* site, a document operation is an edit of the shared text.  The edit's   *)
(* position and character do not matter to any definition that uses this   *)
(* module and are left out of DocOp.                                       *)
(***************************************************************************)
EXTENDS Naturals, Sequences, FiniteSets

CONSTANT Site           \* the site identifiers (strings in the program)

Right      == {"Admin", "Write", "Read"}
Effect     == {"Allow", "Deny"}
Strategies == {"Integrity", "Accessibility"}

\* The n-th operation a site emits; numbers start at 1.
Dot == [site : Site, n : Nat \ {0}]

AccessTuple == [site : Site, right : Right]

(***************************************************************************)
(* last_dot_seen is Option<Dot> in the program and its site is always the  *)
(* target, so the number alone is kept, 0 standing for None.  deps and     *)
(* missing_dots are vectors whose order is never looked at.                *)
(***************************************************************************)
PolicyOp == [dot           : Dot,
             target        : Site,
             right         : Right,
             effect        : Effect,
             deps          : SUBSET Dot,
             last_dot_seen : Nat,
             missing_dots  : SUBSET Dot]

DocOp == [dot : Dot, deps : SUBSET Dot]

TupleOf(p) == [site |-> p.target, right |-> p.right]

DotsOf(ops) == {o.dot : o \in ops}
=============================================================================
