---------------------------- MODULE AccureDelivery ----------------------------
(***************************************************************************)
(* The protocol core is an instance of Delivery: its entries are those of  *)
(* the two Automerge lists, and a site holds what is in its State.log.     *)
(***************************************************************************)
EXTENDS AccureInv

DeliveredEntries == {[id |-> e.op.dot, past |-> e.past] : e \in AllEntries}

D == INSTANCE Delivery WITH
       Server <- Site,
       entries <- DeliveredEntries,
       holds <- [s \in Site |-> Seen(s)]

(***************************************************************************)
(* A State.log holds an operation only with everything its author had      *)
(* seen, and a number once given names one operation for ever: update_*,   *)
(* note_n and the loops of rebuild_from_automerge together never reuse a   *)
(* dot, skip an entry or take one early.                                   *)
(***************************************************************************)
LogsAreDelivered == D!Spec
=============================================================================
