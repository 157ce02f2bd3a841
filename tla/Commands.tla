------------------------------- MODULE Commands -------------------------------
(***************************************************************************)
(* The command lines both clients accept (parse_command in accure-client/  *)
(* src/lib.rs and Right::parse in accure-core/src/op.rs).  A line is the   *)
(* sequence of its words, in lower case; positions and characters matter   *)
(* only as far as a word is or is not a number.                            *)
(***************************************************************************)
EXTENDS Naturals, Sequences

Number    == {"0", "1"}
RightWord == {"a", "admin", "r", "read", "w", "write"}

\* The commands that change the log.
UpdateCommand == {"Insert", "Delete", "Allow", "Deny"}

\* What is wrong with a line.
ParseError == {"Empty", "Unknown", "Usage"}

IfWellFormed(shape, command) == IF shape THEN command ELSE "Usage"

\* Words after the ones a command needs are passed over.
ParseCommand(line) ==
  LET Has(i, words) == Len(line) >= i /\ line[i] \in words
      Starts(words) == Has(1, words)
  IN  CASE line = << >> -> "Empty"
        [] Starts({"insert", "i"}) ->
             IfWellFormed(Has(2, Number) /\ Len(line) >= 3, "Insert")
        [] Starts({"delete", "del", "d", "x"}) -> IfWellFormed(Has(2, Number), "Delete")
        [] Starts({"allow"}) -> IfWellFormed(Has(3, RightWord), "Allow")
        [] Starts({"deny"}) -> IfWellFormed(Has(3, RightWord), "Deny")
        [] Starts({"snapshot", "s", "refresh"}) -> "Snapshot"
        [] OTHER -> "Unknown"
=============================================================================
