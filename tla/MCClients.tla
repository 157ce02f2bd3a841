------------------------------- MODULE MCClients -------------------------------
(***************************************************************************)
(* Instances of SendSession for TLC.                                       *)
(***************************************************************************)
EXTENDS SendSessionInv

\* Nothing, for a client that is not accure-send; a script that is sent to
\* its end; one with a comment, a line the server may refuse
\* and a line that does not parse.
ScriptsRun ==
  {<< >>,
   << <<"insert", "0", "x">>, <<"deny", "s2", "w">>, <<"s">> >>,
   << <<"#x">>, <<"d", "0">>, <<"insert", "x", "0">>, <<"snapshot">> >>}
=============================================================================
