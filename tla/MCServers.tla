------------------------------- MODULE MCServers -------------------------------
(***************************************************************************)
(* Instances of Servers for TLC.  No definition tells one server from      *)
(* another (the actor ids are ordered, the servers are not).               *)
(***************************************************************************)
EXTENDS ServersInv, TLC

Alike == Permutations(Server)
=============================================================================
