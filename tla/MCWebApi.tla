------------------------------- MODULE MCWebApi -------------------------------
(***************************************************************************)
(* WebApi for TLC: users, nodes, processes and requests are alike.         *)
(***************************************************************************)
EXTENDS WebApi, TLC

Symmetry == Permutations(User) \cup Permutations(Node) \cup Permutations(Process) \cup Permutations(Req)
=============================================================================
