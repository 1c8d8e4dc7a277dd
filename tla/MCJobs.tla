------------------------------- MODULE MCJobs -------------------------------
(***************************************************************************)
(* Instances of Jobs for TLC.                                              *)
(***************************************************************************)
EXTENDS Jobs, TLC

Processes == Permutations(Clients) \cup Permutations(Workers)
Everything == Processes \cup Permutations(Jobs)
=============================================================================
