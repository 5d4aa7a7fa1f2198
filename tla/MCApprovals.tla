----------------------------- MODULE MCApprovals -----------------------------
(***************************************************************************)
(* Approvals for TLC: requests, calls and commands are interchangeable.    *)
(***************************************************************************)
EXTENDS Approvals, TLC

Interchangeable ==
  Permutations(Proposals) \cup Permutations(Deciders) \cup Permutations(Commands)
===============================================================================
