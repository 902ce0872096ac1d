----------------------------- MODULE MCBranches -----------------------------
(* Three branches with the BranchData of the executor's concurrent phase   *)
(* as results.                                                             *)
EXTENDS Branches

MCResults == {"Allow", "Deny", "Error"}
MCDenies == {"Deny"}
=============================================================================
