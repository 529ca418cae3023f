---------------------------- MODULE MCRunTransfer ----------------------------
(* Instances of RunTransfer for TLC.                                        *)
EXTENDS RunTransfer, TLC

Symmetric == Permutations(Workers) \cup Permutations(Stamps)
=============================================================================
