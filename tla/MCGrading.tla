----------------------------- MODULE MCGrading -----------------------------
(* Instances of Grading for TLC.                                           *)
EXTENDS Grading, TLC

Symmetric == Permutations(Names)
AllErrorTexts == {{}, {"quota"}, {"oom"}, {"transient"}}
CleanOrTransient == {{}, {"transient"}}
NothingUnprompted == {}
=============================================================================
