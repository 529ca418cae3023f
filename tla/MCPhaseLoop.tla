---------------------------- MODULE MCPhaseLoop ----------------------------
(* Instances of PhaseLoop for TLC.                                         *)
EXTENDS PhaseLoop, TLC

AllErrorTexts == {{}, {"quota"}, {"oom"}, {"transient"}, {"quota", "oom"}}
CleanOrTransient == {{}, {"transient"}}
NothingUnprompted == {}
=============================================================================
