----------------------------- MODULE RunTransfer -----------------------------
(* A run's way from the machines that ran it, through the release, into     *)
(* runs/ on another: Archives and Imports over one release.                 *)
EXTENDS Archives, Imports

vars == <<archiveVars, importVars, created, release>>

Init ==
  /\ created = FALSE
  /\ release = [p \in Parts |-> NoAsset]
  /\ ArchiveInit
  /\ ImportInit

Next ==
  \/ ArchiveNext /\ UNCHANGED importVars
  \/ ImportNext /\ UNCHANGED archiveVars

Spec == Init /\ [][Next]_vars
-----------------------------------------------------------------------------
(* What is in runs/ came out of a release, and with its transcripts only    *)
(* out of one that holds a pair: uploads that raced may have left parts of  *)
(* different archives there, and merge_transcripts refuses those.           *)
MergedIsReleasedPair ==
  (target # NoRun /\ target.recorded # NoArchive) =>
    \A p \in Parts : release[p].stamp = target.recorded
=============================================================================
