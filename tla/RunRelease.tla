----------------------------- MODULE RunRelease -----------------------------
(* The two archives of one run and the GitHub release they travel through:  *)
(* what run_archives.py on one end and import_run_bundle.py and             *)
(* fetch_runs.py on the other end share.                                    *)
(*                                                                          *)
(* Both archives of a pair carry the same created_at.  The rest of their    *)
(* contents is collected from one output directory and packed without       *)
(* clocks (mtime 0, sorted members), so an archive is its stamp: two        *)
(* archives of a part are the same bytes exactly when their stamps agree.   *)
CONSTANTS
  Stamps,     \* values of created_at
  NoArchive,  \* no file of that name
  NoWorker

VARIABLES
  created,    \* release wave-<N> exists
  release     \* its assets, and who uploaded them

ASSUME StampsAssumption == NoArchive \notin Stamps /\ Stamps # {}

Parts == {"results", "transcripts"}
NoAsset == [stamp |-> NoArchive, by |-> NoWorker]
Assets == {p \in Parts : release[p] # NoAsset}
=============================================================================
