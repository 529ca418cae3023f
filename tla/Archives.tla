------------------------------ MODULE Archives ------------------------------
(* scripts/run_archives.py: a process writes the two archives of a          *)
(* collected run, or verifies the ones that are there, and uploads them.    *)
(* Several workers hold a copy of the run, each with an archive directory   *)
(* of its own; the processes a worker starts, one after another, may fail,  *)
(* be interrupted or be killed anywhere.                                    *)
(*                                                                          *)
(* Left out: the checks of collect on the output directory, file modes, the *)
(* sizes of archives (two archives of a part may have the same size, so the *)
(* last size check tells nothing apart), and require_private, which runs    *)
(* before anything is sent.                                                 *)
EXTENDS Naturals, RunRelease

CONSTANTS
  Workers,
  MaxAttempts,  \* bound on the processes of all workers
  MaxKills      \* bound on kill -9

VARIABLES
  disk,      \* the archives in each worker's directory: stamp or NoArchive
  job,       \* the process of each worker
  attempts, kills

archiveVars == <<disk, job, attempts, kills>>

ASSUME WorkersAssumption ==
  /\ NoWorker \notin Workers
  /\ MaxAttempts \in Nat /\ MaxKills \in Nat

Resting == {"idle", "failed", "done"}

(* written: the parts this process linked.  known: the assets it saw in the *)
(* release.  pending: the parts it still has to upload.                     *)
Idle == [at |-> "idle", stamp |-> NoArchive, written |-> {}, known |-> {},
         pending |-> {}]

ArchiveInit ==
  /\ disk = [w \in Workers |-> [p \in Parts |-> NoArchive]]
  /\ job = [w \in Workers |-> Idle]
  /\ attempts = 0
  /\ kills = 0

At(w, stage) == job[w].at = stage
Existing(w) == {p \in Parts : disk[w][p] # NoArchive}

(* Every loop goes over PARTS in its order: the first of those left.        *)
First(ps) == {p \in ps : p = "transcripts" => "results" \notin ps}

Fail(w) == job' = [job EXCEPT ![w].at = "failed"]

(* write_archives: verify and reuse what is there, or write both with one   *)
(* created_at, or refuse a partial set.                                     *)
Start(w) ==
  /\ job[w].at \in Resting
  /\ attempts < MaxAttempts
  /\ attempts' = attempts + 1
  /\ CASE Existing(w) = Parts ->
            job' = [job EXCEPT ![w] = [Idle EXCEPT !.at = "verify"]]
       [] Existing(w) = {} ->
            \E s \in Stamps :
              job' = [job EXCEPT ![w] = [Idle EXCEPT !.at = "write", !.stamp = s]]
       [] OTHER -> job' = [job EXCEPT ![w] = [Idle EXCEPT !.at = "failed"]]
  /\ UNCHANGED <<disk, kills, created, release>>

(* write_part: the archive is packed aside and linked under its name.       *)
WritePart(w) ==
  /\ At(w, "write")
  /\ \E p \in First(Parts \ job[w].written) :
       /\ disk' = [disk EXCEPT ![w][p] = job[w].stamp]
       /\ job' = [job EXCEPT
            ![w].written = @ \cup {p},
            ![w].at = IF p = "transcripts" THEN "verify" ELSE "write"]
  /\ UNCHANGED <<attempts, kills, created, release>>

(* verify_pair reads both back; check_same_run compares created_at too.     *)
Verify(w) ==
  /\ At(w, "verify")
  /\ job' = [job EXCEPT ![w].at =
               IF disk[w]["results"] = disk[w]["transcripts"] THEN "view"
                                                              ELSE "clean"]
  /\ UNCHANGED <<disk, attempts, kills, created, release>>

(* zstd fails, the disk is full, a file cannot be read, or Ctrl-C.          *)
WriteFails(w) ==
  /\ job[w].at \in {"write", "verify"}
  /\ job' = [job EXCEPT ![w].at = "clean"]
  /\ UNCHANGED <<disk, attempts, kills, created, release>>

(* Mutation: except Exception, which Ctrl-C passes by.                      *)
CleanNothing(w) ==
  /\ At(w, "clean")
  /\ Fail(w)
  /\ UNCHANGED <<disk, attempts, kills, created, release>>

(* except BaseException: unlink what this process wrote.  It wrote nothing  *)
(* when it verified a pair that was there.                                  *)
Clean(w) ==
  /\ At(w, "clean")
  /\ IF job[w].written = {}
     THEN Fail(w) /\ UNCHANGED disk
     ELSE \E p \in First(job[w].written) :
            /\ disk' = [disk EXCEPT ![w][p] = NoArchive]
            /\ job' = [job EXCEPT ![w].written = @ \ {p}]
  /\ UNCHANGED <<attempts, kills, created, release>>

(* release_assets: its listing is used to tell absent from present.         *)
ViewRelease(w) ==
  /\ At(w, "view")
  /\ job' = IF created
            THEN [job EXCEPT ![w].at = "compare", ![w].known = Assets]
            ELSE [job EXCEPT ![w].at = "create"]
  /\ UNCHANGED <<disk, attempts, kills, created, release>>

(* A concurrent worker may have created it first; only absence is fatal.    *)
CreateRelease(w) ==
  /\ At(w, "create")
  /\ created' = TRUE
  /\ job' = [job EXCEPT ![w].at = "view"]
  /\ UNCHANGED <<disk, attempts, kills, release>>

(* Mutation: a name that is in the release is taken for this archive.       *)
CompareNames(w) ==
  /\ At(w, "compare")
  /\ job' = [job EXCEPT ![w].at = "start",
                        ![w].pending = Parts \ job[w].known]
  /\ UNCHANGED <<disk, attempts, kills, created, release>>

(* An asset that is there must be the same bytes; the others are pending.   *)
Compare(w) ==
  /\ At(w, "compare")
  /\ IF \A p \in job[w].known : release[p].stamp = disk[w][p]
     THEN job' = [job EXCEPT ![w].at = "start",
                             ![w].pending = Parts \ job[w].known]
     ELSE Fail(w)
  /\ UNCHANGED <<disk, attempts, kills, created, release>>

(* gh release upload refuses when a name is there already, and then sends   *)
(* the files side by side.                                                  *)
StartUpload(w) ==
  /\ At(w, "start")
  /\ IF job[w].pending \cap Assets = {}
     THEN job' = [job EXCEPT ![w].at = "land"]
     ELSE Fail(w)
  /\ UNCHANGED <<disk, attempts, kills, created, release>>

(* Without --clobber a second asset of a name is refused, and gh fails for  *)
(* all of them, whatever it has already sent.                               *)
Land(w) ==
  /\ At(w, "land")
  /\ \E p \in job[w].pending :
       IF p \notin Assets
       THEN /\ release' = [release EXCEPT ![p] = [stamp |-> disk[w][p], by |-> w]]
            /\ job' = [job EXCEPT ![w].pending = @ \ {p}]
       ELSE Fail(w) /\ UNCHANGED release
  /\ UNCHANGED <<disk, attempts, kills, created>>

(* Any call of gh may fail or time out.                                     *)
UploadFails(w) ==
  /\ job[w].at \in {"view", "create", "compare", "start", "land"}
  /\ Fail(w)
  /\ UNCHANGED <<disk, attempts, kills, created, release>>

(* The last look at the release: every name is there, of the right size.    *)
CheckRelease(w) ==
  /\ At(w, "land") /\ job[w].pending = {}
  /\ IF Assets = Parts THEN job' = [job EXCEPT ![w].at = "done"] ELSE Fail(w)
  /\ UNCHANGED <<disk, attempts, kills, created, release>>

Kill(w) ==
  /\ job[w].at \notin Resting
  /\ kills < MaxKills
  /\ kills' = kills + 1
  /\ Fail(w)
  /\ UNCHANGED <<disk, attempts, created, release>>

(* "Partial archive set in DEST; remove NAME to rewrite it"                 *)
RemovePartial(w) ==
  /\ job[w].at \in Resting
  /\ Existing(w) \notin {{}, Parts}
  /\ disk' = [disk EXCEPT ![w] = [p \in Parts |-> NoArchive]]
  /\ UNCHANGED <<job, attempts, kills, created, release>>

ArchiveStep(w) ==
  \/ Start(w) \/ WritePart(w) \/ Verify(w) \/ WriteFails(w) \/ Clean(w)
  \/ ViewRelease(w) \/ CreateRelease(w) \/ Compare(w) \/ StartUpload(w)
  \/ Land(w) \/ UploadFails(w) \/ CheckRelease(w) \/ Kill(w)
  \/ RemovePartial(w)

ArchiveNext == \E w \in Workers : ArchiveStep(w)
-----------------------------------------------------------------------------
(* A worker that reports success leaves a release that holds its own pair:  *)
(* both parts, of one stamp, the ones its directory holds (main).  Failures *)
(* and interrupts leave no partial set there, which the next process would  *)
(* refuse; only kill -9 does (write_archives).                              *)
SuccessIsOnePair ==
  \A w \in Workers :
    /\ At(w, "done") => \E s \in Stamps : \A p \in Parts :
                          release[p].stamp = s /\ disk[w][p] = s
    /\ kills = 0 /\ job[w].at \in Resting => Existing(w) \in {{}, Parts}
=============================================================================
