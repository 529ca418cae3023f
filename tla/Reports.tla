------------------------------ MODULE Reports ------------------------------
(***************************************************************************)
(* The artifacts of scripts/run_challenges.bb in ../reports, a directory   *)
(* that the runners of all lanes share.  A run claims a report name nobody *)
(* else has, and derives its other names from it: it writes the report,    *)
(* the evaluator log, a manifest that vouches for the log, a bundle of the *)
(* manifest, and last a batch of records at the end of results.edn.        *)
(*                                                                         *)
(* Any write may fail.  What fails on the log, manifest or bundle is kept  *)
(* for after the records; what fails on the report or on results.edn       *)
(* leaves -main at once, and the run is "unreported" or "unappended".      *)
(*                                                                         *)
(* Runs are concurrent processes and may be killed at any step.  All of    *)
(* them end in the same second, so that their first choice of a name is    *)
(* the same.  Bytes are pieces: a run's database batch has Pieces of them, *)
(* every other file is empty, cut short, or whole.                         *)
(***************************************************************************)
EXTENDS Integers, Sequences, FiniteSets

CONSTANTS
  Runs,    \* runner processes
  NoRun,   \* not a run
  Pieces   \* writes that one batch of records may take

ASSUME ReportsAssumption ==
  /\ IsFiniteSet(Runs)
  /\ NoRun \notin Runs
  /\ Pieces \in Nat \ {0}

Names == 1..Cardinality(Runs)  \* report.md, report-2.md, ...

Extensions == {"md", "private.log", "manifest.json", "bundle.tar.gz"}

VARIABLES
  pc,       \* run -> the step it takes next
  name,     \* run -> n of the report name it tries, or has claimed
  files,    \* name -> extension -> who wrote it and how much of it is there
  lock,     \* the run holding the lock on results.edn
  db,       \* results.edn: the runs whose pieces it holds, in file order
  written,  \* run -> pieces of its batch already in db
  failed    \* runs whose emit-run-artifacts! threw

vars == <<pc, name, files, lock, db, written, failed>>

Absent       == [by |-> NoRun, state |-> "absent"]
File(r, s)   == [by |-> r, state |-> s]
At(n, e)     == files[n][e]
Exists(n, e) == At(n, e) # Absent
Put(n, e, f) == [files EXCEPT ![n][e] = f]

Go(r, p) == pc' = [pc EXCEPT ![r] = p]

Init ==
  /\ pc = [r \in Runs |-> "running"]
  /\ name = [r \in Runs |-> 1]
  /\ files = [n \in Names |-> [e \in Extensions |-> Absent]]
  /\ lock = NoRun
  /\ db = <<>>
  /\ written = [r \in Runs |-> 0]
  /\ failed = {}

(* The challenges are over.                                                *)
FinishChallenges(r) ==
  /\ pc[r] = "running"
  /\ Go(r, "claim")
  /\ UNCHANGED <<name, files, lock, db, written, failed>>

(* Mutation: a name that another runner found free, too, is taken over.    *)
ClaimShared(r) ==
  /\ pc[r] = "claim"
  /\ At(name[r], "md").state \in {"absent", "empty"}
  /\ files' = Put(name[r], "md", File(r, "empty"))
  /\ Go(r, "report")
  /\ UNCHANGED <<name, lock, db, written, failed>>

(* claim-report-path!: one atomic creation per pass of the loop.           *)
Claim(r) ==
  /\ pc[r] = "claim"
  /\ ~Exists(name[r], "md")
  /\ files' = Put(name[r], "md", File(r, "empty"))
  /\ Go(r, "report")
  /\ UNCHANGED <<name, lock, db, written, failed>>

ClaimNext(r) ==
  /\ pc[r] = "claim"
  /\ Exists(name[r], "md")
  /\ name' = [name EXCEPT ![r] = @ + 1]
  /\ UNCHANGED <<pc, files, lock, db, written, failed>>

(* The reports directory takes no file: nothing in -main catches it.       *)
ClaimThrows(r) ==
  /\ pc[r] = "claim"
  /\ Go(r, "unreported")
  /\ UNCHANGED <<name, files, lock, db, written, failed>>

(* generate-report's spit; -main catches only what comes after it.         *)
WriteReport(r) ==
  /\ pc[r] = "report"
  /\ \/ /\ files' = Put(name[r], "md", File(r, "whole"))
        /\ Go(r, "log")
     \/ /\ \E s \in {"empty", "cut"} : files' = Put(name[r], "md", File(r, s))
        /\ Go(r, "unreported")
  /\ UNCHANGED <<name, lock, db, written, failed>>

(* Mutation: an artifact error fails the run on the spot.                  *)
FailAtOnce(r) ==
  /\ failed' = failed \cup {r}
  /\ Go(r, "done")
  /\ UNCHANGED <<name, lock, db, written>>

(* -main keeps an artifact error until the database is appended.           *)
Fail(r) ==
  /\ failed' = failed \cup {r}
  /\ Go(r, "append")
  /\ UNCHANGED <<name, lock, db, written>>

(* write-evaluator-log!: create, write, and read back; what cannot be      *)
(* created is not deleted, what cannot be written is.                      *)
CreateLog(r) ==
  /\ pc[r] = "log"
  /\ \/ /\ ~Exists(name[r], "private.log")
        /\ files' = Put(name[r], "private.log", File(r, "empty"))
        /\ Go(r, "fillLog")
        /\ UNCHANGED <<name, lock, db, written, failed>>
     \/ Fail(r) /\ UNCHANGED files

FillLog(r) ==
  /\ pc[r] = "fillLog"
  /\ \E s \in {"cut", "whole"} : files' = Put(name[r], "private.log", File(r, s))
  /\ Go(r, "checkLog")
  /\ UNCHANGED <<name, lock, db, written, failed>>

CheckLog(r) ==
  /\ pc[r] = "checkLog"
  /\ IF At(name[r], "private.log") = File(r, "whole")
     THEN /\ Go(r, "manifest")
          /\ UNCHANGED <<name, files, lock, db, written, failed>>
     ELSE /\ files' = Put(name[r], "private.log", Absent)
          /\ Fail(r)

(* evaluator-log-intact?: length and SHA-256 are this run's.               *)
LogIntact(r) == At(name[r], "private.log") = File(r, "whole")

(* write-run-manifest!: nothing without an intact log, nothing over an     *)
(* existing manifest, and no bundle without a manifest of one's own.       *)
StartManifest(r) ==
  /\ pc[r] = "manifest"
  /\ IF Exists(name[r], "manifest.json")
     THEN Go(r, "append") /\ UNCHANGED <<name, files, lock, db, written, failed>>
     ELSE IF LogIntact(r)
     THEN /\ files' = Put(name[r], "manifest.json", File(r, "cut"))
          /\ Go(r, "fillManifest")
          /\ UNCHANGED <<name, lock, db, written, failed>>
     ELSE Fail(r) /\ UNCHANGED files

FillManifest(r) ==
  /\ pc[r] = "fillManifest"
  /\ \/ /\ files' = Put(name[r], "manifest.json", File(r, "whole"))
        /\ Go(r, "bundle")
        /\ UNCHANGED <<name, lock, db, written, failed>>
     \/ Fail(r) /\ UNCHANGED files

(* Mutation: the bundle does not wait for the manifest.                    *)
BundleFirst(r) ==
  /\ pc[r] \in {"manifest", "bundle"}
  /\ ~Exists(name[r], "bundle.tar.gz")
  /\ files' = Put(name[r], "bundle.tar.gz", File(r, "cut"))
  /\ Go(r, "tar")
  /\ UNCHANGED <<name, lock, db, written, failed>>

(* write-run-bundle!: tar writes the archive under its final name.         *)
StartBundle(r) ==
  /\ pc[r] = "bundle"
  /\ IF Exists(name[r], "bundle.tar.gz")
     THEN Go(r, "append") /\ UNCHANGED files
     ELSE /\ files' = Put(name[r], "bundle.tar.gz", File(r, "cut"))
          /\ Go(r, "tar")
  /\ UNCHANGED <<name, lock, db, written, failed>>

FinishBundle(r) ==
  /\ pc[r] = "tar"
  /\ \/ /\ files' = Put(name[r], "bundle.tar.gz", File(r, "whole"))
        /\ Go(r, "append")
        /\ UNCHANGED <<name, lock, db, written, failed>>
     \/ /\ files' = Put(name[r], "bundle.tar.gz", Absent)
        /\ Fail(r)

(* -main's create-dirs and append-locked!'s channel, or their exceptions.  *)
OpenDatabase(r) ==
  /\ pc[r] = "append"
  /\ Go(r, "lock") \/ Go(r, "unappended")
  /\ UNCHANGED <<name, files, lock, db, written, failed>>

(* Mutation: appending relies on the append mode of the file alone.        *)
AppendUnlocked(r) ==
  /\ pc[r] = "lock"
  /\ lock' = lock
  /\ Go(r, "write")
  /\ UNCHANGED <<name, files, db, written, failed>>

(* append-locked!                                                          *)
TakeLock(r) ==
  /\ pc[r] = "lock"
  /\ lock = NoRun
  /\ lock' = r
  /\ Go(r, "write")
  /\ UNCHANGED <<name, files, db, written, failed>>

AppendPiece(r) ==
  /\ pc[r] = "write"
  /\ written[r] < Pieces
  /\ db' = Append(db, r)
  /\ written' = [written EXCEPT ![r] = @ + 1]
  /\ UNCHANGED <<pc, name, files, lock, failed>>

CloseChannel(r) ==
  /\ pc[r] = "write"
  /\ written[r] = Pieces
  /\ lock' = NoRun
  /\ Go(r, "done")
  /\ UNCHANGED <<name, files, db, written, failed>>

(* A write that throws: with-open closes the channel all the same.         *)
AppendThrows(r) ==
  /\ pc[r] = "write"
  /\ lock' = NoRun
  /\ Go(r, "unappended")
  /\ UNCHANGED <<name, files, db, written, failed>>

Over == {"done", "unreported", "unappended", "killed"}

(* Mutation: a lock outlives the process that took it.                     *)
CrashHolding(r) ==
  /\ pc[r] \notin Over
  /\ Go(r, "killed")
  /\ UNCHANGED <<name, files, lock, db, written, failed>>

(* A killed process loses its file lock with its channel.                  *)
Crash(r) ==
  /\ pc[r] \notin Over
  /\ Go(r, "killed")
  /\ lock' = IF lock = r THEN NoRun ELSE lock
  /\ UNCHANGED <<name, files, db, written, failed>>

Emit(r) ==
  \/ FinishChallenges(r) \/ Claim(r) \/ ClaimNext(r) \/ ClaimThrows(r)
  \/ WriteReport(r)
  \/ CreateLog(r) \/ FillLog(r) \/ CheckLog(r)
  \/ StartManifest(r) \/ FillManifest(r)
  \/ StartBundle(r) \/ FinishBundle(r)
  \/ OpenDatabase(r) \/ TakeLock(r)
  \/ AppendPiece(r) \/ AppendThrows(r) \/ CloseChannel(r)

Ended == \A r \in Runs : pc[r] \in Over

Next == \E r \in Runs : Emit(r) \/ Crash(r)

Spec == Init /\ [][Next]_vars

(* A process that is not killed keeps stepping; each of the others takes   *)
(* the lock at most once, so it is granted in the end.                     *)
FairSpec == Spec /\ \A r \in Runs : WF_vars(Emit(r))

-----------------------------------------------------------------------------
Steps == {"running", "claim", "report", "log", "fillLog", "checkLog",
          "manifest", "fillManifest", "bundle", "tar", "append", "lock",
          "write"} \cup Over

(* The types of the state, proved for any number of runs (TypeCorrect);  *)
(* the runs check what is said below.                                    *)
TypeOK ==
  /\ pc \in [Runs -> Steps]
  /\ name \in [Runs -> Names]
  /\ files \in [Names -> [Extensions ->
                 [by : Runs \cup {NoRun}, state : {"absent", "empty", "cut", "whole"}]]]
  /\ lock \in Runs \cup {NoRun}
  /\ db \in Seq(Runs)
  /\ written \in [Runs -> 0..Pieces]
  /\ failed \subseteq Runs

(* No two runs share a report name, so no run ever writes over another's   *)
(* artifact or finds one in its way: a shared name would silently drop one *)
(* lane's artifacts (claim-report-path!).                                  *)
OwnArtifacts ==
  \A n \in Names, e \in Extensions : Exists(n, e) =>
    /\ At(n, "md") # Absent
    /\ At(n, e).by = At(n, "md").by
    /\ name[At(n, e).by] = n

(* A manifest never vouches for a log that is missing or incomplete, and a *)
(* bundle never stands without its whole manifest, at any moment and       *)
(* whoever was killed.                                                     *)
ManifestVouches ==
  \A n \in Names :
    /\ Exists(n, "manifest.json") =>
         At(n, "private.log") = File(At(n, "manifest.json").by, "whole")
    /\ Exists(n, "bundle.tar.gz") =>
         At(n, "manifest.json") = File(At(n, "bundle.tar.gz").by, "whole")

(* Records of concurrent runners never interleave in results.edn.          *)
NeverInterleaved ==
  \A i, j, k \in DOMAIN db :
    (i < j /\ j < k /\ db[i] = db[k]) => db[j] = db[i]

PiecesOf(r) == {i \in DOMAIN db : db[i] = r}

(* A run that comes to its end has all its records in the database.  An    *)
(* exception of emit-run-artifacts! costs it no record, and without one    *)
(* all four artifacts are there whenever -main gets as far as the records. *)
(* No record stands without its report, not even of a killed run, and a    *)
(* run whose report could not be written leaves nothing that looks like    *)
(* a result: no record, log, manifest or bundle.                           *)
RunsAreRecorded ==
  \A r \in Runs :
    /\ pc[r] = "done" => Cardinality(PiecesOf(r)) = Pieces
    /\ pc[r] \in {"done", "unappended"} /\ r \notin failed =>
         \A e \in Extensions : At(name[r], e) = File(r, "whole")
    /\ PiecesOf(r) # {} => At(name[r], "md") = File(r, "whole")
    /\ pc[r] = "unreported" =>
         /\ PiecesOf(r) = {}
         /\ \A n \in Names, e \in Extensions :
              At(n, e).by = r => e = "md" /\ At(n, e).state # "whole"

(* What is there stays: no step of one run changes an artifact of another. *)
ArtifactsStay ==
  [][\A n \in Names, e \in Extensions :
       At(n, e).state = "whole" => files'[n][e] = At(n, e)]_vars

(* Every run ends, even when another is killed, or fails to write, while it*)
(* holds the lock.                                                         *)
RunsEnd == <>Ended
=============================================================================
