--------------------------- MODULE TransferProofs ---------------------------
(***************************************************************************)
(* What TLAPS proves of RunTransfer, for any number of workers, archives,  *)
(* processes and kills.                                                    *)
(***************************************************************************)
EXTENDS RunTransfer, TLAPS

-----------------------------------------------------------------------------
(* Types.                                                                  *)

MaybeStamps == Stamps \cup {NoArchive}
Sending == {"view", "create", "compare", "start", "land", "done"}
JobRecords == [at : Sending \cup {"idle", "failed", "write", "verify", "clean"},
               stamp : MaybeStamps, written : SUBSET Parts, known : SUBSET Parts,
               pending : SUBSET Parts]

ArchiveTypes ==
  /\ disk \in [Workers -> [Parts -> MaybeStamps]]
  /\ job \in [Workers -> JobRecords]
  /\ kills \in Nat

(* An asset in the release has a stamp.                                    *)
ReleaseTypes ==
  /\ DOMAIN release = Parts
  /\ \A p \in Parts : release[p] = NoAsset \/ release[p].stamp \in Stamps

(* Where a worker's process stands, its directory and the release.         *)
Paired(w) == disk[w]["results"] = disk[w]["transcripts"] /\ disk[w]["results"] # NoArchive

Worker(w) ==
  /\ job[w].at = "write" => job[w].stamp \in Stamps /\ job[w].written \in {{}, {"results"}}
                            /\ Existing(w) = job[w].written
  /\ job[w].at = "verify" => job[w].written \in {{}, Parts} /\ Existing(w) = Parts
  /\ job[w].at = "clean" =>
       (Existing(w) = job[w].written \/ (job[w].written = {} /\ Existing(w) = Parts))
  /\ job[w].at \in Sending => Paired(w)
  /\ job[w].at = "compare" => \A p \in job[w].known : release[p].stamp \in Stamps
  /\ job[w].at \in {"start", "land", "done"} =>
       \A p \in Parts \ job[w].pending : release[p].stamp = disk[w][p]
  /\ job[w].at = "done" => job[w].pending = {}
  /\ job[w].at \in {"idle", "failed"} /\ kills = 0 => Existing(w) \in {{}, Parts}

Uploads == ArchiveTypes /\ ReleaseTypes /\ \A w \in Workers : Worker(w)

(* Nothing that is in the release is ever replaced.                        *)
Kept == \A p \in Parts : release[p].stamp # NoArchive => release'[p] = release[p]

LEMMA NoAssetIsNone == NoAsset.stamp = NoArchive /\ NoArchive \notin Stamps
BY StampsAssumption DEF NoAsset

LEMMA AssetsHaveStamps ==
  ASSUME ReleaseTypes
  PROVE  \A p \in Parts : p \in Assets <=> release[p].stamp \in Stamps
BY NoAssetIsNone DEF ReleaseTypes, Assets

(* What the steps of one worker leave alone of the others.                 *)
LEMMA OthersStay ==
  ASSUME Uploads, NEW v \in Workers, job'[v] = job[v], disk'[v] = disk[v], Kept,
         kills' = 0 => kills = 0
  PROVE  Worker(v)'
<1>1. Existing(v)' = Existing(v) /\ (Paired(v) => Paired(v)')
  BY DEF Existing, Paired
<1>2. ASSUME NEW p \in Parts, release[p].stamp \in Stamps
      PROVE  release'[p].stamp = release[p].stamp
  BY <1>2, NoAssetIsNone DEF Kept
<1>3. job[v].at = "compare" => \A p \in job[v].known : release'[p].stamp \in Stamps
  BY <1>2 DEF Uploads, Worker, ArchiveTypes, JobRecords
<1>4. job[v].at \in {"start", "land", "done"} =>
        \A p \in Parts \ job[v].pending : release'[p].stamp = disk[v][p]
  <2>1. SUFFICES ASSUME job[v].at \in {"start", "land", "done"},
                        NEW p \in Parts \ job[v].pending
                 PROVE  release'[p].stamp = disk[v][p]
    OBVIOUS
  <2>2. Paired(v) /\ release[p].stamp = disk[v][p]
    BY <2>1 DEF Uploads, Worker, Sending
  <2>3. disk[v][p] # NoArchive
    BY <2>2 DEF Paired, Parts
  <2> QED BY <2>2, <2>3 DEF Kept
<1>5. Worker(v)
  BY DEF Uploads
<1> QED BY <1>1, <1>3, <1>4, <1>5 DEF Worker

(* A step of worker w that changes nothing but its process.                *)
LEMMA JobMoves ==
  ASSUME Uploads, NEW w \in Workers, NEW j \in JobRecords, job' = [job EXCEPT ![w] = j],
         disk' = disk, release' = release, kills' = kills \/ kills' = kills + 1,
         Worker(w)'
  PROVE  Uploads' /\ Kept
<1>1. ArchiveTypes' /\ ReleaseTypes'
  BY DEF Uploads, ArchiveTypes, ReleaseTypes, Assets
<1>2. Kept /\ (kills' = 0 => kills = 0)
  BY DEF Kept, Uploads, ArchiveTypes
<1>3. ASSUME NEW v \in Workers, v # w PROVE Worker(v)'
  <2>1. job'[v] = job[v] /\ disk'[v] = disk[v]
    BY <1>3 DEF Uploads, ArchiveTypes
  <2> QED BY <1>2, <2>1, OthersStay
<1> QED BY <1>1, <1>2, <1>3 DEF Uploads

(* And one that changes a file in its directory as well.                   *)
LEMMA FileMoves ==
  ASSUME Uploads, NEW w \in Workers, NEW j \in JobRecords, job' = [job EXCEPT ![w] = j],
         NEW d \in [Parts -> MaybeStamps], disk' = [disk EXCEPT ![w] = d],
         release' = release, kills' = kills, Worker(w)'
  PROVE  Uploads' /\ Kept
<1>1. ArchiveTypes' /\ ReleaseTypes'
  BY DEF Uploads, ArchiveTypes, ReleaseTypes, Assets
<1>2. Kept
  BY DEF Kept
<1>3. ASSUME NEW v \in Workers, v # w PROVE Worker(v)'
  <2>1. job'[v] = job[v] /\ disk'[v] = disk[v]
    BY <1>3 DEF Uploads, ArchiveTypes
  <2> QED BY <1>2, <2>1, OthersStay
<1> QED BY <1>1, <1>2, <1>3 DEF Uploads

LEMMA OwnProcess ==
  ASSUME Uploads, NEW w \in Workers
  PROVE  /\ Worker(w) /\ job[w] \in JobRecords /\ disk[w] \in [Parts -> MaybeStamps]
         /\ kills \in Nat
         /\ \A a \in Sending \cup {"idle", "failed", "write", "verify", "clean"} :
               [job[w] EXCEPT !.at = a] \in JobRecords
BY DEF Uploads, ArchiveTypes, JobRecords

LEMMA UploadStep ==
  ASSUME Uploads, NEW w \in Workers, ArchiveStep(w)
  PROVE  Uploads' /\ Kept
<1> DEFINE k == job[w]
<1>0. /\ Worker(w) /\ k \in JobRecords /\ disk[w] \in [Parts -> MaybeStamps] /\ kills \in Nat
      /\ \A a \in Sending \cup {"idle", "failed", "write", "verify", "clean"} :
            [k EXCEPT !.at = a] \in JobRecords
  BY OwnProcess
<1>f. ASSUME NEW j \in JobRecords, job' = [job EXCEPT ![w] = j]
      PROVE  job'[w] = j
  BY <1>f DEF Uploads, ArchiveTypes
<1>d. ASSUME disk' = disk PROVE Existing(w)' = Existing(w) /\ Paired(w)' = Paired(w)
  BY <1>d DEF Existing, Paired
(* A call that fails, and a kill.                                          *)
<1>1. ASSUME Fail(w), UNCHANGED <<disk, release>>, kills' = kills \/ kills' = kills + 1,
             kills' = 0 => Existing(w) \in {{}, Parts}
      PROVE  Uploads' /\ Kept
  <2>1. PICK j : j = [k EXCEPT !.at = "failed"]
    OBVIOUS
  <2>2. job' = [job EXCEPT ![w] = j] /\ j \in JobRecords /\ j.at = "failed"
    BY <1>0, <1>1, <2>1 DEF Fail, JobRecords
  <2>3. job'[w] = j
    BY <1>f, <2>2
  <2>4. Worker(w)'
    BY <1>1, <1>d, <2>2, <2>3 DEF Worker, Sending
  <2> QED BY <1>1, <2>2, <2>4, JobMoves
<1>2. ASSUME Paired(w) PROVE Existing(w) = Parts
  BY <1>2 DEF Paired, Existing, Parts
<1>3. CASE Start(w)
  <2>1. /\ k.at \in Resting /\ UNCHANGED <<disk, kills, release>>
        /\ \/ Existing(w) = Parts /\ job' = [job EXCEPT ![w] = [Idle EXCEPT !.at = "verify"]]
           \/ /\ Existing(w) = {}
              /\ \E s \in Stamps :
                   job' = [job EXCEPT ![w] = [Idle EXCEPT !.at = "write", !.stamp = s]]
           \/ /\ Existing(w) \notin {{}, Parts}
              /\ job' = [job EXCEPT ![w] = [Idle EXCEPT !.at = "failed"]]
    BY <1>3 DEF Start
  <2>2. CASE Existing(w) = Parts /\ job' = [job EXCEPT ![w] = [Idle EXCEPT !.at = "verify"]]
    <3>1. PICK j : j = [Idle EXCEPT !.at = "verify"]
      OBVIOUS
    <3>2. j \in JobRecords /\ j.at = "verify" /\ j.written = {} /\ job' = [job EXCEPT ![w] = j]
      BY <2>2, <3>1 DEF Idle, JobRecords, MaybeStamps
    <3>3. Worker(w)'
      BY <1>d, <1>f, <2>1, <2>2, <3>2 DEF Worker, Sending
    <3> QED BY <2>1, <3>2, <3>3, JobMoves
  <2>3. ASSUME NEW s \in Stamps, Existing(w) = {},
               job' = [job EXCEPT ![w] = [Idle EXCEPT !.at = "write", !.stamp = s]]
        PROVE  Uploads' /\ Kept
    <3>1. PICK j : j = [Idle EXCEPT !.at = "write", !.stamp = s]
      OBVIOUS
    <3>2. j \in JobRecords /\ j.at = "write" /\ j.written = {} /\ j.stamp = s
          /\ job' = [job EXCEPT ![w] = j]
      BY <2>3, <3>1 DEF Idle, JobRecords, MaybeStamps
    <3>3. Worker(w)'
      BY <1>d, <1>f, <2>1, <2>3, <3>2 DEF Worker, Sending
    <3> QED BY <2>1, <3>2, <3>3, JobMoves
  <2>4. CASE Existing(w) \notin {{}, Parts} /\ job' = [job EXCEPT ![w] = [Idle EXCEPT !.at = "failed"]]
    <3>1. PICK j : j = [Idle EXCEPT !.at = "failed"]
      OBVIOUS
    <3>2. j \in JobRecords /\ j.at = "failed" /\ job' = [job EXCEPT ![w] = j]
      BY <2>4, <3>1 DEF Idle, JobRecords, MaybeStamps
    <3>3. kills # 0
      <4>1. k.at = "done" => Existing(w) = Parts
        BY <1>0, <1>2 DEF Worker, Sending
      <4> QED BY <1>0, <2>1, <2>4, <4>1 DEF Worker, Resting
    <3>4. Worker(w)'
      BY <1>d, <1>f, <2>1, <2>4, <3>2, <3>3 DEF Worker, Sending
    <3> QED BY <2>1, <3>2, <3>4, JobMoves
  <2> QED BY <2>1, <2>2, <2>3, <2>4
<1>4. CASE WritePart(w)
  <2>1. PICK p \in First(Parts \ k.written) :
          /\ k.at = "write" /\ UNCHANGED <<kills, release>>
          /\ disk' = [disk EXCEPT ![w][p] = k.stamp]
          /\ job' = [job EXCEPT ![w].written = @ \cup {p},
                               ![w].at = IF p = "transcripts" THEN "verify" ELSE "write"]
    BY <1>4 DEF WritePart, At
  <2>2. /\ k.written \in {{}, {"results"}} /\ Existing(w) = k.written /\ k.stamp \in Stamps
        /\ p = IF k.written = {} THEN "results" ELSE "transcripts"
    BY <1>0, <2>1 DEF Worker, First, Parts
  <2>3. PICK d : d = [disk[w] EXCEPT ![p] = k.stamp]
    OBVIOUS
  <2>4. PICK j : j = [k EXCEPT !.written = @ \cup {p},
                               !.at = IF p = "transcripts" THEN "verify" ELSE "write"]
    OBVIOUS
  <2>5. /\ disk' = [disk EXCEPT ![w] = d] /\ job' = [job EXCEPT ![w] = j]
        /\ d \in [Parts -> MaybeStamps] /\ j \in JobRecords
        /\ j.written = k.written \cup {p} /\ j.stamp = k.stamp
        /\ j.at = IF p = "transcripts" THEN "verify" ELSE "write"
    <3>1. p \in Parts /\ k.stamp \in MaybeStamps /\ k.written \cup {p} \subseteq Parts
      BY <2>2 DEF MaybeStamps, Parts
    <3>2. d \in [Parts -> MaybeStamps]
      BY <1>0, <2>3, <3>1
    <3>3. disk' = [disk EXCEPT ![w] = d] /\ job' = [job EXCEPT ![w] = j]
      BY <2>1, <2>3, <2>4
    <3>4. j \in JobRecords
      BY <1>0, <2>4, <3>1 DEF JobRecords
    <3>5. /\ j.written = k.written \cup {p} /\ j.stamp = k.stamp
          /\ j.at = IF p = "transcripts" THEN "verify" ELSE "write"
      BY <1>0, <2>4 DEF JobRecords
    <3> QED BY <3>2, <3>3, <3>4, <3>5
  <2>6. job'[w] = j /\ disk'[w] = d
    BY <1>f, <2>5 DEF Uploads, ArchiveTypes
  <2>7. Existing(w)' = k.written \cup {p}
    BY <1>0, <2>2, <2>3, <2>6, NoAssetIsNone DEF Existing, Parts
  <2>8. Worker(w)'
    BY <2>2, <2>5, <2>6, <2>7 DEF Worker, Sending, Parts
  <2> QED BY <2>1, <2>5, <2>8, FileMoves
<1>5. CASE Verify(w) \/ WriteFails(w)
  <2>1. PICK a \in {"view", "clean"} :
          /\ k.at \in {"write", "verify"} /\ UNCHANGED <<disk, kills, release>>
          /\ job' = [job EXCEPT ![w].at = a]
          /\ a = "view" => k.at = "verify" /\ disk[w]["results"] = disk[w]["transcripts"]
    BY <1>5 DEF Verify, WriteFails, At
  <2>2. PICK j : j = [k EXCEPT !.at = a]
    OBVIOUS
  <2>3. j \in JobRecords /\ j.at = a /\ j.written = k.written /\ job' = [job EXCEPT ![w] = j]
    BY <1>0, <2>1, <2>2 DEF JobRecords, Sending
  <2>4. a = "view" => Paired(w)
    BY <1>0, <2>1 DEF Worker, Paired, Existing, Parts
  <2>5. Worker(w)'
    <3>1. Existing(w) = k.written \/ (k.written = {} /\ Existing(w) = Parts)
      <4>1. CASE k.at = "write"
        BY <1>0, <4>1 DEF Worker
      <4>2. CASE k.at = "verify"
        BY <1>0, <4>2 DEF Worker
      <4> QED BY <2>1, <4>1, <4>2
    <3>2. job'[w].at = a /\ job'[w].written = k.written
      BY <1>f, <2>3
    <3>3. Existing(w)' = Existing(w) /\ Paired(w)' = Paired(w)
      BY <1>d, <2>1
    <3> QED BY <2>4, <3>1, <3>2, <3>3 DEF Worker, Sending
  <2> QED BY <2>1, <2>3, <2>5, JobMoves
<1>6. CASE Clean(w)
  <2>1. k.at = "clean" /\ UNCHANGED <<kills, release>>
    BY <1>6 DEF Clean, At
  <2>2. CASE k.written = {}
    BY <1>0, <1>1, <1>6, <2>1, <2>2 DEF Clean, Worker
  <2>3. CASE k.written # {}
    <3>1. PICK p \in First(k.written) :
            /\ disk' = [disk EXCEPT ![w][p] = NoArchive]
            /\ job' = [job EXCEPT ![w].written = @ \ {p}]
      BY <1>6, <2>3 DEF Clean
    <3>2. p \in Parts /\ Existing(w) = k.written
      BY <1>0, <2>1, <2>3 DEF Worker, First, JobRecords
    <3>3. PICK d : d = [disk[w] EXCEPT ![p] = NoArchive]
      OBVIOUS
    <3>4. PICK j : j = [k EXCEPT !.written = @ \ {p}]
      OBVIOUS
    <3>5. /\ disk' = [disk EXCEPT ![w] = d] /\ job' = [job EXCEPT ![w] = j]
          /\ d \in [Parts -> MaybeStamps] /\ j \in JobRecords
          /\ j.written = k.written \ {p} /\ j.at = "clean"
      BY <1>0, <2>1, <3>1, <3>2, <3>3, <3>4 DEF JobRecords, MaybeStamps
    <3>6. job'[w] = j /\ disk'[w] = d
      BY <1>f, <3>5 DEF Uploads, ArchiveTypes
    <3>7. Existing(w)' = k.written \ {p}
      BY <1>0, <3>2, <3>3, <3>6 DEF Existing
    <3>8. Worker(w)'
      <4>1. job'[w].at = "clean" /\ Existing(w)' = job'[w].written
        BY <3>5, <3>6, <3>7
      <4> QED BY <4>1 DEF Worker, Sending
    <3> QED BY <2>1, <3>5, <3>8, FileMoves
  <2> QED BY <2>2, <2>3
<1>7. CASE ViewRelease(w)
  <2>1. /\ k.at = "view" /\ UNCHANGED <<disk, kills, release>>
        /\ \/ job' = [job EXCEPT ![w].at = "compare", ![w].known = Assets]
           \/ job' = [job EXCEPT ![w].at = "create"]
    BY <1>7 DEF ViewRelease, At
  <2>2. PICK j \in {[k EXCEPT !.at = "compare", !.known = Assets], [k EXCEPT !.at = "create"]} :
          job' = [job EXCEPT ![w] = j]
    BY <2>1
  <2>3. Assets \in SUBSET Parts
    BY DEF Assets
  <2>4. /\ j \in JobRecords /\ j.at \in {"compare", "create"}
        /\ j.at = "compare" => j.known = Assets
    <3>1. CASE j = [k EXCEPT !.at = "compare", !.known = Assets]
      BY <1>0, <2>3, <3>1 DEF JobRecords, Sending
    <3>2. CASE j = [k EXCEPT !.at = "create"]
      BY <1>0, <3>2 DEF JobRecords, Sending
    <3> QED BY <2>2, <3>1, <3>2
  <2>5. \A p \in Assets : release'[p].stamp \in Stamps
    BY <2>1, <2>3, AssetsHaveStamps DEF Uploads
  <2>6. Worker(w)'
    BY <1>0, <1>d, <1>f, <2>1, <2>2, <2>4, <2>5 DEF Worker, Sending
  <2> QED BY <2>1, <2>2, <2>4, <2>6, JobMoves
<1>8. CASE CreateRelease(w)
  <2>1. k.at = "create" /\ UNCHANGED <<disk, kills, release>> /\ job' = [job EXCEPT ![w].at = "view"]
    BY <1>8 DEF CreateRelease, At
  <2>2. PICK j : j = [k EXCEPT !.at = "view"]
    OBVIOUS
  <2>3. j \in JobRecords /\ j.at = "view" /\ job' = [job EXCEPT ![w] = j]
    BY <1>0, <2>1, <2>2 DEF JobRecords, Sending
  <2>4. Worker(w)'
    BY <1>0, <1>d, <1>f, <2>1, <2>3 DEF Worker, Sending
  <2> QED BY <2>1, <2>3, <2>4, JobMoves
<1>9. ASSUME k.at \in Sending, Fail(w), UNCHANGED <<disk, kills, release>>
      PROVE  Uploads' /\ Kept
  <2>1. Existing(w) = Parts
    BY <1>0, <1>2, <1>9 DEF Worker
  <2> QED BY <1>0, <1>1, <1>9, <2>1
<1>10. CASE Compare(w)
  <2>1. k.at = "compare" /\ UNCHANGED <<disk, kills, release>>
    BY <1>10 DEF Compare, At
  <2>2. CASE Fail(w)
    BY <1>9, <2>1, <2>2 DEF Sending
  <2>3. CASE /\ \A p \in k.known : release[p].stamp = disk[w][p]
             /\ job' = [job EXCEPT ![w].at = "start", ![w].pending = Parts \ k.known]
    <3>1. PICK j : j = [k EXCEPT !.at = "start", !.pending = Parts \ k.known]
      OBVIOUS
    <3>2. j \in JobRecords /\ j.at = "start" /\ Parts \ j.pending = k.known /\ job' = [job EXCEPT ![w] = j]
      <4>1. k.known \subseteq Parts
        BY <1>0 DEF JobRecords
      <4>2. j \in JobRecords
        BY <1>0, <3>1 DEF JobRecords, Sending
      <4>3. j.at = "start" /\ j.pending = Parts \ k.known
        BY <1>0, <3>1 DEF JobRecords
      <4> QED BY <2>3, <3>1, <4>1, <4>2, <4>3
    <3>3. Worker(w)'
      BY <1>0, <1>d, <1>f, <2>1, <2>3, <3>2 DEF Worker, Sending
    <3> QED BY <2>1, <3>2, <3>3, JobMoves
  <2> QED BY <1>10, <2>2, <2>3 DEF Compare
<1>11. CASE StartUpload(w)
  <2>1. k.at = "start" /\ UNCHANGED <<disk, kills, release>>
    BY <1>11 DEF StartUpload, At
  <2>2. CASE Fail(w)
    BY <1>9, <2>1, <2>2 DEF Sending
  <2>3. CASE job' = [job EXCEPT ![w].at = "land"]
    <3>1. PICK j : j = [k EXCEPT !.at = "land"]
      OBVIOUS
    <3>2. j \in JobRecords /\ j.at = "land" /\ j.pending = k.pending /\ job' = [job EXCEPT ![w] = j]
      BY <1>0, <2>3, <3>1 DEF JobRecords, Sending
    <3>3. Worker(w)'
      BY <1>0, <1>d, <1>f, <2>1, <3>2 DEF Worker, Sending
    <3> QED BY <2>1, <3>2, <3>3, JobMoves
  <2> QED BY <1>11, <2>2, <2>3 DEF StartUpload
<1>12. CASE Land(w)
  <2>1. PICK p \in k.pending :
          /\ k.at = "land" /\ UNCHANGED <<disk, kills>>
          /\ \/ /\ p \notin Assets
                /\ release' = [release EXCEPT ![p] = [stamp |-> disk[w][p], by |-> w]]
                /\ job' = [job EXCEPT ![w].pending = @ \ {p}]
             \/ Fail(w) /\ UNCHANGED release
    BY <1>12 DEF Land, At
  <2>2. CASE Fail(w) /\ UNCHANGED release
    BY <1>9, <2>1, <2>2 DEF Sending
  <2>3. CASE /\ p \notin Assets
             /\ release' = [release EXCEPT ![p] = [stamp |-> disk[w][p], by |-> w]]
             /\ job' = [job EXCEPT ![w].pending = @ \ {p}]
    <3>1. PICK j : j = [k EXCEPT !.pending = @ \ {p}]
      OBVIOUS
    <3>2. /\ j \in JobRecords /\ j.at = "land" /\ j.pending = k.pending \ {p}
          /\ job' = [job EXCEPT ![w] = j] /\ p \in Parts
      BY <1>0, <2>1, <2>3, <3>1 DEF JobRecords
    <3>3. Paired(w) /\ disk[w][p] \in Stamps
      BY <1>0, <2>1, <3>2 DEF Worker, Sending, Paired, Parts, MaybeStamps
    <3>4. /\ release'[p].stamp = disk[w][p] /\ DOMAIN release' = Parts
          /\ \A q \in Parts : q # p => release'[q] = release[q]
      BY <2>3, <3>2 DEF Uploads, ReleaseTypes
    <3>5. Kept
      BY <2>3, <3>2, <3>4, NoAssetIsNone DEF Kept, Assets
    <3>6. ArchiveTypes' /\ ReleaseTypes'
      BY <2>1, <3>2, <3>3, <3>4 DEF Uploads, ArchiveTypes, ReleaseTypes
    <3>7. \A q \in Parts \ (k.pending \ {p}) : release'[q].stamp = disk[w][q]
      BY <1>0, <2>1, <3>4 DEF Worker
    <3>8. Worker(w)'
      BY <1>d, <1>f, <2>1, <3>2, <3>3, <3>7 DEF Worker, Sending
    <3>9. ASSUME NEW v \in Workers, v # w PROVE Worker(v)'
      <4>1. job'[v] = job[v] /\ disk'[v] = disk[v]
        BY <2>1, <3>2, <3>9 DEF Uploads, ArchiveTypes
      <4> QED BY <2>1, <3>5, <4>1, OthersStay
    <3> QED BY <3>5, <3>6, <3>8, <3>9 DEF Uploads
  <2> QED BY <2>1, <2>2, <2>3
<1>13. CASE UploadFails(w)
  BY <1>9, <1>13 DEF UploadFails, Sending
<1>14. CASE CheckRelease(w)
  <2>1. k.at = "land" /\ k.pending = {} /\ UNCHANGED <<disk, kills, release>>
    BY <1>14 DEF CheckRelease, At
  <2>2. CASE Fail(w)
    BY <1>9, <2>1, <2>2 DEF Sending
  <2>3. CASE job' = [job EXCEPT ![w].at = "done"]
    <3>1. PICK j : j = [k EXCEPT !.at = "done"]
      OBVIOUS
    <3>2. j \in JobRecords /\ j.at = "done" /\ j.pending = {} /\ job' = [job EXCEPT ![w] = j]
      BY <1>0, <2>1, <2>3, <3>1 DEF JobRecords, Sending
    <3>3. Worker(w)'
      BY <1>0, <1>d, <1>f, <2>1, <3>2 DEF Worker, Sending
    <3> QED BY <2>1, <3>2, <3>3, JobMoves
  <2> QED BY <1>14, <2>2, <2>3 DEF CheckRelease
<1>15. CASE Kill(w)
  <2>1. kills' = kills + 1 /\ Fail(w) /\ UNCHANGED <<disk, release>>
    BY <1>15 DEF Kill
  <2> QED BY <1>0, <1>1, <2>1
<1>16. CASE RemovePartial(w)
  <2>1. /\ k.at \in Resting /\ Existing(w) \notin {{}, Parts} /\ UNCHANGED <<job, kills, release>>
        /\ disk' = [disk EXCEPT ![w] = [p \in Parts |-> NoArchive]]
    BY <1>16 DEF RemovePartial
  <2>2. k.at # "done"
    BY <1>0, <1>2, <2>1 DEF Worker, Sending
  <2>3. job' = [job EXCEPT ![w] = k] /\ disk'[w] = [p \in Parts |-> NoArchive]
    BY <2>1 DEF Uploads, ArchiveTypes
  <2>4. Existing(w)' = {}
    BY <2>3 DEF Existing
  <2>5. Worker(w)'
    BY <2>1, <2>2, <2>4 DEF Worker, Sending, Resting
  <2>6. [p \in Parts |-> NoArchive] \in [Parts -> MaybeStamps]
    BY DEF MaybeStamps
  <2> QED BY <1>0, <2>1, <2>3, <2>5, <2>6, FileMoves
<1> QED BY <1>3, <1>4, <1>5, <1>6, <1>7, <1>8, <1>10, <1>11, <1>12, <1>13, <1>14, <1>15, <1>16
        DEF ArchiveStep

-----------------------------------------------------------------------------
(* What the fetches rest on.                                               *)

RunRecords == [results : MaybeStamps, tops : [Tops -> MaybeStamps], recorded : MaybeStamps]
MaybeRuns == RunRecords \cup {NoRun}
Stages == {"idle", "done", "import", "staged", "swap", "merge", "move", "undo"}
FetchRecords == [at : Stages, with : BOOLEAN, force : BOOLEAN, failed : BOOLEAN,
                 got : [Parts -> MaybeStamps], aside : MaybeRuns, moved : SUBSET Tops]

(* A run that is somewhere came out of the release.                        *)
FromRelease(r) ==
  r # NoRun =>
    /\ r \in RunRecords
    /\ r.results # NoArchive /\ r.results = release["results"].stamp
    /\ r.recorded # NoArchive =>
         r.recorded = r.results /\ r.recorded = release["transcripts"].stamp

(* And so did what a process works on, which it merges only into the       *)
(* results it belongs to.                                                  *)
Fetching(f) ==
  /\ FromRelease(fetch[f].aside)
  /\ \A p \in Parts : fetch[f].got[p] # NoArchive => fetch[f].got[p] = release[p].stamp
  /\ fetch[f].at \in {"import", "staged", "swap"} => fetch[f].got["results"] # NoArchive
  /\ fetch[f].at \in {"merge", "move", "undo"} => fetch[f].got["transcripts"] # NoArchive
  /\ fetch[f].at \in {"move", "undo"} => fetch[f].got["transcripts"] = release["results"].stamp

Fetches ==
  /\ fetch \in [Fetchers -> FetchRecords]
  /\ FromRelease(target)
  /\ \A f \in Fetchers : Fetching(f)

LEMMA NoRunIsNone == NoRun \notin RunRecords
BY NoRunAssumption DEF RunRecords, MaybeStamps

LEMMA PartsAre == Parts = {"results", "transcripts"} /\ "results" \in Parts /\ "transcripts" \in Parts
BY DEF Parts

LEMMA FetchInit ==
  ASSUME Init PROVE Fetches
<1>1. NoFetch \in FetchRecords
  BY DEF NoFetch, FetchRecords, Stages, MaybeRuns, MaybeStamps
<1>2. /\ fetch = [f \in Fetchers |-> NoFetch] /\ target = NoRun
      /\ NoFetch.aside = NoRun /\ NoFetch.at = "idle"
      /\ \A p \in Parts : NoFetch.got[p] = NoArchive
  BY DEF Init, ImportInit, NoFetch
<1> QED BY <1>1, <1>2 DEF Fetches, Fetching, FromRelease

(* A step of an uploader leaves all of it true: nothing in a release is    *)
(* ever replaced.                                                          *)
LEMMA UploadsKeepFetches ==
  ASSUME Fetches, Kept, UNCHANGED importVars
  PROVE  Fetches'
<1>1. ASSUME NEW p \in Parts, release[p].stamp # NoArchive
      PROVE  release'[p].stamp = release[p].stamp
  BY <1>1 DEF Kept
<1>2. ASSUME NEW r, FromRelease(r) PROVE FromRelease(r)'
  BY <1>1, <1>2, PartsAre DEF FromRelease
<1>3. fetch' = fetch /\ target' = target
  BY DEF importVars
<1>4. ASSUME NEW f \in Fetchers PROVE Fetching(f)'
  <2>1. Fetching(f)
    BY DEF Fetches
  <2>2. PICK a : a = fetch[f].aside
    OBVIOUS
  <2>3. FromRelease(a)'
    BY <1>2, <2>1, <2>2 DEF Fetching
  <2>4. FromRelease(fetch[f].aside)'
    BY <1>3, <2>2, <2>3 DEF FromRelease
  <2> QED BY <1>1, <1>3, <2>1, <2>4, PartsAre DEF Fetching
<1>5. FromRelease(target)'
  <2>1. PICK a : a = target
    OBVIOUS
  <2>2. FromRelease(a)'
    BY <1>2, <2>1 DEF Fetches
  <2> QED BY <1>3, <2>1, <2>2 DEF FromRelease
<1> QED BY <1>3, <1>4, <1>5 DEF Fetches

(* A step of one fetcher.                                                  *)
LEMMA FetchMoves ==
  ASSUME Fetches, NEW f \in Fetchers, NEW j \in FetchRecords, fetch' = [fetch EXCEPT ![f] = j],
         release' = release, FromRelease(target'), FromRelease(j.aside),
         \A p \in Parts : j.got[p] # NoArchive => j.got[p] = release[p].stamp,
         j.at \in {"import", "staged", "swap"} => j.got["results"] # NoArchive,
         j.at \in {"merge", "move", "undo"} => j.got["transcripts"] # NoArchive,
         j.at \in {"move", "undo"} => j.got["transcripts"] = release["results"].stamp
  PROVE  Fetches'
<1>1. fetch'[f] = j /\ fetch' \in [Fetchers -> FetchRecords]
  BY DEF Fetches
<1>2. FromRelease(target)'
  BY DEF FromRelease
<1>3. ASSUME NEW g \in Fetchers PROVE Fetching(g)'
  <2>1. CASE g = f
    BY <1>1, <2>1 DEF Fetching, FromRelease
  <2>2. CASE g # f
    <3>1. fetch'[g] = fetch[g] /\ Fetching(g)
      BY <2>2 DEF Fetches
    <3> QED BY <3>1 DEF Fetching, FromRelease
  <2> QED BY <2>1, <2>2
<1> QED BY <1>1, <1>2, <1>3 DEF Fetches

LEMMA FetchStart ==
  ASSUME Fetches, ReleaseTypes, NEW f \in Fetchers, NEW j,
         j \in FetchRecords, j.at = "idle", j.aside = NoRun,
         \A p \in Parts : j.got[p] # NoArchive => j.got[p] = release[p].stamp,
         Begin(f, j)
  PROVE  Fetches'
<1>1. PICK i : i = [j EXCEPT !.at = IF j.got["results"] # NoArchive THEN "import" ELSE Later(j)]
  OBVIOUS
<1>2. fetch' = [fetch EXCEPT ![f] = i] /\ target' = target /\ release' = release
  BY <1>1 DEF Begin
<1>3. /\ i \in FetchRecords /\ i.got = j.got /\ i.aside = NoRun
      /\ i.at \in {"import", "merge", "done"}
      /\ i.at = "import" => j.got["results"] # NoArchive
      /\ i.at = "merge" => j.got["transcripts"] # NoArchive
  BY <1>1 DEF Later, FetchRecords, Stages
<1>4. FromRelease(target')
  BY <1>2 DEF Fetches
<1>5. FromRelease(i.aside)
  BY <1>3 DEF FromRelease
<1> QED BY <1>2, <1>3, <1>4, <1>5, FetchMoves

LEMMA StampsOfRelease ==
  ASSUME ReleaseTypes, NEW p \in Parts PROVE release[p].stamp \in MaybeStamps
BY NoAssetIsNone DEF ReleaseTypes, MaybeStamps

LEMMA OwnFetch ==
  ASSUME Fetches, NEW f \in Fetchers
  PROVE  /\ fetch[f] \in FetchRecords /\ Fetching(f) /\ FromRelease(target)
         /\ \A j : fetch' = [fetch EXCEPT ![f] = j] => fetch'[f] = j
BY DEF Fetches

LEMMA ImportSteps ==
  ASSUME Fetches, ReleaseTypes, NEW f \in Fetchers, ImportStep(f)
  PROVE  Fetches' /\ release' = release
<1> DEFINE k == fetch[f]
<1>0. k \in FetchRecords /\ Fetching(f) /\ FromRelease(target) /\ FromRelease(k.aside)
  BY OwnFetch DEF Fetching
<1>n. FromRelease(NoRun)
  BY DEF FromRelease
(* The process goes on, gives up or forgets its staging directory.         *)
<1>m. ASSUME NEW j \in FetchRecords, fetch' = [fetch EXCEPT ![f] = j], release' = release,
             j.got = k.got, FromRelease(target'), FromRelease(j.aside),
             \/ j.at = "done"
             \/ j.at = Later(k)
             \/ j.at \in {"staged", "swap"} /\ k.at \in {"import", "staged", "swap"}
             \/ j.at \in {"move", "undo"} /\ k.at \in {"move", "undo"}
             \/ /\ j.at = "move" /\ k.at = "merge"
                /\ k.got["transcripts"] = release["results"].stamp
      PROVE  Fetches'
  <2>1. j.at = Later(k) => j.at = "done" \/ (j.at = "merge" /\ k.got["transcripts"] # NoArchive)
    BY DEF Later
  <2>2. /\ \A p \in Parts : k.got[p] # NoArchive => k.got[p] = release[p].stamp
        /\ k.at \in {"import", "staged", "swap"} => k.got["results"] # NoArchive
        /\ k.at \in {"merge", "move", "undo"} => k.got["transcripts"] # NoArchive
        /\ k.at \in {"move", "undo"} => k.got["transcripts"] = release["results"].stamp
    BY <1>0 DEF Fetching
  <2>3. /\ \A p \in Parts : j.got[p] # NoArchive => j.got[p] = release[p].stamp
        /\ j.at \in {"import", "staged", "swap"} => j.got["results"] # NoArchive
        /\ j.at \in {"merge", "move", "undo"} => j.got["transcripts"] # NoArchive
        /\ j.at \in {"move", "undo"} => j.got["transcripts"] = release["results"].stamp
    BY <1>m, <2>1, <2>2
  <2> QED BY <1>m, <2>3, FetchMoves
<1>r. ASSUME RejectResults(f), release' = release, FromRelease(target') PROVE Fetches'
  <2>1. PICK j : j = [k EXCEPT !.at = Later(k), !.failed = TRUE, !.aside = NoRun]
    OBVIOUS
  <2>2. fetch' = [fetch EXCEPT ![f] = j]
    BY <1>r, <2>1 DEF RejectResults
  <2>3. j \in FetchRecords /\ j.got = k.got /\ j.aside = NoRun /\ j.at = Later(k)
    BY <1>0, <2>1 DEF FetchRecords, Stages, MaybeRuns, Later
  <2> QED BY <1>m, <1>n, <1>r, <2>2, <2>3
<1>s. ASSUME RejectMerge(f), release' = release, FromRelease(target') PROVE Fetches'
  <2>1. PICK j : j = [k EXCEPT !.at = "done", !.failed = TRUE, !.moved = {}]
    OBVIOUS
  <2>2. fetch' = [fetch EXCEPT ![f] = j]
    BY <1>s, <2>1 DEF RejectMerge
  <2>3. j \in FetchRecords /\ j.got = k.got /\ j.aside = k.aside /\ j.at = "done"
    BY <1>0, <2>1 DEF FetchRecords, Stages
  <2> QED BY <1>0, <1>m, <1>s, <2>2, <2>3
<1>a. ASSUME NEW a \in Stages, fetch' = [fetch EXCEPT ![f].at = a], release' = release,
             target' = target,
             \/ a = "done"
             \/ a \in {"staged", "swap"} /\ k.at \in {"import", "staged", "swap"}
             \/ a \in {"move", "undo"} /\ k.at \in {"move", "undo"}
             \/ /\ a = "move" /\ k.at = "merge"
                /\ k.got["transcripts"] = release["results"].stamp
      PROVE  Fetches'
  <2>1. PICK j : j = [k EXCEPT !.at = a]
    OBVIOUS
  <2>2. fetch' = [fetch EXCEPT ![f] = j]
    BY <1>a, <2>1
  <2>3. j \in FetchRecords /\ j.got = k.got /\ j.aside = k.aside /\ j.at = a
    BY <1>0, <2>1 DEF FetchRecords
  <2>4. FromRelease(target')
    BY <1>0, <1>a
  <2> QED BY <1>0, <1>a, <1>m, <2>2, <2>3, <2>4
<1>1. ASSUME NEW with \in BOOLEAN, Fetch(f, with) PROVE Fetches' /\ release' = release
  <2>1. PICK got : got =
          [p \in Parts |->
             IF \/ p = "results" /\ target = NoRun
                \/ /\ p = "transcripts" /\ with
                   /\ target = NoRun \/ target.recorded = NoArchive
             THEN release[p].stamp ELSE NoArchive]
    OBVIOUS
  <2>2. PICK j : j = [NoFetch EXCEPT !.with = with, !.got = got]
    OBVIOUS
  <2>3. Begin(f, j)
    BY <1>1, <2>1, <2>2 DEF Fetch
  <2>4. /\ got \in [Parts -> MaybeStamps]
        /\ \A p \in Parts : got[p] # NoArchive => got[p] = release[p].stamp
    BY <2>1, StampsOfRelease DEF MaybeStamps
  <2>5. j \in FetchRecords
    BY <2>2, <2>4 DEF NoFetch, FetchRecords, Stages, MaybeRuns
  <2>6. j.at = "idle" /\ j.aside = NoRun /\ j.got = got
    BY <2>2 DEF NoFetch
  <2>7. \A p \in Parts : j.got[p] # NoArchive => j.got[p] = release[p].stamp
    BY <2>4, <2>6
  <2> QED BY <2>3, <2>5, <2>6, <2>7, FetchStart DEF Begin
<1>2. ASSUME NEW ps \in SUBSET Parts, NEW force \in BOOLEAN, Import(f, ps, force)
      PROVE  Fetches' /\ release' = release
  <2>1. PICK got : got = [p \in Parts |-> IF p \in ps THEN release[p].stamp ELSE NoArchive]
    OBVIOUS
  <2>2. PICK j : j = [NoFetch EXCEPT !.force = force, !.got = got]
    OBVIOUS
  <2>3. Begin(f, j)
    BY <1>2, <2>1, <2>2 DEF Import
  <2>4. /\ got \in [Parts -> MaybeStamps]
        /\ \A p \in Parts : got[p] # NoArchive => got[p] = release[p].stamp
    BY <2>1, StampsOfRelease DEF MaybeStamps
  <2>5. j \in FetchRecords
    BY <2>2, <2>4 DEF NoFetch, FetchRecords, Stages, MaybeRuns
  <2>6. j.at = "idle" /\ j.aside = NoRun /\ j.got = got
    BY <2>2 DEF NoFetch
  <2>7. \A p \in Parts : j.got[p] # NoArchive => j.got[p] = release[p].stamp
    BY <2>4, <2>6
  <2> QED BY <2>3, <2>5, <2>6, <2>7, FetchStart DEF Begin
<1>3. CASE CheckTarget(f)
  <2>1. UNCHANGED <<target, release>> /\ k.at = "import"
    BY <1>3 DEF CheckTarget, In
  <2>2. FromRelease(target')
    BY <1>0, <2>1
  <2>3. RejectResults(f) \/ fetch' = [fetch EXCEPT ![f].at = "staged"]
    BY <1>3 DEF CheckTarget
  <2> QED BY <1>a, <1>r, <2>1, <2>2, <2>3 DEF Stages
<1>4. CASE SetAside(f)
  <2>1. target' = NoRun /\ release' = release /\ k.at = "staged"
    BY <1>4 DEF SetAside, In
  <2>2. PICK j : j = [k EXCEPT !.at = "swap", !.aside = target]
    OBVIOUS
  <2>3. fetch' = [fetch EXCEPT ![f] = j]
    BY <1>4, <2>2 DEF SetAside
  <2>4. target \in MaybeRuns
    BY <1>0 DEF FromRelease, MaybeRuns
  <2>5. j \in FetchRecords /\ j.got = k.got /\ j.aside = target /\ j.at = "swap"
    BY <1>0, <2>2, <2>4 DEF FetchRecords, Stages
  <2> QED BY <1>0, <1>m, <1>n, <2>1, <2>3, <2>5
<1>5. CASE SwapIn(f)
  <2>1. release' = release /\ k.at = "swap"
    BY <1>5 DEF SwapIn, In
  <2>2. CASE RejectResults(f) /\ target' = target
    BY <1>0, <1>r, <2>1, <2>2
  <2>3. CASE /\ target' = Run(k.got["results"])
             /\ fetch' = [fetch EXCEPT ![f].at = Later(k), ![f].aside = NoRun]
    <3>1. PICK j : j = [k EXCEPT !.at = Later(k), !.aside = NoRun]
      OBVIOUS
    <3>2. fetch' = [fetch EXCEPT ![f] = j]
      BY <2>3, <3>1
    <3>3. j \in FetchRecords /\ j.got = k.got /\ j.aside = NoRun /\ j.at = Later(k)
      BY <1>0, <3>1 DEF FetchRecords, Stages, MaybeRuns, Later
    <3>4. /\ k.got["results"] # NoArchive /\ k.got["results"] = release["results"].stamp
          /\ k.got["results"] \in MaybeStamps
      BY <1>0, <2>1, PartsAre DEF Fetching, FetchRecords
    <3>5. /\ Run(k.got["results"]) \in RunRecords
          /\ Run(k.got["results"]).results = k.got["results"]
          /\ Run(k.got["results"]).recorded = NoArchive
      BY <3>4 DEF Run, RunRecords, Bare, MaybeStamps
    <3>6. FromRelease(target')
      BY <2>3, <3>4, <3>5 DEF FromRelease
    <3> QED BY <1>m, <1>n, <2>1, <3>2, <3>3, <3>6
  <2> QED BY <1>5, <2>1, <2>2, <2>3 DEF SwapIn
<1>6. CASE SwapFails(f)
  <2>1. release' = release /\ target' = k.aside /\ RejectResults(f)
    BY <1>6 DEF SwapFails
  <2> QED BY <1>0, <1>r, <2>1
<1>7. CASE CheckMerge(f)
  <2>1. release' = release /\ target' = target /\ k.at = "merge"
    BY <1>7 DEF CheckMerge, In
  <2>2. \/ RejectMerge(f)
        \/ fetch' = [fetch EXCEPT ![f].at = "done"]
        \/ target # NoRun /\ SameRun(f) /\ fetch' = [fetch EXCEPT ![f].at = "move"]
    BY <1>7 DEF CheckMerge
  <2>3. target # NoRun /\ SameRun(f) => k.got["transcripts"] = release["results"].stamp
    BY <1>0 DEF FromRelease, SameRun
  <2>4. FromRelease(target')
    BY <1>0, <2>1
  <2> QED BY <1>a, <1>s, <2>1, <2>2, <2>3, <2>4 DEF Stages
<1>8. CASE MoveTop(f)
  <2>1. PICK t \in Tops :
          /\ k.at = "move" /\ release' = release
          /\ \/ /\ target # NoRun
                /\ target' = [target EXCEPT !.tops[t] = k.got["transcripts"]]
                /\ fetch' = [fetch EXCEPT ![f].moved = @ \cup {t}]
             \/ fetch' = [fetch EXCEPT ![f].at = "undo"] /\ target' = target
    BY <1>8 DEF MoveTop, In
  <2>2. CASE fetch' = [fetch EXCEPT ![f].at = "undo"] /\ target' = target
    BY <1>a, <2>1, <2>2 DEF Stages
  <2>3. CASE /\ target # NoRun
             /\ target' = [target EXCEPT !.tops[t] = k.got["transcripts"]]
             /\ fetch' = [fetch EXCEPT ![f].moved = @ \cup {t}]
    <3>1. PICK j : j = [k EXCEPT !.moved = @ \cup {t}]
      OBVIOUS
    <3>2. fetch' = [fetch EXCEPT ![f] = j]
      BY <2>3, <3>1
    <3>3. j \in FetchRecords /\ j.got = k.got /\ j.aside = k.aside /\ j.at = k.at
      BY <1>0, <3>1 DEF FetchRecords
    <3>4. k.got["transcripts"] \in MaybeStamps
      BY <1>0, PartsAre DEF FetchRecords
    <3>5. target \in RunRecords
      BY <1>0, <2>3 DEF FromRelease
    <3>6. target' \in RunRecords /\ target'.results = target.results /\ target'.recorded = target.recorded
      BY <2>3, <3>4, <3>5 DEF RunRecords
    <3>7. FromRelease(target')
      BY <1>0, <2>3, <3>6 DEF FromRelease
    <3> QED BY <1>0, <1>m, <2>1, <3>2, <3>3, <3>7
  <2> QED BY <2>1, <2>2, <2>3
<1>9. CASE Record(f)
  <2>1. k.at = "move" /\ release' = release
    BY <1>9 DEF Record, In
  <2>2. CASE fetch' = [fetch EXCEPT ![f].at = "undo"] /\ target' = target
    BY <1>a, <2>1, <2>2 DEF Stages
  <2>3. CASE /\ target # NoRun
             /\ target' = [target EXCEPT !.recorded = k.got["transcripts"]]
             /\ fetch' = [fetch EXCEPT ![f].at = "done", ![f].moved = {}]
    <3>1. PICK j : j = [k EXCEPT !.at = "done", !.moved = {}]
      OBVIOUS
    <3>2. fetch' = [fetch EXCEPT ![f] = j]
      BY <2>3, <3>1
    <3>3. j \in FetchRecords /\ j.got = k.got /\ j.aside = k.aside /\ j.at = "done"
      BY <1>0, <3>1 DEF FetchRecords, Stages
    <3>4. /\ k.got["transcripts"] \in MaybeStamps /\ k.got["transcripts"] = release["results"].stamp
          /\ k.got["transcripts"] # NoArchive /\ k.got["transcripts"] = release["transcripts"].stamp
      BY <1>0, <2>1, PartsAre DEF FetchRecords, Fetching
    <3>5. target \in RunRecords /\ target.results = release["results"].stamp /\ target.results # NoArchive
      BY <1>0, <2>3 DEF FromRelease
    <3>6. /\ target' \in RunRecords /\ target'.results = target.results
          /\ target'.recorded = k.got["transcripts"]
      BY <2>3, <3>4, <3>5 DEF RunRecords
    <3>7. FromRelease(target')
      BY <3>4, <3>5, <3>6 DEF FromRelease
    <3> QED BY <1>0, <1>m, <2>1, <3>2, <3>3, <3>7
  <2> QED BY <1>9, <2>1, <2>2, <2>3 DEF Record
<1>10. CASE MoveFails(f)
  <2>1. k.at = "move" /\ UNCHANGED <<target, release>> /\ fetch' = [fetch EXCEPT ![f].at = "undo"]
    BY <1>10 DEF MoveFails, In
  <2> QED BY <1>a, <2>1 DEF Stages
<1>11. CASE Undo(f)
  <2>1. k.at = "undo" /\ release' = release
    BY <1>11 DEF Undo, In
  <2>2. CASE RejectMerge(f) /\ target' = target
    BY <1>0, <1>s, <2>1, <2>2
  <2>3. CASE \E t \in k.moved :
               /\ target # NoRun
               /\ target' = [target EXCEPT !.tops[t] = NoArchive]
               /\ fetch' = [fetch EXCEPT ![f].moved = @ \ {t}]
    <3>0. PICK t \in k.moved :
            /\ target # NoRun
            /\ target' = [target EXCEPT !.tops[t] = NoArchive]
            /\ fetch' = [fetch EXCEPT ![f].moved = @ \ {t}]
      BY <2>3
    <3>1. PICK j : j = [k EXCEPT !.moved = @ \ {t}]
      OBVIOUS
    <3>2. fetch' = [fetch EXCEPT ![f] = j]
      BY <3>0, <3>1
    <3>3. j \in FetchRecords /\ j.got = k.got /\ j.aside = k.aside /\ j.at = k.at
      BY <1>0, <3>1 DEF FetchRecords
    <3>5. target \in RunRecords
      BY <1>0, <3>0 DEF FromRelease
    <3>6. target' \in RunRecords /\ target'.results = target.results /\ target'.recorded = target.recorded
      BY <3>0, <3>5 DEF RunRecords, MaybeStamps
    <3>7. FromRelease(target')
      BY <1>0, <3>0, <3>6 DEF FromRelease
    <3> QED BY <1>0, <1>m, <2>1, <3>2, <3>3, <3>7
  <2> QED BY <1>11, <2>1, <2>2, <2>3 DEF Undo
<1>12. CASE Die(f)
  <2>1. fetch' = [fetch EXCEPT ![f] = NoFetch] /\ release' = release /\ target' = target
    BY <1>12 DEF Die
  <2>2. /\ NoFetch \in FetchRecords /\ NoFetch.aside = NoRun /\ NoFetch.at = "idle"
        /\ \A p \in Parts : NoFetch.got[p] = NoArchive
    BY DEF NoFetch, FetchRecords, Stages, MaybeRuns, MaybeStamps
  <2>3. FromRelease(target')
    BY <1>0, <2>1
  <2> QED BY <1>n, <2>1, <2>2, <2>3, FetchMoves
<1>13. release' = release
  BY <1>1, <1>2 DEF ImportStep, CheckTarget, SetAside, SwapIn, SwapFails, CheckMerge, MoveTop,
                    Record, MoveFails, Undo, Die
<1> QED BY <1>1, <1>2, <1>3, <1>4, <1>5, <1>6, <1>7, <1>8, <1>9, <1>10, <1>11, <1>12, <1>13
        DEF ImportStep
-----------------------------------------------------------------------------
(* The whole system.                                                       *)

LEMMA UploadsInit ==
  ASSUME Init PROVE Uploads
<1>1. Idle \in JobRecords /\ Idle.at = "idle"
  BY DEF Idle, JobRecords, MaybeStamps
<1>2. ArchiveTypes
  BY <1>1 DEF Init, ArchiveInit, ArchiveTypes, MaybeStamps
<1>3. ReleaseTypes
  BY DEF Init, ReleaseTypes
<1>4. ASSUME NEW w \in Workers PROVE Worker(w)
  <2>1. job[w].at = "idle" /\ Existing(w) = {}
    BY <1>1 DEF Init, ArchiveInit, Existing
  <2> QED BY <2>1 DEF Worker, Sending
<1> QED BY <1>2, <1>3, <1>4 DEF Uploads

LEMMA Stuttering ==
  ASSUME Uploads, UNCHANGED archiveVars, release' = release
  PROVE  Uploads' /\ Kept
BY DEF Uploads, ArchiveTypes, ReleaseTypes, Worker, Existing, Paired, archiveVars, Kept

LEMMA TransferStep ==
  ASSUME Uploads, Fetches, [Next]_vars
  PROVE  Uploads' /\ Fetches'
<1>1. CASE ArchiveNext /\ UNCHANGED importVars
  <2>1. PICK w \in Workers : ArchiveStep(w)
    BY <1>1 DEF ArchiveNext
  <2>2. Uploads' /\ Kept
    BY <2>1, UploadStep
  <2> QED BY <1>1, <2>2, UploadsKeepFetches
<1>2. CASE ImportNext /\ UNCHANGED archiveVars
  <2>1. PICK f \in Fetchers : ImportStep(f)
    BY <1>2 DEF ImportNext
  <2>2. Fetches' /\ release' = release
    BY <2>1, ImportSteps DEF Uploads
  <2> QED BY <1>2, <2>2, Stuttering
<1>3. CASE UNCHANGED vars
  <2>1. UNCHANGED archiveVars /\ UNCHANGED importVars /\ release' = release
    BY <1>3 DEF vars
  <2> QED BY <2>1, Stuttering, UploadsKeepFetches
<1> QED BY <1>1, <1>2, <1>3 DEF Next

(* A worker that reports success leaves a release that holds its own pair, *)
(* whatever the others did meanwhile, and only kill -9 leaves a partial    *)
(* set in an archive directory (write_archives and upload_archives).       *)
THEOREM UploadsArePairs == Spec => []SuccessIsOnePair
<1>1. ASSUME Uploads PROVE SuccessIsOnePair
  <2>1. ASSUME NEW w \in Workers, job[w].at = "done"
        PROVE  \E s \in Stamps : \A p \in Parts : release[p].stamp = s /\ disk[w][p] = s
    <3>1. Paired(w) /\ \A p \in Parts : release[p].stamp = disk[w][p]
      BY <1>1, <2>1 DEF Uploads, Worker, Sending
    <3>2. disk[w]["results"] \in Stamps
      BY <1>1, <3>1, PartsAre DEF Uploads, ArchiveTypes, Paired, MaybeStamps
    <3>3. \A p \in Parts : release[p].stamp = disk[w]["results"] /\ disk[w][p] = disk[w]["results"]
      BY <3>1 DEF Paired, Parts
    <3> QED BY <3>2, <3>3
  <2>2. ASSUME NEW w \in Workers, kills = 0, job[w].at \in Resting
        PROVE  Existing(w) \in {{}, Parts}
    <3>1. Worker(w)
      BY <1>1 DEF Uploads
    <3>2. job[w].at = "done" => Existing(w) = Parts
      BY <3>1 DEF Worker, Sending, Paired, Existing, Parts
    <3> QED BY <2>2, <3>1, <3>2 DEF Worker, Resting
  <2> QED BY <2>1, <2>2 DEF SuccessIsOnePair, At
<1> QED BY <1>1, UploadsInit, FetchInit, TransferStep, PTL DEF Spec

(* What is in runs/ came out of the release, and with its transcripts only *)
(* out of one that holds a pair, for any number of processes on both ends, *)
(* kills included (check_same_run in merge_transcripts, and a release that *)
(* replaces no asset).                                                     *)
THEOREM MergesArePairs == Spec => []MergedIsReleasedPair
<1>1. ASSUME Fetches PROVE MergedIsReleasedPair
  BY <1>1, PartsAre DEF Fetches, FromRelease, MergedIsReleasedPair
<1> QED BY <1>1, UploadsInit, FetchInit, TransferStep, PTL DEF Spec

-----------------------------------------------------------------------------
(* One process at a time.  Two that import the same run into one runs/     *)
(* can break all of what follows; the race is a finding of its own.        *)

Whole(r) ==
  r # NoRun =>
    /\ \A t \in Tops : r.tops[t] \in {NoArchive, r.results}
    /\ r.recorded # NoArchive => \A t \in Tops : r.tops[t] = r.results

Clear(r) == r # NoRun => (r.tops = Bare <=> r.recorded = NoArchive)

Merging(f) == fetch[f].at \in {"move", "undo"}

Alone(f) ==
  /\ deaths \in Nat /\ forces \in Nat
  /\ Whole(target) /\ Whole(fetch[f].aside)
  /\ deaths = 0 => Clear(fetch[f].aside) /\ (~Merging(f) => Clear(target))
  /\ Merging(f) =>
       /\ target # NoRun /\ target.recorded = NoArchive
       /\ target.results = fetch[f].got["transcripts"]
       /\ \A t \in Tops : target.tops[t] = IF t \in fetch[f].moved
                                           THEN fetch[f].got["transcripts"] ELSE NoArchive
  /\ ~Merging(f) => fetch[f].moved = {}
  /\ fetch[f].force => forces > 0
  /\ fetch[f].at = "staged" /\ ~fetch[f].force => target = NoRun
  /\ fetch[f].at = "swap" => target = NoRun
  /\ fetch[f].with /\ fetch[f].at \notin {"idle", "done"} =>
       fetch[f].got["transcripts"] # NoArchive
  /\ ~fetch[f].failed /\ fetch[f].at \in {"merge", "move", "done"}
       /\ fetch[f].got["results"] # NoArchive => target # NoRun
  /\ ~fetch[f].failed /\ fetch[f].at = "done" /\ fetch[f].with =>
       target # NoRun /\ target.recorded # NoArchive

(* What a step of the one fetcher never does to a run that is there.       *)
KeptRun ==
  forces = 0 /\ target # NoRun => target' # NoRun /\ target'.results = target.results

LEMMA AloneStep ==
  ASSUME NEW f, Fetchers = {f}, Fetches, Fetches', ReleaseTypes, Alone(f), ImportStep(f)
  PROVE  Alone(f)' /\ KeptRun
<1> DEFINE k == fetch[f]
<1>0. /\ k \in FetchRecords /\ Fetching(f) /\ FromRelease(target) /\ FromRelease(k.aside)
      /\ deaths \in Nat /\ forces \in Nat /\ f \in Fetchers
  BY OwnFetch DEF Fetching, Alone
<1>j. ASSUME NEW j, fetch' = [fetch EXCEPT ![f] = j] PROVE fetch'[f] = j
  BY <1>j DEF Fetches
<1>t. target # NoRun => target \in RunRecords
  BY <1>0 DEF FromRelease
<1>k. k = [k EXCEPT !.at = k.at]
  BY <1>0 DEF FetchRecords
(* The rejections.                                                         *)
<1>r. ASSUME RejectResults(f), UNCHANGED <<forces, deaths>>, k.at \in {"import", "swap"},
             target' = target \/ (k.at = "swap" /\ target' = k.aside)
      PROVE  Alone(f)' /\ KeptRun
  <2>1. PICK j : j = [k EXCEPT !.at = Later(k), !.failed = TRUE, !.aside = NoRun]
    OBVIOUS
  <2>2. fetch'[f] = j
    <3>1. fetch' = [fetch EXCEPT ![f] = j]
      BY <1>r, <2>1 DEF RejectResults
    <3> QED BY <1>j, <3>1
  <2>3. /\ j.got = k.got /\ j.aside = NoRun /\ j.failed /\ j.with = k.with /\ j.force = k.force
        /\ j.moved = k.moved /\ j.at \in {"merge", "done"}
    BY <1>0, <2>1 DEF FetchRecords, Later
  <2>4. Whole(target') /\ (deaths = 0 => Clear(target'))
    BY <1>r DEF Alone, Merging
  <2>5. KeptRun
    BY <1>r DEF KeptRun, Alone
  <2>6. Whole(NoRun) /\ Clear(NoRun)
    BY DEF Whole, Clear
  <2>7. Whole(target)' /\ (deaths = 0 => Clear(target)')
    BY <2>4 DEF Whole, Clear
  <2>8. Whole(fetch[f].aside)' /\ Clear(fetch[f].aside)'
    BY <2>2, <2>3, <2>6 DEF Whole, Clear
  <2>9. Alone(f)'
    BY <1>r, <2>2, <2>3, <2>7, <2>8 DEF Alone, Merging
  <2> QED BY <2>5, <2>9
<1>a. ASSUME Whole(k.aside), UNCHANGED <<target>>
      PROVE  Whole(target)' = Whole(target) /\ Clear(target)' = Clear(target)
  BY <1>a DEF Whole, Clear
<1>1. ASSUME NEW j, j \in FetchRecords, j.aside = NoRun, ~j.failed, j.moved = {},
             Begin(f, j), forces' \in Nat, forces' >= forces, j.force => forces' > 0,
             j.with => \/ j.got["transcripts"] # NoArchive
                       \/ /\ target # NoRun /\ target.recorded # NoArchive
                          /\ j.got["results"] = NoArchive
      PROVE  Alone(f)' /\ KeptRun
  <2>1. PICK i : i = [j EXCEPT !.at = IF j.got["results"] # NoArchive THEN "import" ELSE Later(j)]
    OBVIOUS
  <2>2. fetch'[f] = i /\ target' = target /\ deaths' = deaths /\ k.at \in Over
    BY <1>1, <1>j, <2>1 DEF Begin
  <2>3. /\ i.got = j.got /\ i.aside = NoRun /\ ~i.failed /\ i.with = j.with /\ i.force = j.force
        /\ i.moved = {} /\ i.at \in {"import", "merge", "done"}
        /\ i.at # "import" <=> j.got["results"] = NoArchive
        /\ i.at = "done" => j.got["transcripts"] = NoArchive
        /\ i.at = "merge" => j.got["transcripts"] # NoArchive
    BY <1>1, <2>1 DEF FetchRecords, Later
  <2>4. Whole(target)' /\ (deaths = 0 => Clear(target)')
    BY <2>2 DEF Alone, Merging, Over, Whole, Clear
  <2>5. Whole(fetch[f].aside)' /\ Clear(fetch[f].aside)'
    BY <2>2, <2>3 DEF Whole, Clear
  <2>6. deaths' \in Nat /\ forces' \in Nat /\ (i.force => forces' > 0)
    BY <1>0, <1>1, <2>2, <2>3
  <2>7. i.with => \/ i.got["transcripts"] # NoArchive
                  \/ i.at = "done" /\ target # NoRun /\ target.recorded # NoArchive
    BY <1>1, <2>3
  <2>8. i.at = "done" /\ i.with => target # NoRun /\ target.recorded # NoArchive
    BY <2>3, <2>7
  <2>9. i.with /\ i.at \notin {"idle", "done"} => i.got["transcripts"] # NoArchive
    BY <2>7
  <2>10. i.at \in {"merge", "move", "done"} => i.got["results"] = NoArchive
    BY <2>3
  <2>11. ~Merging(f)' /\ fetch'[f].at \in {"import", "merge", "done"}
    BY <2>2, <2>3 DEF Merging
  <2>12. Alone(f)'
    BY <2>2, <2>3, <2>4, <2>5, <2>6, <2>8, <2>9, <2>10, <2>11 DEF Alone
  <2> QED BY <2>2, <2>12 DEF KeptRun
<1>2. ASSUME NEW with \in BOOLEAN, Fetch(f, with) PROVE Alone(f)' /\ KeptRun
  <2>1. PICK got : got =
          [p \in Parts |->
             IF \/ p = "results" /\ target = NoRun
                \/ /\ p = "transcripts" /\ with
                   /\ target = NoRun \/ target.recorded = NoArchive
             THEN release[p].stamp ELSE NoArchive]
    OBVIOUS
  <2>2. PICK j : j = [NoFetch EXCEPT !.with = with, !.got = got]
    OBVIOUS
  <2>3. Begin(f, j) /\ forces' = forces
    BY <1>2, <2>1, <2>2 DEF Fetch
  <2>4. /\ got \in [Parts -> MaybeStamps]
        /\ \A p \in Parts : got[p] # NoArchive => got[p] = release[p].stamp
    BY <2>1, StampsOfRelease DEF MaybeStamps
  <2>5. j \in FetchRecords
    BY <2>2, <2>4 DEF NoFetch, FetchRecords, Stages, MaybeRuns
  <2>6. /\ j.aside = NoRun /\ ~j.failed /\ ~j.force /\ j.moved = {} /\ j.got = got /\ j.with = with
    BY <2>2 DEF NoFetch
  <2>7. with => release["transcripts"].stamp # NoArchive
    BY <1>2, AssetsHaveStamps, NoAssetIsNone, PartsAre DEF Fetch
  <2>8. with => \/ got["transcripts"] # NoArchive
                \/ target # NoRun /\ target.recorded # NoArchive /\ got["results"] = NoArchive
    BY <2>1, <2>7, PartsAre
  <2> QED BY <1>0, <1>1, <2>3, <2>5, <2>6, <2>8
<1>3. ASSUME NEW ps \in SUBSET Parts, NEW force \in BOOLEAN, Import(f, ps, force)
      PROVE  Alone(f)' /\ KeptRun
  <2>1. PICK got : got = [p \in Parts |-> IF p \in ps THEN release[p].stamp ELSE NoArchive]
    OBVIOUS
  <2>2. PICK j : j = [NoFetch EXCEPT !.force = force, !.got = got]
    OBVIOUS
  <2>3. Begin(f, j)
    BY <1>3, <2>1, <2>2 DEF Import
  <2>4. /\ got \in [Parts -> MaybeStamps]
        /\ \A p \in Parts : got[p] # NoArchive => got[p] = release[p].stamp
    BY <2>1, StampsOfRelease DEF MaybeStamps
  <2>5. j \in FetchRecords
    BY <2>2, <2>4 DEF NoFetch, FetchRecords, Stages, MaybeRuns
  <2>6. /\ j.aside = NoRun /\ ~j.failed /\ j.force = force /\ j.moved = {} /\ ~j.with
    BY <2>2 DEF NoFetch
  <2>7. forces' \in Nat /\ forces' >= forces /\ (force => forces' > 0)
    BY <1>0, <1>3 DEF Import
  <2> QED BY <1>1, <2>3, <2>5, <2>6, <2>7
<1>4. CASE CheckTarget(f)
  <2>1. UNCHANGED <<target, forces, deaths>> /\ k.at = "import"
    BY <1>4 DEF CheckTarget, In
  <2>2. CASE RejectResults(f)
    BY <1>r, <2>1, <2>2
  <2>3. CASE ~(target # NoRun /\ ~k.force) /\ fetch' = [fetch EXCEPT ![f].at = "staged"]
    <3>1. PICK j : j = [k EXCEPT !.at = "staged"]
      OBVIOUS
    <3>e. fetch' = [fetch EXCEPT ![f] = j]
      BY <2>3, <3>1
    <3>2. fetch'[f] = j
      BY <1>j, <3>e
    <3>3. /\ j.got = k.got /\ j.aside = k.aside /\ j.failed = k.failed /\ j.with = k.with
          /\ j.force = k.force /\ j.moved = k.moved /\ j.at = "staged"
      BY <1>0, <3>1 DEF FetchRecords
    <3>4. Alone(f)'
      BY <2>1, <2>3, <3>2, <3>3 DEF Alone, Merging, Whole, Clear
    <3> QED BY <2>1, <3>4 DEF KeptRun
  <2> QED BY <1>4, <2>2, <2>3 DEF CheckTarget
<1>5. CASE SetAside(f)
  <2>1. target' = NoRun /\ UNCHANGED <<forces, deaths>> /\ k.at = "staged"
    BY <1>5 DEF SetAside, In
  <2>2. PICK j : j = [k EXCEPT !.at = "swap", !.aside = target]
    OBVIOUS
  <2>e. fetch' = [fetch EXCEPT ![f] = j]
    BY <1>5, <2>2 DEF SetAside
  <2>3. fetch'[f] = j
    BY <1>j, <2>e
  <2>4. /\ j.got = k.got /\ j.aside = target /\ j.failed = k.failed /\ j.with = k.with
        /\ j.force = k.force /\ j.moved = k.moved /\ j.at = "swap"
    BY <1>0, <2>2 DEF FetchRecords
  <2>5. Alone(f)'
    BY <2>1, <2>3, <2>4 DEF Alone, Merging, Whole, Clear
  <2>6. KeptRun
    BY <1>0, <2>1 DEF KeptRun, Alone, FetchRecords
  <2> QED BY <2>5, <2>6
<1>6. CASE SwapIn(f)
  <2>1. UNCHANGED <<forces, deaths>> /\ k.at = "swap" /\ target = NoRun
    BY <1>6 DEF SwapIn, In, Alone
  <2>2. /\ target' = Run(k.got["results"])
        /\ fetch' = [fetch EXCEPT ![f].at = Later(k), ![f].aside = NoRun]
    BY <1>6, <2>1 DEF SwapIn
  <2>3. PICK j : j = [k EXCEPT !.at = Later(k), !.aside = NoRun]
    OBVIOUS
  <2>e. fetch' = [fetch EXCEPT ![f] = j]
    BY <2>2, <2>3
  <2>4. fetch'[f] = j
    BY <1>j, <2>e
  <2>5. /\ j.got = k.got /\ j.aside = NoRun /\ j.failed = k.failed /\ j.with = k.with
        /\ j.force = k.force /\ j.moved = k.moved /\ j.at \in {"merge", "done"}
        /\ j.at = "done" => k.got["transcripts"] = NoArchive
    BY <1>0, <2>3 DEF FetchRecords, Later
  <2>6. target'.tops = Bare /\ target'.recorded = NoArchive
    BY <2>2 DEF Run
  <2>7. Whole(target)' /\ Clear(target)'
    BY <2>6 DEF Whole, Clear, Bare
  <2>8. Whole(fetch[f].aside)' /\ Clear(fetch[f].aside)'
    BY <2>4, <2>5 DEF Whole, Clear
  <2>9. target' # NoRun
    <3>1. k.got["results"] \in MaybeStamps
      BY <1>0, PartsAre DEF FetchRecords
    <3>2. Run(k.got["results"]) \in RunRecords
      BY <3>1 DEF Run, RunRecords, Bare, MaybeStamps
    <3> QED BY <2>2, <3>2, NoRunIsNone
  <2>10. Alone(f)'
    BY <2>1, <2>4, <2>5, <2>7, <2>8, <2>9 DEF Alone, Merging
  <2> QED BY <2>1, <2>10 DEF KeptRun
<1>7. CASE SwapFails(f)
  <2>1. UNCHANGED <<forces, deaths>> /\ k.at = "swap" /\ target' = k.aside /\ RejectResults(f)
    BY <1>7 DEF SwapFails, In
  <2> QED BY <1>r, <2>1
<1>s. ASSUME RejectMerge(f), UNCHANGED <<forces, deaths>>, k.at \in {"merge", "undo"},
             target' = target, k.at = "undo" => Clear(target)
      PROVE  Alone(f)' /\ KeptRun
  <2>1. PICK j : j = [k EXCEPT !.at = "done", !.failed = TRUE, !.moved = {}]
    OBVIOUS
  <2>2. fetch'[f] = j
    <3>1. fetch' = [fetch EXCEPT ![f] = j]
      BY <1>s, <2>1 DEF RejectMerge
    <3> QED BY <1>j, <3>1
  <2>3. /\ j.got = k.got /\ j.aside = k.aside /\ j.failed /\ j.with = k.with
        /\ j.force = k.force /\ j.moved = {} /\ j.at = "done"
    BY <1>0, <2>1 DEF FetchRecords
  <2>4. Alone(f)'
    BY <1>s, <2>2, <2>3 DEF Alone, Merging, Whole, Clear
  <2> QED BY <1>s, <2>4 DEF KeptRun
<1>8. CASE CheckMerge(f)
  <2>1. UNCHANGED <<target, forces, deaths>> /\ k.at = "merge"
    BY <1>8 DEF CheckMerge, In
  <2>2. \/ RejectMerge(f)
        \/ /\ target # NoRun /\ target.recorded = k.got["transcripts"]
           /\ fetch' = [fetch EXCEPT ![f].at = "done"]
        \/ /\ target # NoRun /\ target.results = k.got["transcripts"]
           /\ target.recorded = NoArchive /\ target.tops = Bare
           /\ fetch' = [fetch EXCEPT ![f].at = "move"]
    BY <1>8 DEF CheckMerge, SameRun
  <2>3. CASE RejectMerge(f)
    BY <1>s, <2>1, <2>3
  <2>4. ASSUME NEW a \in {"done", "move"}, fetch' = [fetch EXCEPT ![f].at = a],
               target # NoRun,
               a = "done" => target.recorded = k.got["transcripts"],
               a = "move" => /\ target.results = k.got["transcripts"]
                             /\ target.recorded = NoArchive /\ target.tops = Bare
        PROVE  Alone(f)' /\ KeptRun
    <3>1. PICK j : j = [k EXCEPT !.at = a]
      OBVIOUS
    <3>e. fetch' = [fetch EXCEPT ![f] = j]
      BY <2>4, <3>1
    <3>2. fetch'[f] = j
      BY <1>j, <3>e
    <3>3. /\ j.got = k.got /\ j.aside = k.aside /\ j.failed = k.failed /\ j.with = k.with
          /\ j.force = k.force /\ j.moved = k.moved /\ j.at = a
      BY <1>0, <3>1 DEF FetchRecords
    <3>4. k.got["transcripts"] # NoArchive /\ k.moved = {}
      BY <1>0, <2>1 DEF Fetching, Alone, Merging
    <3>5. a = "move" => \A t \in Tops : target.tops[t] = NoArchive
      BY <2>4 DEF Bare
    <3>6. Alone(f)'
      BY <2>1, <2>4, <3>2, <3>3, <3>4, <3>5 DEF Alone, Merging, Whole, Clear
    <3> QED BY <2>1, <3>6 DEF KeptRun
  <2> QED BY <2>2, <2>3, <2>4
<1>u. ASSUME fetch' = [fetch EXCEPT ![f].at = "undo"], k.at = "move",
             UNCHANGED <<target, forces, deaths>>
      PROVE  Alone(f)' /\ KeptRun
  <2>1. PICK j : j = [k EXCEPT !.at = "undo"]
    OBVIOUS
  <2>e. fetch' = [fetch EXCEPT ![f] = j]
    BY <1>u, <2>1
  <2>2. fetch'[f] = j
    BY <1>j, <2>e
  <2>3. /\ j.got = k.got /\ j.aside = k.aside /\ j.failed = k.failed /\ j.with = k.with
        /\ j.force = k.force /\ j.moved = k.moved /\ j.at = "undo"
    BY <1>0, <2>1 DEF FetchRecords
  <2>4. Alone(f)'
    BY <1>u, <2>2, <2>3 DEF Alone, Merging, Whole, Clear
  <2> QED BY <1>u, <2>4 DEF KeptRun
(* A rename of an entry into the run, or out of it.                        *)
<1>v. ASSUME NEW t \in Tops, NEW m \in SUBSET Tops, NEW s \in {NoArchive, k.got["transcripts"]},
             k.at \in {"move", "undo"}, UNCHANGED <<forces, deaths>>,
             target' = [target EXCEPT !.tops[t] = s],
             fetch' = [fetch EXCEPT ![f].moved = m],
             \A x \in Tops : x # t => (x \in m <=> x \in k.moved),
             s = IF t \in m THEN k.got["transcripts"] ELSE NoArchive
      PROVE  Alone(f)' /\ KeptRun
  <2>1. PICK j : j = [k EXCEPT !.moved = m]
    OBVIOUS
  <2>e. fetch' = [fetch EXCEPT ![f] = j]
    BY <1>v, <2>1
  <2>2. fetch'[f] = j
    BY <1>j, <2>e
  <2>3. /\ j.got = k.got /\ j.aside = k.aside /\ j.failed = k.failed /\ j.with = k.with
        /\ j.force = k.force /\ j.moved = m /\ j.at = k.at
    BY <1>0, <2>1 DEF FetchRecords
  <2>4. target # NoRun /\ target \in RunRecords
    BY <1>v, <1>t DEF Alone, Merging
  <2>5. /\ target'.results = target.results /\ target'.recorded = target.recorded
        /\ \A x \in Tops : target'.tops[x] = IF x = t THEN s ELSE target.tops[x]
    BY <1>v, <2>4 DEF RunRecords
  <2>6. target' # NoRun
    <3>1. s \in MaybeStamps
      BY <1>0, <1>v, PartsAre DEF FetchRecords, MaybeStamps
    <3>2. target' \in RunRecords
      BY <1>v, <2>4, <3>1 DEF RunRecords
    <3> QED BY <3>2, NoRunIsNone
  <2>7. \A x \in Tops : target'.tops[x] = IF x \in m THEN k.got["transcripts"] ELSE NoArchive
    BY <1>v, <2>5 DEF Alone, Merging
  <2>8. target.recorded = NoArchive /\ target.results = k.got["transcripts"]
    BY <1>v DEF Alone, Merging
  <2>9. Whole(target)'
    BY <2>5, <2>7, <2>8 DEF Whole
  <2>10. Whole(fetch[f].aside)' /\ (deaths = 0 => Clear(fetch[f].aside)')
    BY <2>2, <2>3 DEF Alone, Whole, Clear
  <2>11. Alone(f)'
    <3>1. fetch'[f].at \in {"move", "undo"} /\ fetch'[f].got = k.got /\ fetch'[f].moved = m
      BY <1>v, <2>2, <2>3
    <3>2. /\ target' # NoRun /\ target'.recorded = NoArchive
          /\ target'.results = k.got["transcripts"]
      BY <2>5, <2>6, <2>8
    <3>3. /\ fetch'[f].with = k.with /\ fetch'[f].force = k.force
          /\ k.with => k.got["transcripts"] # NoArchive
          /\ k.force => forces > 0
      BY <1>v, <2>2, <2>3 DEF Alone
    <3> QED BY <1>v, <2>7, <2>9, <2>10, <3>1, <3>2, <3>3 DEF Alone, Merging
  <2> QED BY <2>5, <2>6, <2>11 DEF KeptRun
<1>9. CASE MoveTop(f)
  <2>1. PICK t \in Tops \ k.moved :
          /\ k.at = "move" /\ UNCHANGED <<forces, deaths>>
          /\ \/ /\ target' = [target EXCEPT !.tops[t] = k.got["transcripts"]]
                /\ fetch' = [fetch EXCEPT ![f].moved = @ \cup {t}]
             \/ fetch' = [fetch EXCEPT ![f].at = "undo"] /\ target' = target
    BY <1>9 DEF MoveTop, In
  <2>2. k.moved \cup {t} \in SUBSET Tops
    BY <1>0, <2>1 DEF FetchRecords
  <2>3. CASE /\ target' = [target EXCEPT !.tops[t] = k.got["transcripts"]]
             /\ fetch' = [fetch EXCEPT ![f].moved = @ \cup {t}]
    <3>1. PICK m \in SUBSET Tops : m = k.moved \cup {t}
      BY <2>2
    <3>2. fetch' = [fetch EXCEPT ![f].moved = m]
      BY <2>3, <3>1
    <3> QED BY <1>v, <2>1, <2>3, <3>1, <3>2
  <2> QED BY <1>u, <2>1, <2>3
<1>10. CASE Record(f)
  <2>1. k.at = "move" /\ UNCHANGED <<forces, deaths>> /\ k.moved = Tops
    BY <1>10 DEF Record, In
  <2>2. CASE fetch' = [fetch EXCEPT ![f].at = "undo"] /\ target' = target
    BY <1>u, <2>1, <2>2
  <2>3. CASE /\ target' = [target EXCEPT !.recorded = k.got["transcripts"]]
             /\ fetch' = [fetch EXCEPT ![f].at = "done", ![f].moved = {}]
    <3>1. PICK j : j = [k EXCEPT !.at = "done", !.moved = {}]
      OBVIOUS
    <3>e. fetch' = [fetch EXCEPT ![f] = j]
      BY <2>3, <3>1
    <3>2. fetch'[f] = j
      BY <1>j, <3>e
    <3>3. /\ j.got = k.got /\ j.aside = k.aside /\ j.failed = k.failed /\ j.with = k.with
          /\ j.force = k.force /\ j.moved = {} /\ j.at = "done"
      BY <1>0, <3>1 DEF FetchRecords
    <3>4. target # NoRun /\ target \in RunRecords /\ k.got["transcripts"] # NoArchive
      BY <1>0, <1>t, <2>1 DEF Alone, Merging, Fetching
    <3>5. /\ target'.results = target.results /\ target'.recorded = k.got["transcripts"]
          /\ target'.tops = target.tops
      BY <2>3, <3>4 DEF RunRecords
    <3>6. target' # NoRun
      <4>1. k.got["transcripts"] \in MaybeStamps
        BY <1>0, PartsAre DEF FetchRecords
      <4>2. target' \in RunRecords
        BY <2>3, <3>4, <4>1 DEF RunRecords
      <4> QED BY <4>2, NoRunIsNone
    <3>7. target.results = k.got["transcripts"] /\ \A x \in Tops : target.tops[x] = target.results
      BY <2>1 DEF Alone, Merging
    <3>8. target'.tops # Bare
      BY <3>4, <3>5, <3>7 DEF Bare, Tops
    <3>9. Whole(target)' /\ Clear(target)'
      BY <3>4, <3>5, <3>7, <3>8 DEF Whole, Clear
    <3>10. Whole(fetch[f].aside)' /\ (deaths = 0 => Clear(fetch[f].aside)')
      BY <3>2, <3>3 DEF Alone, Whole, Clear
    <3>11. Alone(f)'
      BY <2>1, <3>2, <3>3, <3>4, <3>5, <3>6, <3>9, <3>10 DEF Alone, Merging
    <3> QED BY <3>5, <3>6, <3>11 DEF KeptRun
  <2> QED BY <1>10, <2>1, <2>2, <2>3 DEF Record
<1>11. CASE MoveFails(f)
  BY <1>11, <1>u DEF MoveFails, In
<1>12. CASE Undo(f)
  <2>1. k.at = "undo" /\ UNCHANGED <<forces, deaths>>
    BY <1>12 DEF Undo, In
  <2>2. /\ target # NoRun /\ target.recorded = NoArchive /\ k.got["transcripts"] # NoArchive
        /\ \A t \in Tops : target.tops[t] = IF t \in k.moved THEN k.got["transcripts"]
                                                             ELSE NoArchive
    BY <1>0, <2>1 DEF Alone, Merging, Fetching
  <2>3. CASE k.moved = {}
    <3>1. target.tops = Bare
      BY <1>t, <2>2, <2>3 DEF RunRecords, Bare
    <3> QED BY <1>12, <1>s, <2>1, <2>2, <2>3, <3>1 DEF Undo, Clear
  <2>4. CASE k.moved # {}
    <3>1. PICK t \in k.moved :
            /\ target' = [target EXCEPT !.tops[t] = NoArchive]
            /\ fetch' = [fetch EXCEPT ![f].moved = @ \ {t}]
      <4>1. \A t \in k.moved : target.tops[t] # NoArchive
        BY <1>0, <2>2 DEF FetchRecords
      <4> QED BY <1>12, <2>2, <2>4, <4>1 DEF Undo
    <3>2. t \in Tops /\ k.moved \ {t} \in SUBSET Tops
      BY <1>0, <3>1 DEF FetchRecords
    <3>3. PICK m \in SUBSET Tops : m = k.moved \ {t}
      BY <3>2
    <3>4. fetch' = [fetch EXCEPT ![f].moved = m]
      BY <3>1, <3>3
    <3> QED BY <1>v, <2>1, <3>1, <3>2, <3>3, <3>4
  <2> QED BY <2>3, <2>4
<1>13. CASE Die(f)
  <2>1. /\ fetch'[f] = NoFetch /\ UNCHANGED <<target, forces>> /\ deaths' = deaths + 1
    BY <1>13, <1>j DEF Die
  <2>2. /\ NoFetch.aside = NoRun /\ NoFetch.at = "idle" /\ NoFetch.moved = {}
        /\ ~NoFetch.force /\ ~NoFetch.with /\ ~NoFetch.failed
    BY DEF NoFetch
  <2>3. deaths' \in Nat /\ deaths' # 0
    BY <1>0, <2>1
  <2>4. Alone(f)'
    BY <2>1, <2>2, <2>3 DEF Alone, Merging, Whole, Clear
  <2> QED BY <2>1, <2>4 DEF KeptRun
<1> QED BY <1>2, <1>3, <1>4, <1>5, <1>6, <1>7, <1>8, <1>9, <1>10, <1>11, <1>12, <1>13
        DEF ImportStep

(* The uploaders and the release leave it alone.                           *)
LEMMA AloneOtherwise ==
  ASSUME NEW f, Alone(f), UNCHANGED importVars
  PROVE  Alone(f)' /\ KeptRun
<1>1. /\ target' = target /\ fetch' = fetch /\ forces' = forces /\ deaths' = deaths
  BY DEF importVars
<1> QED BY <1>1 DEF Alone, Merging, Whole, Clear, KeptRun

LEMMA OneFetcherStep ==
  ASSUME NEW f, Fetchers = {f}, Uploads, Fetches, Fetches', Alone(f), [Next]_vars
  PROVE  Alone(f)' /\ KeptRun
<1>1. CASE ImportNext
  BY <1>1, AloneStep DEF ImportNext, Uploads
<1>2. CASE UNCHANGED importVars
  BY <1>2, AloneOtherwise
<1> QED BY <1>1, <1>2 DEF Next, vars

LEMMA OneFetcherInit ==
  ASSUME NEW f, Fetchers = {f}, Init PROVE Alone(f)
<1>1. fetch[f] = NoFetch /\ target = NoRun /\ forces = 0 /\ deaths = 0
  BY DEF Init, ImportInit
<1>2. /\ NoFetch.aside = NoRun /\ NoFetch.at = "idle" /\ NoFetch.moved = {}
      /\ ~NoFetch.force /\ ~NoFetch.with /\ ~NoFetch.failed
  BY DEF NoFetch
<1> QED BY <1>1, <1>2 DEF Alone, Merging, Whole, Clear

LEMMA OneFetcher ==
  ASSUME NEW f, Fetchers = {f}
  PROVE  Spec => [](Uploads /\ Fetches /\ Alone(f))
<1>1. Init => Uploads /\ Fetches /\ Alone(f)
  BY UploadsInit, FetchInit, OneFetcherInit
<1>2. Uploads /\ Fetches /\ Alone(f) /\ [Next]_vars => (Uploads /\ Fetches /\ Alone(f))'
  BY TransferStep, OneFetcherStep
<1> QED BY <1>1, <1>2, PTL DEF Spec

(* With one process at a time: the transcripts in a run are those of its   *)
(* results, and one recorded as merged has all of them, kills included     *)
(* (merge_transcripts records last).                                       *)
THEOREM MergesAreWhole ==
  ASSUME NEW f, Fetchers = {f}
  PROVE  Spec => []MergedIsWhole
<1>1. Uploads /\ Fetches /\ Alone(f) => MergedIsWhole
  BY DEF Alone, Whole, MergedIsWhole, Fetches, FromRelease
<1> QED BY <1>1, OneFetcher, PTL

(* With one process at a time and no kill, a merge that failed has put     *)
(* everything back (the except OSError of merge_transcripts).              *)
THEOREM FailuresLeaveNothing ==
  ASSUME NEW f, Fetchers = {f}
  PROVE  Spec => []FailedMergeLeavesNothing
<1>1. Uploads /\ Fetches /\ Alone(f) => FailedMergeLeavesNothing
  BY DEF Alone, Merging, Clear, FailedMergeLeavesNothing, Over
<1> QED BY <1>1, OneFetcher, PTL

(* With one process at a time, what a fetch reports as imported is there   *)
(* (the exit code of fetch_runs.py and import_run_bundle.py).              *)
THEOREM SuccessesAreImported ==
  ASSUME NEW f, Fetchers = {f}
  PROVE  Spec => []SuccessIsImported
<1>1. Uploads /\ Fetches /\ Alone(f) => SuccessIsImported
  BY DEF Alone, SuccessIsImported, In
<1> QED BY <1>1, OneFetcher, PTL

(* With one process at a time, a run that is there is replaced or taken    *)
(* away only by --force (the check before the staging directory, and the   *)
(* two renames of the swap).                                               *)
THEOREM ReplacedByForceOnly ==
  ASSUME NEW f, Fetchers = {f}
  PROVE  Spec => OnlyForceReplaces
<1>1. Uploads /\ Fetches /\ Alone(f) /\ (Uploads /\ Fetches /\ Alone(f))' /\ [Next]_vars
        => [forces = 0 /\ target # NoRun =>
              target' # NoRun /\ target'.results = target.results]_importVars
  BY OneFetcherStep DEF KeptRun
<1> QED BY <1>1, OneFetcher, PTL DEF Spec, OnlyForceReplaces
=============================================================================
