------------------------------- MODULE Imports -------------------------------
(* scripts/fetch_runs.py and scripts/import_run_bundle.py: runs/<run>/ is   *)
(* imported from the results archive, and the transcripts archive is merged *)
(* into it.  Several processes may do so at once, and each may be killed.   *)
(*                                                                          *)
(* Left out: the checks of read_archive on members, names and hashes, and   *)
(* the merge's comparison of the transcripts with the run manifest; both    *)
(* archives come from write_archives, where those hold.                     *)
EXTENDS Naturals, RunRelease

CONSTANTS
  Fetchers,
  NoRun,        \* runs/<run>/ does not exist
  MaxFetches,   \* bound on the processes a fetcher starts
  MaxForces,    \* bound on imports with --force
  MaxDeaths     \* bound on killed imports

VARIABLES
  target,  \* runs/<run>/
  fetch,   \* the process of each fetcher
  fetches, forces, deaths

importVars == <<target, fetch, fetches, forces, deaths>>

ASSUME FetchersAssumption ==
  MaxFetches \in Nat /\ MaxForces \in Nat /\ MaxDeaths \in Nat

(* The top-level entries a transcripts archive may hold, in sorted order.   *)
Tops == {"logs", "transcripts"}
Bare == [t \in Tops |-> NoArchive]

ASSUME NoRunAssumption ==
  LET stamps == Stamps \cup {NoArchive} IN
  NoRun \notin [results : stamps, tops : [Tops -> stamps], recorded : stamps]

(* results: the stamp in BUNDLE.json.  tops: whose logs/ and transcripts/   *)
(* are there.  recorded: the stamp in BUNDLE.transcripts.json.              *)
Run(s) == [results |-> s, tops |-> Bare, recorded |-> NoArchive]

(* got: the downloaded archives.  aside: the run that was moved into the    *)
(* staging directory.  moved: the entries renamed into the run.             *)
NoFetch == [at |-> "idle", with |-> FALSE, force |-> FALSE, failed |-> FALSE,
            got |-> [p \in Parts |-> NoArchive], aside |-> NoRun, moved |-> {}]

ImportInit ==
  /\ target = NoRun
  /\ fetch = [f \in Fetchers |-> NoFetch]
  /\ fetches = 0 /\ forces = 0 /\ deaths = 0

Over == {"idle", "done"}
In(f, stage) == fetch[f].at = stage

(* The next archive of the loop, or its end: results before transcripts.    *)
Later(job) == IF job.got["transcripts"] # NoArchive THEN "merge" ELSE "done"

(* Mutation: a rejected merge does not count as a failure.                  *)
RejectQuietly(f) ==
  fetch' = [fetch EXCEPT ![f].at = "done", ![f].moved = {}]

(* A rejected archive is reported and the loop goes on.                     *)
RejectResults(f) ==
  fetch' = [fetch EXCEPT ![f].at = Later(fetch[f]), ![f].failed = TRUE,
                         ![f].aside = NoRun]
RejectMerge(f) ==
  fetch' = [fetch EXCEPT ![f].at = "done", ![f].failed = TRUE, ![f].moved = {}]

Begin(f, job) ==
  /\ fetch[f].at \in Over
  /\ fetches < MaxFetches
  /\ fetches' = fetches + 1
  /\ fetch' = [fetch EXCEPT ![f] = [job EXCEPT !.at =
                 IF job.got["results"] # NoArchive THEN "import" ELSE Later(job)]]
  /\ UNCHANGED <<target, deaths, created, release>>

(* fetch: a missing release, no results archive or an unknown run is an     *)
(* error; what is already imported or merged is not downloaded.             *)
Fetch(f, with) ==
  LET wanted(p) == \/ p = "results" /\ target = NoRun
                   \/ /\ p = "transcripts" /\ with
                      /\ target = NoRun \/ target.recorded = NoArchive
  IN
  /\ created
  /\ Assets # {} => "results" \in Assets
  /\ with => "transcripts" \in Assets
  /\ Begin(f, [NoFetch EXCEPT !.with = with,
                 !.got = [p \in Parts |-> IF wanted(p) THEN release[p].stamp
                                                       ELSE NoArchive]])
  /\ UNCHANGED forces

(* import_run_bundle.py on downloaded archives, with or without --force.    *)
Import(f, parts, force) ==
  /\ parts # {} /\ parts \subseteq Assets
  /\ force => forces < MaxForces
  /\ forces' = IF force THEN forces + 1 ELSE forces
  /\ Begin(f, [NoFetch EXCEPT !.force = force,
                 !.got = [p \in Parts |-> IF p \in parts THEN release[p].stamp
                                                         ELSE NoArchive]])

(* Mutation: the check is left to the replacement.                          *)
CheckNothing(f) ==
  /\ In(f, "import")
  /\ fetch' = [fetch EXCEPT ![f].at = "staged"]
  /\ UNCHANGED <<target, fetches, forces, deaths, created, release>>

(* if target.exists() and not force                                         *)
CheckTarget(f) ==
  /\ In(f, "import")
  /\ IF target # NoRun /\ ~fetch[f].force
     THEN RejectResults(f)
     ELSE fetch' = [fetch EXCEPT ![f].at = "staged"]
  /\ UNCHANGED <<target, fetches, forces, deaths, created, release>>

(* Replace only after the new copy is fully staged: the run that is there   *)
(* by now goes into the staging directory.                                  *)
SetAside(f) ==
  /\ In(f, "staged")
  /\ target' = NoRun
  /\ fetch' = [fetch EXCEPT ![f].at = "swap", ![f].aside = target]
  /\ UNCHANGED <<fetches, forces, deaths, created, release>>

(* A directory that is there by now makes both renames fail.                *)
SwapIn(f) ==
  /\ In(f, "swap")
  /\ IF target = NoRun
     THEN /\ target' = Run(fetch[f].got["results"])
          /\ fetch' = [fetch EXCEPT ![f].at = Later(fetch[f]),
                                    ![f].aside = NoRun]
     ELSE RejectResults(f) /\ UNCHANGED target
  /\ UNCHANGED <<fetches, forces, deaths, created, release>>

(* The second rename raises although nothing is in the way: the old run is  *)
(* put back, if there was one.                                              *)
SwapFails(f) ==
  /\ In(f, "swap")
  /\ target = NoRun
  /\ target' = fetch[f].aside
  /\ RejectResults(f)
  /\ UNCHANGED <<fetches, forces, deaths, created, release>>

(* Mutation: created_at is not part of the identity.                        *)
SameButStamps(f) == target.results \in Stamps

(* check_same_run                                                           *)
SameRun(f) == target.results = fetch[f].got["transcripts"]

(* merge_transcripts up to its staging directory.                           *)
CheckMerge(f) ==
  LET stamp == fetch[f].got["transcripts"] IN
  /\ In(f, "merge")
  /\ CASE target = NoRun \/ ~SameRun(f) -> RejectMerge(f)
       [] target # NoRun /\ SameRun(f) /\ target.recorded = stamp ->
            fetch' = [fetch EXCEPT ![f].at = "done"]
       [] target # NoRun /\ SameRun(f) /\ target.recorded # stamp ->
            IF target.recorded # NoArchive \/ target.tops # Bare
            THEN RejectMerge(f)
            ELSE fetch' = [fetch EXCEPT ![f].at = "move"]
  /\ UNCHANGED <<target, fetches, forces, deaths, created, release>>

(* (root / top).rename(target / top), in sorted order.                      *)
MoveTop(f) ==
  /\ In(f, "move")
  /\ \E t \in Tops \ fetch[f].moved :
       /\ t = "transcripts" => "logs" \in fetch[f].moved
       /\ IF target # NoRun /\ target.tops[t] = NoArchive
          THEN /\ target' = [target EXCEPT !.tops[t] =
                               fetch[f].got["transcripts"]]
               /\ fetch' = [fetch EXCEPT ![f].moved = @ \cup {t}]
          ELSE /\ fetch' = [fetch EXCEPT ![f].at = "undo"]
               /\ UNCHANGED target
  /\ UNCHANGED <<fetches, forces, deaths, created, release>>

(* Mutation: the manifest is renamed with the entries, not after them.      *)
RecordEarly(f) ==
  /\ In(f, "move") /\ target # NoRun
  /\ target' = [target EXCEPT !.recorded = fetch[f].got["transcripts"]]
  /\ fetch' = [fetch EXCEPT ![f].at = "done", ![f].moved = {}]
  /\ UNCHANGED <<fetches, forces, deaths, created, release>>

(* The manifest goes last; it replaces one that is there.                   *)
Record(f) ==
  /\ In(f, "move") /\ fetch[f].moved = Tops
  /\ IF target # NoRun
     THEN /\ target' = [target EXCEPT !.recorded = fetch[f].got["transcripts"]]
          /\ fetch' = [fetch EXCEPT ![f].at = "done", ![f].moved = {}]
     ELSE /\ fetch' = [fetch EXCEPT ![f].at = "undo"]
          /\ UNCHANGED target
  /\ UNCHANGED <<fetches, forces, deaths, created, release>>

(* Any of the renames may raise for a reason of its own.                    *)
MoveFails(f) ==
  /\ In(f, "move")
  /\ fetch' = [fetch EXCEPT ![f].at = "undo"]
  /\ UNCHANGED <<target, fetches, forces, deaths, created, release>>

(* Mutation: what was moved stays.                                          *)
UndoNothing(f) ==
  /\ In(f, "undo")
  /\ RejectMerge(f)
  /\ UNCHANGED <<target, fetches, forces, deaths, created, release>>

(* except OSError: what was moved goes back, whoever's it is by now.        *)
Undo(f) ==
  /\ In(f, "undo")
  /\ IF fetch[f].moved = {} \/ target = NoRun
     THEN RejectMerge(f) /\ UNCHANGED target
     ELSE \E t \in fetch[f].moved :
            /\ t = "transcripts" => "logs" \notin fetch[f].moved
            /\ IF target.tops[t] # NoArchive
               THEN /\ target' = [target EXCEPT !.tops[t] = NoArchive]
                    /\ fetch' = [fetch EXCEPT ![f].moved = @ \ {t}]
               ELSE RejectMerge(f) /\ UNCHANGED target
  /\ UNCHANGED <<fetches, forces, deaths, created, release>>

(* A killed process undoes nothing.                                         *)
Die(f) ==
  /\ fetch[f].at \notin Over
  /\ deaths < MaxDeaths
  /\ deaths' = deaths + 1
  /\ fetch' = [fetch EXCEPT ![f] = NoFetch]
  /\ UNCHANGED <<target, fetches, forces, created, release>>

ImportStep(f) ==
  \/ \E with \in BOOLEAN : Fetch(f, with)
  \/ \E parts \in SUBSET Parts, force \in BOOLEAN : Import(f, parts, force)
  \/ CheckTarget(f) \/ SetAside(f) \/ SwapIn(f) \/ SwapFails(f)
  \/ CheckMerge(f) \/ MoveTop(f) \/ Record(f) \/ MoveFails(f) \/ Undo(f)
  \/ Die(f)

ImportNext == \E f \in Fetchers : ImportStep(f)
-----------------------------------------------------------------------------
(* The transcripts of a run are those of its results, and a run recorded as *)
(* merged holds all of them: merge_transcripts records last.                *)
MergedIsWhole ==
  target # NoRun =>
    /\ \A t \in Tops : target.tops[t] \in {NoArchive, target.results}
    /\ target.recorded # NoArchive =>
         /\ target.recorded = target.results
         /\ \A t \in Tops : target.tops[t] = target.results

(* A merge that failed leaves the run as it was, so that it can be tried    *)
(* again; only a killed one leaves entries without a record.                *)
FailedMergeLeavesNothing ==
  (deaths = 0 /\ target # NoRun /\ \A f \in Fetchers : fetch[f].at \in Over) =>
    (target.tops = Bare <=> target.recorded = NoArchive)

(* What a fetch reports as imported is there: it exits 0 only when the run, *)
(* and with --with-transcripts all of its transcripts, were imported.       *)
SuccessIsImported ==
  \A f \in Fetchers : (In(f, "done") /\ ~fetch[f].failed) =>
    /\ fetch[f].got["results"] # NoArchive => target # NoRun
    /\ fetch[f].with => target # NoRun /\ target.recorded # NoArchive

(* --force: "replace an existing run imported from a results/legacy         *)
(* archive"; without it an imported run is never replaced or taken away.    *)
OnlyForceReplaces ==
  [][forces = 0 /\ target # NoRun =>
       target' # NoRun /\ target'.results = target.results]_importVars
=============================================================================
