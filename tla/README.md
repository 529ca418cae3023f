# rama-ai-learn: specifications, model checking and proofs

This directory holds TLA+ specifications of the program that runs, grades and
publishes the challenges of this repository, of the atlas that explains them, and of
some of the challenges' own solutions and modules; the TLC configurations that check
them on small instances, and TLAPS proofs of the results that hold for every
value of the constants. Paths below are relative to the repository's root.

    tlc -workers 2 -config PhaseLoopStages.cfg MCPhaseLoop     # one run
    tlapm RunnerProofs.tla                                     # one proof module

`PROJECT.json` lists the components, the runs with what each one asks, for every
property a plausible bug that violates it, the source lines each definition
stands for, the hazards and the theorems.

1. [The system](#1-the-system)
2. [The modules](#2-the-modules)
3. [The runs](#3-the-runs)
4. [The proofs](#4-the-proofs)
5. [Where the code and its documentation disagree](#5-where-the-code-and-its-documentation-disagree)
6. [What is left out](#6-what-is-left-out)
7. [Plan](#7-plan)

## 1. The system

`scripts/run_challenges.bb` takes a challenge through a series of AI agents and
grades what they leave. Around it stand a shell script that runs several of it at
once, scripts that pack a run and carry it to another machine, and about fifty
challenges, each with a reference solution, most of them modules for the Rama platform.
A static page, the atlas, draws how those work.

| Component | State it keeps | Operations | Interacts with |
|---|---|---|---|
| **Phase loop** (`phase-loop!`, `run-subsystem-phases!`, `run-full-spec-review!`, `run-phase!`) | stage, subsystems left, attempt numbers, plan rejections, retries, clock, list of phase results, transcripts | run an agent under a timeout, retry it after an infrastructure failure, advance, send a plan back, stop | one agent process at a time; its result list is all that grading sees |
| **Outcome and score** (`classify-*`, `count-semantic-retries`, `compute-challenge-score`) | the result map | run the private suite or not; classify; score | phase results, private suite, `implementations/` |
| **Challenge files** (`encrypt_challenges.bb`, `run-challenge`) | plain or `.enc` files under `challenges/`, the hidden setup of a challenge | encrypt, decrypt, set up, tear down, clean up after an exception | every later process, through the disk; the user, through `bb encrypt-challenges` and `bb decrypt-challenges` |
| **Run artifacts** (`claim-report-path!`, `emit-run-artifacts!`, `append-locked!`) | report, evaluator log, manifest and bundle of each run, `results.edn` | claim a name, write each artifact, append under a file lock | other lanes, through the shared `reports/` |
| **Archives** (`run_archives.py`) | two archives in a directory, a GitHub release | write or verify a pair, create the release, compare, upload | other workers, through the release |
| **Import** (`import_run_bundle.py`, `fetch_runs.py`) | `runs/<run>/` | download, replace, merge transcripts, roll back | the release; other imports, through `runs/` |
| **Lanes** (`run-lanes.sh`) | worktrees | deal challenges to worktrees, start a runner in each | runners |
| **Launcher, isolation, proxy** (`orb_run.py`, `isolate_solver.py`, `solver_proxy.py`) | processes, sockets | gates around one run | runner, archives |
| **Q&A runner** (`run_qa.bb`, `qa_*.bb`) | files under `implementations/` | extract, answer, score | itself, through files of earlier runs |
| **Atlas page** (`docs/atlas/app.js`, `diagrams.mjs`) | location hash, search, filter, open tab, one card per diagram, calls of `renderGraphs` under way | load, route, search, filter, open a tab, draw a diagram over three awaits, expand | the browser's event queue, Mermaid, itself through overlapping calls |
| **Atlas data** (`graph.mjs`, `data/*.mjs`) | overviews and scenarios | check a graph, order columns, emit Mermaid text | written by hand beside the code they draw |
| **Reference solutions** (`challenges/<AtCoder>/test-resources/`) | loop variables | one pure function each | the atlas' scenarios, the challenges' tests |
| **Reference modules: command logs** (`hld-ticketing-system`, `hld-payment-system`, `hld-stock-exchange`, `hld-hotel-reservation`, `hld-job-scheduler`) | the state of one key, and the outcome of every request id | commands that clients send again | clients; Rama's microbatches |
| **Reference modules: two steps** (`bank-transfer-module`, `auction-module`) | balances and histories; bids, highest bid, notifications | a transfer over two tasks; bids beside an expiration | a stream and a microbatch of one module |
| **Reference modules: the rest** | partitioned stores | Rama topologies over depots | Rama's runtime |

What makes each of them correct, and what makes that hard:

- **Phase loop.** No build without an accepted plan, no pass without a passing
  review, a bounded number of rejected plans per subsystem, an end, and a
  wall-clock budget. Hard: one list of results serves classification, retry
  counting and score, all of which look at positions in it (the last one, pairs of
  neighbours); an infrastructure retry happens inside a phase and must not show as
  an attempt; the budget is cut into whole seconds per call but compared exactly.
- **Outcome and score.** A headline that is never better than the evidence, and
  never blames the solver for the host. Hard: six inputs from different moments, and
  tables where the order of the rows is the meaning.
- **Challenge files.** The solver sees its task and nothing of any solution; every
  file comes back. Hard: files are rewritten one by one, a process may be killed
  between or inside any of them, and the next process starts from what it finds.
- **Run artifacts.** Every lane's artifacts under its own name, a manifest that never
  vouches for what is not there, records that do not interleave. Hard: concurrent
  processes, kills, and a failure of one artifact that must not cost the others.
- **Atlas.** Page, navigation and hash agree once the browser has handled its events,
  and no diagram of the open tab stays a placeholder. Hard: a hash changes before its
  event is handled; a call of `renderGraphs` holds cards of a page that is gone, or that
  another call has as well; Mermaid may fail for one diagram, or not load at all. And
  what a diagram says is true of the code only because somebody wrote it so.
- **Reference solutions.** The right answer; they are what submissions are compared with.
- **Reference modules.** What is allotted (a seat, a room night, a lease, a listing) is
  allotted once, what is moved (money, orders) is neither made nor lost, under commands
  that come in any order, late, twice, or twice with different contents. Hard: outcomes
  are remembered per request id, so a rejection stays one even if it would be accepted
  later; several stores must say the same; two steps of a transfer, or a bid and an
  expiration, are apart in time.
- **Archives and import.** What arrives is one whole run. Hard: two workers may race
  to upload different archives of the same run; uploads are not atomic; an import
  replaces a directory with two renames and a merge moves several entries.

`PROJECT.json` lists 40 hazards at their lines, with the properties that would catch
each of them going wrong.

## 2. The modules

    PhaseLoop ── refines ──> Pipeline          RunRelease
        │                                       /       \
     Grading ── extends ──> Outcome       Archives     Imports
                                                \       /
    ChallengeFiles         Reports            RunTransfer

    GraphCards <── Atlas                Diagrams
                                       /   │   │  \
                          SolutionSteps    │   │   Layout, Overviews
                            /      \       │   └── BankTransfer, Auction
        CountingSolutions, SearchSolutions CommandLog
                            \      /       │
                     ReferenceSolutions    Ticketing, Payment, StockExchange,
                              │            HotelReservation, JobScheduler
                              └── AtlasEntries ── instantiates all of these

`MC*` modules only name sets for TLC. The proofs are in `RunnerProofs` (of
`PhaseLoop` and `Grading`), `FilesProofs`, `ReportsProofs`, `TransferProofs`, `AtlasProofs`,
and for `AtlasEntries` in three that extend each other: `EntriesProofs` (sums, walks, the
layout, the solutions, the bank), `BookingProofs` (what can be allotted once) and
`StockProofs` (payments, the exchange, and the theorems about all entries). Definitions whose
comment begins with `Mutation:` are variants of the definition below them, with a bug in
them; no specification uses them.

### PhaseLoop and Pipeline

One challenge from phase 0 to the value `phase-loop!` returns. `pc` is where the
runner stands: about to start a stage (`"stage"`), in `run-phase!` before
(`"invoke"`) or after (`"returned"`) the agent, or finished (`"done"`).

| Action | Code |
|---|---|
| `ExceedBudget`, `StartPhase` | `budget-exceeded` and the same test at the head of the subsystem loop and of the review |
| `Invoke` | one pass of the loop in `run-phase!`: an agent under `(min *outer-timeout-s* (max 1 remaining))`, and `save-transcript!` |
| `RetryPhase` | the infrastructure retry with its backoff |
| `StageFails` | `stage-failure` and the first branches of the other two loops: timeout, exit code |
| `FinishImplicitSpec`, `FinishDecompose`, `FinishPlan` | the stages that owe no verdict; `read-decomposition` and the slugs |
| `AcceptPlan`, `SendBackPlan`, `RejectPlan` | the branches on the verdict of phase 2 |
| `PassBuild`, `FailBuild`, `FinishReview` | the branches on the verdicts of the build and of the full-spec review |

What an agent process may return is `Outcomes`: any exit code, error flag, timeout,
set of matching error patterns and verdict line. `Unprompted` says which verdicts a
stage that owes none may quote in its output; the checked instances say none, the
proofs allow any. Time is counted in ticks, `Tick` to a second, and only agents and
backoffs take time.

`Pipeline` is what `phase-loop!` promises, without clocks, retries, agents or
transcripts: stages in their order, every subsystem planned, approved and built
before the next, at most `Cap` rejected plans for each, a review with nothing left to
build before a pass, and a verdict that never changes. `ImplementsPipeline` states
that PhaseLoop implements it with `todo <- subsystems`, `rejected <- majorFails`.

### Outcome and Grading

`Outcome` translates the classification tables as operators. `Grading` extends
PhaseLoop with the second half of `run-challenge`: whether the private suite is
started at all, what it may report (`PossibleSuite` says which reports a
`clojure.test` run can produce), and the result map. Everything grading reads of the
phases is what the modelled phase loop wrote, so its properties are about reachable
combinations, not about all inputs of the tables.

### ChallengeFiles

`disk` maps a path to the layer of encryption at which its bytes were cut short, or to
`Whole`; a path is a challenge, a kind of file and a number of `.enc` suffixes. The
kinds are what the listings of the code tell apart: `README.md`, provided sources,
helpers (`test` in a name under `src/`), files under the sensitive directories, and the
rest (`deps.edn`, `design.md`, `public-test-resources/`), which only the operations on a
whole challenge rewrite: what a kill leaves encrypted of those is not brought back by the
challenge's own `decrypt-challenge!`, only as one of the others of a later run.
A whole-challenge operation opens the directories in `dirs` one after another, lists
paths when it opens one (`OpenDir`, so the listing may be stale later, as
in the code) and rewrites them one at a time. `Crash` may happen anywhere,
also inside one `encrypt-file!` or `decrypt-file!`: nothing written, the target cut
short, or both files there. `DecryptThrows` follows the exception to the catch block of
`run-challenge`, whose steps each swallow their own. `Setup` and `Teardown` may fail: a
setup that failed may have done part of its work, a teardown that failed leaves it in
place and is only warned of, and `refused` remembers of which challenges. A run of several challenges in
one process is `queue`. Commands the user may give between processes are `Command`.

### Reports

Concurrent runners in one directory. Each `Emit` disjunct is one system call or one
check of `-main`'s tail: exclusive creation of the report (`Claim`, `ClaimNext`),
`WriteReport`, the evaluator log (`CreateLog`, `FillLog`, `CheckLog`), the manifest
(`StartManifest`, `FillManifest`), the bundle (`StartBundle`, `FinishBundle`), then the
records (`OpenDatabase`, `TakeLock`, `AppendPiece`, `CloseChannel`). Every write may fail.
`Fail` is an artifact error, which `-main` keeps until the database is appended. Its `try`
covers only the log, the manifest and the bundle: a report that cannot be claimed or
written (`ClaimThrows`, `WriteReport`) ends the run `"unreported"`, and a database that
cannot be opened or written (`OpenDatabase`, `AppendThrows`) ends it `"unappended"`, the
lock released by `with-open`. `Crash` may follow any step. All runs
end in the same second, which is the only case in which their first names collide.

### RunRelease, Archives, Imports, RunTransfer

`RunRelease` holds what both ends share: the release and its assets, with an archive
identified by its `created_at` (all else in it is a function of the collected run;
members are sorted and carry no clock). `Archives` is `run_archives.py` for several
workers with a directory each: write or verify the pair, view or create the release,
compare, upload part by part, look again. `StartUpload` and `Land` are the two ends of
one upload: between them another worker may have put an asset of the same name there.
`Imports` is `fetch_runs.py` and `import_run_bundle.py`: check, stage, set the old run
aside, swap the new one in, put the old one back on an exception; merge the transcripts
entry by entry, record last, undo on an exception. `RunTransfer` composes the two over
one release.

### GraphCards and Atlas

`GraphCards` is `renderGraphs` of `docs/atlas/diagrams.mjs`: the cards of one panel, drawn
one after the other by a call that awaits the Mermaid engine (`AfterEngine`), its parser
(`AfterParse`) and its renderer (`AfterRender`) for each of them. At every await
another tab or another challenge may be opened, and another call may run; what a call
still holds of a page that is gone is not drawn (`Connected`). `EngineSettles` is the one
import of Mermaid, kept even when it was rejected; `Fail` is the catch block, `Draw` the
SVG and the handlers of its buttons, `Expand` and `Escape` what a user does with them.

`Atlas` is `app.js` around it: `Loaded` or `LoadFails`, then the events of the browser in
any order. The hash is set (`SetHash`) before its event is handled (`HashChange`), and
`Route` reads the hash as it is then. `Search` and `Filter` render the navigation and,
only under an empty hash, the catalogue; `Activate` opens a tab and draws its diagrams.

### Diagrams, Layout and Overviews

`Diagrams` is `graph.mjs`: a graph as nodes and edges, what `mermaidSource` refuses
(`WellFormed`), and when a walk goes along the edges (`Follows`). `Layout` is
`orderedColumns`: one step looks at one pair of neighbours and swaps them if that leaves
fewer crossings; the sweep starts again as long as the last one improved anything. `Overviews` is the data of `overviews.mjs`, column by column.

### The solutions

`SolutionSteps`, `CountingSolutions`, `SearchSolutions` and `ReferenceSolutions` are the
ten AtCoder solutions beside the scenarios of `flows-other.mjs`. A run of `solve` is a
walk: `state.at` is the node of the diagram it has reached, `state.m` its loop variables,
and a step is what the code does between two nodes. `...Answer` is the answer the
problem's README asks for, written as a set or a quantifier over all candidates and not
after the code; `Answered` compares the two at the end.

### The modules that keep a log of commands

`CommandLog` is what five of the reference modules share: the commands of one key are
taken one at a time; the first under a request id is decided and its outcome kept, the
same one again changes nothing, a different one is counted as a conflict. `Commands` are
the ones clients may send, in any order and as often as they like.

| Module | Source under `challenges/` | Commands |
|---|---|---|
| `Ticketing` | `hld-ticketing-system` | create an event, add seats, advance the clock, hold, confirm, release; compensation of payments that bought nothing |
| `Payment` | `hld-payment-system` | create tenants and accounts, fund, charge, refund; the journal |
| `StockExchange` | `hld-stock-exchange` | limit orders, immediate or good till cancelled, matched against the book by price, then time; cancel |
| `HotelReservation` | `hld-hotel-reservation` | properties, room types, nights, rates; reserve a stay of several nights, cancel; the event log |
| `JobScheduler` | `hld-job-scheduler` | submit a graph of jobs, advance the clock, claim a lease, complete under a fencing token |

A step is one whole command, since a microbatch applies its commands one after the other
on the key's task. The checks of a command are a list in the order of the code
(`Reason` is the first that fails), so an outcome is the one the code reports when several
things are wrong. `state.walk` says along which nodes of which diagram of `flows-hld-*.mjs`
the command went.

### The modules whose steps are apart

`BankTransfer`: a transfer debits on its sender's task (`TransferOut`) and credits on its
recipient's (`TransferIn`), with anything in between. Amounts are any
integers, since neither the client nor the topology looks at their sign. `Auction`: bids are a stream, each
handled at once; the expiration is a microbatch that reads the highest bid (`Expire`),
goes through the bidders (`Scan`, which may or may not meet one that bids meanwhile), and
makes its writes visible at its end (`Commit`). Clients and Rama's runtime are external.

### AtlasEntries

One entry of the atlas at a time: a solution, one of the seven modules, or an overview
being laid out. `Drawn` asks of every step that it goes along an arrow of the diagram the
page shows of that entry. A solution's steps are its real control flow. The walk of a
module's command is an annotation, written in these modules beside its handler: there
`PathsAreDrawn` compares two readings of the handler, this one and the page's.

## 3. The runs

Deadlock is checked in `atlas` and `atlas_expand`: a page never stops taking events. The
other systems stop: a challenge ends, every run of `Reports` ends, processes are bounded
in `RunTransfer` and commands in `ChallengeFiles`, where the last process may also find
no challenge with a `README.md`; and an entry of `AtlasEntries` comes to its end.

| Run | Instance | Distinct states | What it shows |
|---|---|---|---|
| `stages` | 2 subsystem names, decompositions of up to 2 entries, both caps 1, 2 ticks to a second, `Budget` 1, agents that fail without a text or with a transient one | 144 thousand | the order of the stages, the caps, fresh transcript names, how far past its budget a run can go, the refinement, termination |
| `grading` | as `stages` with 1 tick to a second, each error text, suite counts up to 1, names symmetric | 834 thousand | the headline, the score, the retry count |
| `files` | 2 challenges, one with a hidden setup and a file outside `src/`, one with a helper; up to 2 kills, 1 command, 4 layers of `.enc` | 902 thousand | nothing of a solution shows, the task is there, also after a setup or teardown that failed; nothing is lost, everything is restored, processes end |
| `reports` | 2 runs, batches of 3 writes, a failure of any write and a kill of any run at any step | 15 thousand | names, manifests, records, what a run that fails anywhere leaves, every run ends |
| `transfer` | 2 workers, 2 stamps, 3 processes, 1 `kill -9`; 1 fetcher, 2 processes, 1 `--force`, 1 kill; workers and stamps symmetric | 1.9 million | a successful upload is one pair, an import is one whole run |
| `atlas` | 2 challenges, 2 diagrams in a tab, one malformed; 2 pages, 2 calls under way, 2 events that wait | 190 thousand | page, navigation and hash agree, also when the hash has changed again before its event; no diagram is forgotten or stays pending |
| `entries` | ten solutions on all small inputs; seven modules with 6 to 12 commands each; layouts of 3+2 and 2+2+2 columns under all sets of arrows, and every overview of the atlas | 384 thousand | the answers; nothing is allotted twice, nothing moved is made or lost; every step is drawn; the layout ends |
| `hard_cap`, `explicit_fail`, `files_lanes`, `import_race`, `atlas_expand` | small | | a violation each: section 5 |

### Why the bounds are enough

- *Two subsystems* are the fewest where a counter carried from one to the next shows
  (`PlanAllowance`, `FreshTranscript`, `RetriesAreRejections`); *one plan rejection and
  one retry* let both the accepting and the exhausted branch happen. The safety
  properties of PhaseLoop and Grading are also proved for all values.
- *Two ticks to a second* give the clock a state between seconds, where the whole-second
  clamp and the exact comparison differ; the bound itself is proved.
- *Two kills* let a process die and the one that cleans up after it die, too; two
  challenges give each an other one. `MaxLayers` is not restrictive: with two kills and
  one command, no encryption ever meets a path of 4 layers.
- *Two runs* are the fewest that contend for a name, find one that a killed run has left
  behind, and wait for a lock whose holder is killed or fails; what is checked of them,
  but for `RunsEnd`, is proved for any number (and `TypeOK`, which is only proved). *Three pieces* let a batch be split in the
  middle.
- *Two workers with two stamps* are the fewest that can mix a pair; three processes let
  one of them come back after a failure. One fetcher is enough for the rollback and
  the retry; two at once are the subject of `import_race`.
- *Two calls over two pages* let one call draw for a page that is gone while another
  draws the new one, and let two have the same card. *Two events that wait* let the hash
  change again before the event of an earlier change is handled; more of them only route
  again. The safety here is proved for any number.
- *Commands* are chosen for their collisions: two holds of one seat, two charges that one
  balance pays for, orders that fill each other in part, stays that share a night, two
  workers for a node, one request id with two contents. Every command may come at any
  time and again, so their number bounds only what can be accepted.
- *Inputs of the solutions* are all of their length over an alphabet with one letter of
  each role (for `find-snuke`, the grids made of six chosen rows that spell the word
  once). Every action of every solution fires on them.

### Fairness

- PhaseLoop: `WF_vars(Next)`. The runner is one thread; it waits only for agent
  processes, and `invoke-command!` kills those at their timeout. `Terminates` needs
  nothing of the agents: it holds because every loop of the code is capped.
- ChallengeFiles: `WF_vars(Step)`, the steps of a process that is alive. Nobody has to
  start one, to give a command or to kill anything.
- Reports: `WF_vars(Emit(r))` for each run: an operating system schedules every live
  process. Weak fairness is enough for the lock, which each run takes at most once, so
  that it is free for good in the end; nothing is assumed about the order in which
  the lock is granted. A killed run steps no more, and its lock is released by the system.
- Atlas: weak fairness of `EngineSettles` and of each `CallStep(c)`: the browser settles
  the import, the parsing and the rendering that it was asked for, one way or the other,
  and runs what waits for it. The user need do nothing.
- AtlasEntries needs none: `LayoutEnds` is a ranking. Every step of the sweep lowers the
  crossings, or takes back that another sweep is owed, or leaves fewer pairs to try, so only
  finitely many steps follow one another, and the sweep is one synchronous loop of the page.
  It holds because only a strict improvement is kept (`Better`): one that counted a tie would
  swap a pair back and forth for ever.
- Grading and RunTransfer are checked for safety only.

### The properties, by the question they answer

*May a run claim what it did not do?* `PassIsEarned`, `BuildsAcceptedPlans`,
`HeadlineHonest`: a pass, and a positive score, rest on a review, on the build of every
planned subsystem, and on the private suite where there is one.

*May the solver be blamed for something else?* `ZeroNeedsEvidence`, `InfraNeverBlamed`,
`RetriesAreRejections` (the score halves per plan sent back, and for nothing else) and
`PlanAllowance` (every subsystem has all of the allowance).

*Can a list be read by its end?* `StopsAtFirstFailure`: the last phase result is the only
one that can be a failure, which `classify-completion` takes for granted.

*Is anything overwritten?* `FreshTranscript`, `OwnArtifacts`, `ArtifactsStay`,
`NeverInterleaved`, `OnlyForceReplaces`.

*What does the solver see?* `SolverSees`: its task, and nothing of a solution. Two things
it states as the code has them: after a kill, files like `deps.edn` may be missing from the
task, and a setup whose `teardown.sh` failed is still there for the solvers of later
challenges.

*What does a killed process leave?* `GradesPlaintext`, `NothingLost`,
`SomeChallengeRunnable`; `ManifestVouches`; `MergedIsWhole`.

*What does a failing one leave?* `Restored`; `FailedMergeLeavesNothing`; `RunsAreRecorded`:
a failed log, manifest or bundle costs no record, a failed report leaves nothing that looks
like a result, and no record is ever without its report.

*Does success mean what it says?* `SuccessIsOnePair`, `SuccessIsImported`,
`MergedIsReleasedPair`.

*Does it end, and in time?* `Terminates`, `BoundedOverrun`, `ProcessesEnd`, `RunsEnd`,
`Settles`, `LayoutEnds`.

*Does the page show what it was asked for?* `PageAgrees`, `NoCardForgotten`; and is what
it shows so? `PathsAreDrawn`, `LayoutSound`.

*Is the reference right?* `AnswersRight`; `NothingTwice`, which is `SeatsKeptOnce` and
`PaymentsSettled`, `RoomsSoldOnce` and `EventsMatchBookings`, `LeasesApart` and
`SuccessFenced`, `SoldToOne`; `BooksBalance`, which is `LedgerBalances` and
`RefundsWithinCharge`, `BookConsistent` and `TradesFair`, `MoneyKept` and `HistoriesAgree`.

## 4. The proofs

TLAPS checks every step, for all values of the constants. The assumptions are the ones
next to the constants: `NoSlug`, `BadEntry` and the names differ; caps, budget and
backoff are naturals, a second and a timeout are not zero (`NamesAssumption`,
`LimitsAssumption`, `AgentAssumption`, `MaxTestsAssumption`); the set of runs is finite
(`ReportsAssumption`); there is an archive, and the values for "none" are none
(`StampsAssumption`, `WorkersAssumption`, `FetchersAssumption`, `NoRunAssumption`);
malformed diagrams are diagrams, and the tabs of a challenge share none
(`CardsAssumption`, `AtlasAssumption`); every challenge has a README.md, a challenge with a
setup has private files, and one layer of encryption is counted at least
(`FilesAssumption`). An overview lists each of its nodes once, as `mermaidSource` demands
(`docs/atlas/graph.mjs:83`; `LayoutAssumption`). Of the inputs of the solutions it is assumed
what the README of the problem promises, as far as a proof uses it: a pattern of `anti` is
made of letters and question marks; the strings of `almost-equal` are as long as each other;
stamina and blow of `attack` are positive; the
neighbours of `fill-the-gaps` are naturals, different ones, and two at least; a grid of `find-snuke` has the word at one place;
the gifts and the tolerance are naturals; the rounds of `overall-winner` are won by one of the
two and there is one (`InputsAssumption`). Of the other solutions' inputs nothing is assumed.
Slugs, modules and `"layout"` are different entries
(`EntriesAssumption`). Of the commands of the reference modules it is assumed what their
clients and handlers demand before anything is stored: amounts, quantities, prices and
times are numbers, positive ones where the client throws otherwise; nobody funds the
clearing account; the amounts of the bank are integers of either sign, which is all its client
and topology demand; the names the models use for "nothing" (`nobody`, `none`) name no bidder
and no request; the readme of `bank-transfer-module` has a transfer id appended once
(`AuctionAssumption`, `TicketsAssumption`, `JobsAssumption`, `HotelAssumption`,
`PaymentsAssumption`, `BankAssumption`, `StockAssumption`). They are evaluated in every run
of the modules.

| Theorem | States | Rests on |
|---|---|---|
| `RunnerProofs!TypeCorrect` | `[]TypeOK` | `Shape`: types, and a subsystem is at hand whenever one is planned, validated or built |
| `RunnerProofs!OverrunBounded` | `[]BoundedOverrun` | `Clock`: a call starts while the budget lasts or after one backoff that began while it lasted, the longest of which is `Backoff * PhaseRetryCap`; a call adds at most what is left, or one second |
| `RunnerProofs!TranscriptsAreFresh` | `[]FreshTranscript` | `Fresh`: every name used so far is of an earlier stage, of a subsystem that is done, of a spent attempt, or of an earlier retry of the phase in flight |
| `RunnerProofs!FirstFailureEnds` | `[]StopsAtFirstFailure` | `Failures`: a run that has not ended has no failure among its results |
| `RunnerProofs!PlansAreAccepted` | `[]BuildsAcceptedPlans` | `Builds`: at the stage `build` the last result is the accepted plan |
| `RunnerProofs!PassMeansBuilt` | `[]PassIsEarned` | `Earned`: every planned subsystem is built later, or is the one in progress |
| `RunnerProofs!RejectionsAreCapped` | `[]PlanAllowance` | `Allowance`: attempt numbers are the plan rejections counted another way |
| `RunnerProofs!PipelineImplemented` | `Spec => ImplementsPipeline` | `Promised`: nothing is left to build at the review |
| `RunnerProofs!HeadlinesAreHonest`, `InfraIsUnscored`, `ZerosHaveEvidence` | `[]HeadlineHonest`, `[]InfraNeverBlamed`, `[]ZeroNeedsEvidence` | `GradedOnReturn`: a result map was made of a run that has returned, by one of the two ways to a headline, from the very results that are there |
| `RunnerProofs!RetriesAreTheRejections` | `Unprompted = {}` implies `[]RetriesAreRejections` | `Pairs`: of two neighbouring results of one subsystem, the first rejects exactly when the second is a further attempt of phase 1; `SentBack`: whether the stage in flight is one |
| `ReportsProofs!TypeCorrect`, `ArtifactsOwned` | `[]TypeOK`, `[]OwnArtifacts` | `Inv`: a run past its claim owns its name, one before it owns no file, and every name below the one it tries is taken |
| `ReportsProofs!ManifestsVouch` | `[]ManifestVouches` | `Vouched`: what the files of a name hold at each step of its owner |
| `ReportsProofs!WholeArtifactsStay` | `ArtifactsStay` | `Vouched`, as an action property |
| `FilesProofs!SolverSeesTheorem` | `[]SolverSees` | `Hiding`: of what is not to be seen, whatever is still plain is in the work list of the operation in hand; no assumption on kills before it, on commands by hand, or on what setups and teardowns do |
| `FilesProofs!RestoredTheorem` | `[]Restored` | `Intact`: without a kill every file is there once and whole |
| `FilesProofs!GradesPlaintextTheorem`, `NothingLostTheorem`, `SomeChallengeRunnableTheorem` | `[]GradesPlaintext`, `[]NothingLost`, `[]SomeChallengeRunnable` | `Recovery`: as long as nobody encrypts by hand, each file is there in one layer or none, a cut `.enc` beside its source (`Copies`), and what a kill left encrypted is in the work list of the next restore or has been passed by it (`Progress`) |
| `ReportsProofs!RecordsStayTogether` | `[]NeverInterleaved` | `Blocks`: a run appends only under the lock, and while it does its pieces are the last |
| `ReportsProofs!RunsRecorded` | `[]RunsAreRecorded` | `Counted`: the pieces of a run in the database are as many as it has written; `Owed`: what its artifacts hold up to the manifest and after the bundle; `Backed`: a run with a piece in the database has its whole report; `Unreported`: all there is of one that could not write it |
| `TransferProofs!UploadsArePairs` | `[]SuccessIsOnePair` | `Uploads`: what a worker's directory and the release hold at each of its steps, given that no step replaces an asset (`Kept`) |
| `TransferProofs!MergesArePairs` | `[]MergedIsReleasedPair` | `Uploads` and `Fetches`: whatever an import carries came out of the release |
| `TransferProofs!MergesAreWhole`, `FailuresLeaveNothing`, `SuccessesAreImported`, `ReplacedByForceOnly` | one fetcher implies `[]MergedIsWhole`, `[]FailedMergeLeavesNothing`, `[]SuccessIsImported`, `OnlyForceReplaces` | what is in `runs/`, aside and staged at each step of the one import |
| `AtlasProofs!CardsAreKept` | `[]NoCardForgotten` | `Kept`: a card without an outcome is untouched or in the hands of a call of its page; and the cards of the open tab have been asked for |
| `AtlasProofs!PageFollowsHash` | `[]PageAgrees` | `PageTypes` and what the last event handled left behind |
| `EntriesProofs!OverviewsLaidOut` | `[]LayoutSound` | `LayoutGood`: the columns are the authored ones with nodes exchanged, `position` says where each stands, `best` is their crossings and below the authored ones' once anything moved; what the sweep has passed without an improvement still is none |
| `EntriesProofs!OverviewsGetLaidOut` | `LayoutEnds` | `LayoutGood`, for the crossings and the position in the sweep to be naturals |
| `EntriesProofs!SolutionsAnswerRight` | `[](entry \in Answering => AnswersRight)`, for six of the ten solutions | one invariant for each: `AlmostGood`, `AttackGood`, `GapsGood`, `SnukeGood`, `GiftGood`, `WinnerGood` |
| `StockProofs!NothingUndrawn` | `PathsAreDrawn` | `WalksInv`: where an entry is can be read; `AntiGood`: a letter that `anti` looks at is one of its pattern; of the stock exchange `StockInv` |
| `BookingProofs!AllottedOnce` | `[]NothingTwice` | one invariant for each of four modules: `TicketInv`, `HotelInv`, `JobInv`, `AuctionInv` |
| `StockProofs!NothingMadeNorLost` | `[]BooksBalance` | one invariant for each of the other three: `PayInv`, `StockInv`, `BankInv` |

Each follows the same argument: `Init` implies the strengthened invariant, every action
preserves it, and it implies the property. The strengthening is needed because most
properties speak of what has been recorded and not of what will be recorded next.
`PlanAllowance`, for example, bounds the attempt numbers in the results; from a state
whose results are fine but whose counters have run ahead, the next result breaks it.
`Allowance` adds that `majorFails` is within the cap and that the attempt numbers of
phases 1 and 2 are that count plus one or two, depending on the stage.

The history proofs share one reading of `Next` (lemma `Steps`): a step records nothing,
or records a failure and ends, or records a completed phase and moves along one of seven
edges of the pipeline. `PipelineImplemented` goes through the actions themselves.
`RetriesAreTheRejections` adds a bijection, from the pairs of neighbours that the code
counts to the rejected plans, and takes their cardinalities from the library's theorems.
It needs `Unprompted = {}`: an agent that owes no verdict and quotes one changes the count.

`NameLeft` in `ReportsProofs` is a combinatorial argument. The model has only as
many names as runs; that no run ever looks for one more is a pigeonhole: the names a run
has found taken are claimed by as many different other runs.

Of the six theorems about transfers, two hold for any number of workers and fetchers. The
other four assume one importing process at a time (`ASSUME NEW f, Fetchers = {f}`), for
any number of imports, kills and `--force`: with two of them the statements are false, as
`import_race` shows for one.

The reference modules are proved for any set of commands, sent in any order and any number
of times, from any number of clients:

- *Ticketing*: the seats of a hold that is kept are marked with it (`Marked`), and what a
  confirmation has decided stays settled (`Confirmations`). A hold that ran out keeps its
  record but not its seats; without `Marked` nothing keeps its late confirmation away from
  those that hold them now.
- *Hotel*: what is free in a night and what the bookings that cover it have sum up to its
  capacity (`Inventory`); the event of a booking carries what the booking has (`Journal`).
- *Scheduler*: claims are granted in numbered order, a lease is the last one granted for
  its node, and a node succeeded by a completion that carried that number (`JobGrants`,
  `JobLeases`, `Fenced`).
- *Auction*: what the expiration has read (the top bid, then the bidders told so far) is
  kept with it to its end, whatever the stream of bids does meanwhile (`Expiry`).
- *Bank*: the money in accounts and the transfers on their way add up to the deposits
  (`Money`), and an account below zero was credited a negative amount (`Overdrafts`); both histories of a transfer agree, and until its second half has run the
  recipient's has no entry under its key (`Histories`).
- *Payments*: the balance of an account is the sum of what the journal posted to it
  (`Kept`), a request has one row if it was accepted and moves money and none otherwise
  (`PostedOnce`), and the refunds of a charge, summed over their request ids, are what it says was
  refunded (`Charges`).
- *Stock exchange*: a submission trades in a loop. `ExchangeGood` (the counts of each
  order, the levels and queues of each price, and the priority of each trade that was made)
  holds after every turn of it, if the order that is taking is taken for cancelled as far
  as it is not filled. Each trade uses up the maker or the taker, so the loop ends within
  as many turns as there are orders; what it leaves is put into the book or cancelled.

`NothingUndrawn` compares code with pages, for inputs and commands of any size. For the
ten solutions every disjunct of a step goes to a node that one of the arrows leads to; the
only one that could get lost is `anti`, were its pattern to hold anything but letters. A
command's walk is put together from parts: the way to its handler, its checks up to the
first that fails, and what follows. `ChecksWalk` shows of any number of checks that they
make a walk if they are drawn one after the other and each has an arrow to the refusal;
`WalkThrough` joins the parts. The stock exchange goes around a loop of the diagram as
often as it trades, which is another induction over the turns of `Matched`. That a path in
the data is a path of the diagram comes down to the rows a diagram is written in:
`Concat` is shown to hold what the rows hold, by induction over their number, and the arrows the walks need are looked up in each of the 27 diagrams.

`OverviewsLaidOut` holds for overviews of any size. That an exchange permutes the columns
needs that a node stands in one place (`Located`); the crossings after an exchange are
those of the positions with the two nodes exchanged, which is what the next comparison
starts from; and a sweep without an improvement leaves the columns as they were when each of
its pairs was tried, so none of them would help at the end.

The sums are those of the model (`SumOver`, a fold over a set in an order left open). That
one more summand makes the sum greater by that summand, and a changed one by the
difference, is proved from the recursion the fold is defined by: by induction over the
size of the set, which is an instance of the well-foundedness of the naturals (`WFMin` of
the library; the induction theorems themselves cannot be used with the provers at hand).
In the same way the recursive function in `Matched` is shown to have a value, and to be
what its turns make of one another.

`SolutionsAnswerRight` is about inputs of any size too, and each of its invariants is the
argument one would give for the loop:

- *almost-equal* keeps the frames it has still to extend on a stack. A frame is the start of
  a row of strings each one character from the next, and of every whole row some start is
  still on the stack or in hand (`Pending`), until the run has said yes. So an empty stack
  means that there is no row.
- *attack* rounds up with `(a + b - 1) \div b`: that many blows are enough and one fewer is not.
- *fill-the-gaps* puts numbers after one another; the problem fills the first gap of a
  sequence until there is none. What has been put and what is left of the input are together
  the sequence after as many gaps as the pairs that had one (`Filled`), and within a pair the
  numbers to come are between them. At the end nothing is left and there is no gap
  (`Smooth`), so filling again changes nothing.
- *find-snuke* goes through cells and directions; what it has matched are letters of the word
  along one line, so a full match is a spelling, and the problem promises only one.
- *impartial-gift* searches the sorted gifts by halves. Everything left of the range is not
  above `a + D` and everything right of it is, so at the end the index before it has the
  greatest candidate. If that one is too small so are all others; and the best sum so far is
  the best of the gifts of A that have been tried. That `Sorted` holds what the list holds,
  in order, is proved from the sizes of the sets it is defined by.
- *overall-winner* counts the wins as it scans; the first of the two to reach its total is the
  one whose last win comes earlier.

Only model-checked, of safety: `AnswersRight` of the other four (`anti`, `atcoder-cards`,
`bitmask`, `pac`): what they compute and what they are compared with are sums,
powers of two, sets of candidates or repetitions that grow with the input, and each would be an
induction over data of its own. Liveness,
which needs fairness and `ENABLED`, is beyond the installed provers: `Terminates`,
`ProcessesEnd`, `RunsEnd` and `Settles` are TLC's.

## 5. Where the code and its documentation disagree

- **`hard_cap`.** `*overall-timeout-s*` is called a hard cap on a run's wall-clock
  (`scripts/run_challenges.bb:603`). A call that starts with less than a second left
  gets a whole one, and a backoff is slept without regard to the budget. What does hold
  is `BoundedOverrun`.
- **`explicit_fail`.** `docs/outcome-taxonomy.md:80` says that an explicit FAIL on an
  infrastructure retry remains a solver failure. `infrastructure-failure` (`:2299`)
  never looks at the verdict: if the retry also exits non-zero with a provider or
  memory error in its text, the run counts as a provider or host failure.
- **`files_lanes`.** `run-lanes.sh:84` advises `bb decrypt-challenges` for a worktree
  that a killed run left changed. It decrypts only protected files; `README.md` and
  the rest of the other challenges stay encrypted.
- **`atlas_expand`.** `renderGraphs` lists the cards it will draw before its first await
  (`docs/atlas/diagrams.mjs:52`) and marks each one only when its turn comes. If the tab
  is left and opened again in between, a second call lists the later cards, too; each of
  them gets its button handlers twice, and one click on Expand toggles twice.
  `browser-check.mjs:76` expects the card expanded after one click.
- **`import_race`.** `import_bundle` checks `--force` before it stages, and replaces
  whatever is there afterwards. Two plain imports at once both pass the check, and
  the later one replaces the earlier.

Seen while reading and not kept as runs: a catalogue shown under a hash that names no
challenge is not rendered again by a search or a filter, which only look for an empty
hash (`docs/atlas/app.js`; `PageAgrees` says what does hold); a search typed before the
files have come throws in `renderHome`; a Mermaid that failed to load is not asked for
again; a bid replaces the bidder's own amount even by a lower one, where the protocol of
`auction-module` says that it only updates to a higher one (the atlas' scenario says so,
too); a transfer of a negative amount succeeds and takes from its recipient
(`bank-transfer-module`; `MoneyKept` says so); a `teardown.sh` that fails is a warning, or in the
catch block nothing (`scripts/run_challenges.bb:3044`, `:3058`); a report that cannot be written
costs the run its records (`:3342`), where a failed log, manifest or bundle does not (`:3571`);
`encrypt-challenge-fully!` encrypts generated
build directories that its docstring excludes (`scripts/encrypt_challenges.bb:202`);
`bb encrypt-challenges` given twice encrypts helpers twice (`:168`; the model does so,
too); a passing suite whose output mentions the out-of-memory text is `:unavailable`
(`scripts/run_challenges.bb:911`, `docs/outcome-taxonomy.md:26`).

## 6. What is left out

Of the modelled components:

- *PhaseLoop*: prompts, the contents of transcripts, cost and token accounting, and the
  time taken by everything that is not an agent or a backoff (`save-attempt.sh`,
  decryption, the private suite, which runs outside the budget). A process that ends
  with 143 goes the way of 130. After a timeout `invoke-command!` kills the process
  tree it sees and waits for the output streams without a bound (`:842`); the model
  takes it to return, and the hazard is listed without a property.
- *Grading*: the suite's output but for what the classification looks for; the counts
  are bounded by 1, which is enough to tell the rows of the table apart.
- *ChallengeFiles*: ciphers and keys (an `.enc` file decrypts unless it is cut short),
  file modes, dot files, I/O errors without a kill. `NothingLost` excepts files whose
  plaintext a kill cut short, because the code loses those: the next full encryption
  takes the stump for the file and writes it over the good `.enc`. It also excepts
  behaviours with commands: a kill inside the second of two `bb encrypt-challenges` can cost a
  helper, too. One process at a time, as the lanes' worktrees and the script's use of
  one directory have it.
- *Reports*: contents; a disk that is full for some writes is `cut`. A run that is killed or fails
  in the middle of its append may leave part of a record, without a newline, to which the next run's first record is
  glued; `NeverInterleaved` is about writes and does not call that wrong.
- *Archives*: the checks on an output directory before anything is packed. A worker has
  a directory of its own and runs one process at a time. With two processes on one
  directory the code can upload parts of different pairs (listed as a hazard). Linking an archive and
  noting it as written are one step (`WritePart`), and Ctrl-C inside the clean-up (`Clean`) is
  not modelled: either leaves an archive behind, as a `Kill` at that point does.
- *Imports*: the checks on names, members and hashes, which hold for archives that
  `write_archives` wrote. An import with `--force` killed between its two renames
  leaves no run; the next fetch imports it afresh, so no property forbids it.
- *Atlas*: texts, links, one-pagers, zoom, pan and download; the order of the cards in a
  panel (a call takes them in any order). `serve_atlas.py` and the checks that compare
  the data with files on disk have no state.
- *Atlas data*: labels, notes and source links. All overviews are modelled; of the
  scenarios, those of the ten solutions and seven modules. A scenario is worth
  modelling only beside the code it draws.
- *Reference solutions*: parsing and printing, and the solutions of the LiveCodeBench
  challenges.
- *Reference modules*: reads, and the argument checks of the client functions. One key
  each but for the bank's users: the keys share nothing. Amounts and balances are integers and not Java's longs, so an
  overflow of a balance is not modelled. Rama is not in the repository; what is assumed of it is
  that a microbatch applies its commands exactly once and in their order, that a stream
  event is handled whole on its task, that writes of a microbatch appear together, and
  for the auction that its timer fires once. A replay in the models is a client's, under
  its request id.

Components without a module: agent invocation and transcript accounting (text
processing of one call), the solver's isolation (rules on file names, with no state to
interleave), snapshots, containers and setup scripts, LiveCodeBench porting, the grader
evaluation, the skill, and the recovery of old runs. The launcher, the proxy, the Q&A
runner and the other reference modules would come next.

## 7. Plan

Done: the pipeline and its grading, the files, the artifacts, the transfer, the atlas,
and the reference code the atlas draws that has state or loops worth the comparison. In
order of what the system promises to its users, what is left is:

1. **Streams, mirrors and timers** (`fanout`, the rate limiter, then the other
   `hld-*` modules): what a stream that is retried writes twice. The runtime's promises,
   which `BankTransfer` and `Auction` each state for themselves now, go into one external
   module that all of them share.
2. **Orchestration**: the gates of `orb_run.py` over `Reports`' manifests and `Archives`;
   the relays of `solver_proxy.py`; the files that `run_qa.bb` finds from earlier runs.
3. **Proofs**: of `AnswersRight`, the four solutions that are left; every other safety
   property of a run is a theorem.

The set of runs is kept small: a question that a theorem has settled for all values, or
that a deeper property implies, makes room for one about a new module.
