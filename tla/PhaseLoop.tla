----------------------------- MODULE PhaseLoop -----------------------------
(***************************************************************************)
(* phase-loop!, run-subsystem-phases!, run-full-spec-review! and           *)
(* run-phase! of scripts/run_challenges.bb: one challenge taken through    *)
(*                                                                         *)
(*   phase 0 -> decompose -> (plan -> plan-validate -> build) per          *)
(*   subsystem -> full-spec-review                                         *)
(*                                                                         *)
(* with one infrastructure retry inside a phase, a capped number of plan   *)
(* rejections, and one wall-clock budget for all of it.                    *)
(*                                                                         *)
(* Time is counted in ticks, Tick of them to a second: the budget is       *)
(* compared in fractions of a second but the per-call timeout is cut from  *)
(* it in whole seconds.  Only agent invocations and the retry backoff take *)
(* time.                                                                   *)
(***************************************************************************)
EXTENDS Integers, Sequences

CONSTANTS
  Names,              \* subsystem names an agent may write
  NoSlug,             \* the nil slug of a single-subsystem run
  BadEntry,           \* an entry of DECOMPOSITION.json that is not well formed
  MaxEntries,         \* bound on the entries of DECOMPOSITION.json
  ValidationRetryCap, \* validation-retry-cap
  PhaseRetryCap,      \* *phase-retry-cap*
  Tick,               \* ticks to a second
  Budget,             \* *overall-timeout-s*, in ticks
  OuterTimeout,       \* *outer-timeout-s*, in seconds
  Backoff,            \* *phase-retry-backoff-ms*, in ticks
  ErrorTexts,         \* which error patterns an agent's error text may match
  Unprompted          \* verdicts quoted in the output of a stage that owes none

ASSUME NamesAssumption ==
  /\ NoSlug \notin Names
  /\ BadEntry \notin Names
  /\ NoSlug # BadEntry

ASSUME LimitsAssumption ==
  /\ MaxEntries \in Nat
  /\ ValidationRetryCap \in Nat
  /\ PhaseRetryCap \in Nat
  /\ Tick \in Nat \ {0}
  /\ Budget \in Nat
  /\ OuterTimeout \in Nat \ {0}
  /\ Backoff \in Nat

Patterns == {"quota", "oom", "transient"}
Verdicts == {"pass", "fail", "minor-fail", "major-fail", "none"}

ASSUME AgentAssumption ==
  /\ ErrorTexts \subseteq SUBSET Patterns
  /\ Unprompted \subseteq Verdicts \ {"none"}

-----------------------------------------------------------------------------
VARIABLES
  stage,       \* the phase-id about to run, running, or last run
  pc,          \* where in run-phase! or between phases the runner is
  subsystems,  \* the slugs left to build, the current one first
  attempts,    \* next attempt number of phases 1, 2 and build, per subsystem
  majorFails,  \* plan-major-fails of the current subsystem
  tries,       \* infrastructure retries of the phase in flight
  call,        \* what the last invoke-command! returned
  elapsed,     \* ticks since run-start-millis
  results,     \* :phase-results
  transcripts, \* names under ../transcripts written by this run
  snapshots,   \* files under implementations/<name>/attempts
  status       \* :status of the run, "running" until phase-loop! returns

vars == <<stage, pc, subsystems, attempts, majorFails, tries, call, elapsed,
          results, transcripts, snapshots, status>>

CountedPhases == {"1", "2", "build"}
Stages == CountedPhases \cup {"0", "decompose", "full-spec-review"}
Slugs == Names \cup {NoSlug}
ExitCodes == {0, 1, 130, 137}

Calls == [exit : ExitCodes, isError : BOOLEAN, timedOut : BOOLEAN,
          errors : SUBSET Patterns, verdict : Verdicts]

FailureKinds == {"none", "infra-error", "quota-or-provider-limit"}

PhaseResults == [phase : Stages, attempt : Nat, subsystem : Slugs, tries : Nat,
                 exit : ExitCodes, timedOut : BOOLEAN, verdict : Verdicts,
                 failure : FailureKinds, stopped : BOOLEAN]

TranscriptNames == Stages \X Nat \X Slugs \X Nat

NotCalled == [exit |-> 0, isError |-> FALSE, timedOut |-> FALSE, errors |-> {},
              verdict |-> "none"]

(* Mutation: the map of attempts has no entry for the build.               *)
AttemptsOfPlans == [p \in {"1", "2"} |-> 1]

FreshAttempts == [p \in CountedPhases |-> 1]

-----------------------------------------------------------------------------
(* read-decomposition: the names in file order, or none (nil) unless the   *)
(* file is a non-empty array of well-formed entries with distinct names.   *)
Files == [array : BOOLEAN,
          entries : UNION {[1..n -> Names \cup {BadEntry}] : n \in 0..MaxEntries}]

IsDistinct(s) == \A i, j \in DOMAIN s : s[i] = s[j] => i = j

(* Mutation: two subsystems may share a name.                              *)
ReadDecompositionKeepingDuplicates(file) ==
  IF /\ file.array
     /\ file.entries # <<>>
     /\ \A i \in DOMAIN file.entries : file.entries[i] # BadEntry
  THEN file.entries
  ELSE <<>>

ReadDecomposition(file) ==
  IF /\ file.array
     /\ file.entries # <<>>
     /\ \A i \in DOMAIN file.entries : file.entries[i] # BadEntry
     /\ IsDistinct(file.entries)
  THEN file.entries
  ELSE <<>>

SlugsOf(names) == IF Len(names) > 1 THEN names ELSE <<NoSlug>>

-----------------------------------------------------------------------------
(* The clock.                                                              *)
Least(a, b) == IF a <= b THEN a ELSE b
Most(a, b)  == IF a >= b THEN a ELSE b

TimeRemaining == Most(0, Budget - elapsed)

(* Mutation: the per-call timeout forgets the budget.                      *)
UnclampedTimeout == OuterTimeout

CallTimeout   == Least(OuterTimeout, Most(1, TimeRemaining \div Tick))

(* A phase of a subsystem carries its slug and a counted attempt; the      *)
(* stages around the subsystems run once with no slug.                     *)
InSubsystem == stage \in CountedPhases
Slug        == IF InSubsystem THEN subsystems[1] ELSE NoSlug
Attempt     == IF InSubsystem THEN attempts[stage] ELSE 1

Owes(s) == s \in {"2", "build", "full-spec-review"}
MayEmit(s) == IF Owes(s) THEN Verdicts ELSE Unprompted \cup {"none"}

(* What the agent process may come back with.  A process killed by the     *)
(* runner is reported with exit 1.                                         *)
Outcomes(s) ==
  {c \in [exit : ExitCodes, isError : BOOLEAN, timedOut : BOOLEAN,
          errors : ErrorTexts, verdict : MayEmit(s)] : c.timedOut => c.exit = 1}

(* infrastructure-failure: patterns are tried in this order.               *)
InfrastructureFailure(c) ==
  IF c.timedOut \/ c.exit = 130 \/ (c.exit = 0 /\ ~c.isError) THEN "none"
  ELSE IF "quota" \in c.errors THEN "quota-or-provider-limit"
  ELSE IF c.exit = 137 \/ "oom" \in c.errors THEN "infra-error"
  ELSE IF "transient" \in c.errors THEN "quota-or-provider-limit"
  ELSE "none"

Retryable == /\ InfrastructureFailure(call) # "none"
             /\ "quota" \notin call.errors
             /\ tries < PhaseRetryCap
             /\ TimeRemaining > 0

(* Mutation: a CLI that exits 0 on an error result is taken at its word.   *)
RawExit(c) == c.exit

FinalExit(c) == IF c.exit = 0 /\ c.isError THEN 1 ELSE c.exit

(* A failed retry that left no verdict is an interrupted phase.            *)
SettledFailure(c) ==
  IF /\ tries > 0
     /\ FinalExit(c) # 0
     /\ ~c.timedOut
     /\ c.exit # 130
     /\ c.verdict = "none"
     /\ InfrastructureFailure(c) = "none"
  THEN "infra-error"
  ELSE InfrastructureFailure(c)

(* The map run-phase! returns.                                             *)
PhaseResult ==
  [phase |-> stage, attempt |-> Attempt, subsystem |-> Slug, tries |-> tries,
   exit |-> FinalExit(call), timedOut |-> call.timedOut,
   verdict |-> call.verdict, failure |-> SettledFailure(call),
   stopped |-> ~call.timedOut /\ call.exit = 130]

-----------------------------------------------------------------------------
Init ==
  /\ stage = "0"
  /\ pc = "stage"
  /\ subsystems = <<>>
  /\ attempts = FreshAttempts
  /\ majorFails = 0
  /\ tries = 0
  /\ call = NotCalled
  /\ elapsed = 0
  /\ results = <<>>
  /\ transcripts = {}
  /\ snapshots = 0
  /\ status = "running"

(* budget-exceeded, and the same check at the head of the subsystem loop   *)
(* and of the review.                                                      *)
ExceedBudget ==
  /\ pc = "stage"
  /\ TimeRemaining <= 0
  /\ pc' = "done"
  /\ status' = "timeout"
  /\ UNCHANGED <<stage, subsystems, attempts, majorFails, tries, call, elapsed,
                 results, transcripts, snapshots>>

StartPhase ==
  /\ pc = "stage"
  /\ TimeRemaining > 0
  /\ pc' = "invoke"
  /\ UNCHANGED <<stage, subsystems, attempts, majorFails, tries, call, elapsed,
                 results, transcripts, snapshots, status>>

(* One pass of run-phase!'s loop: run the agent under the clamped timeout  *)
(* and save what it printed.                                               *)
Invoke ==
  /\ pc = "invoke"
  /\ call' \in Outcomes(stage)
  /\ \E d \in 0..(CallTimeout * Tick) :
       /\ call'.timedOut => d = CallTimeout * Tick
       /\ elapsed' = elapsed + d
  /\ transcripts' = transcripts \cup {<<stage, Attempt, Slug, tries>>}
  /\ pc' = "returned"
  /\ UNCHANGED <<stage, subsystems, attempts, majorFails, tries, results,
                 snapshots, status>>

RetryPhase ==
  /\ pc = "returned"
  /\ Retryable
  /\ elapsed' = elapsed + Backoff * (tries + 1)
  /\ tries' = tries + 1
  /\ pc' = "invoke"
  /\ UNCHANGED <<stage, subsystems, attempts, majorFails, call, results,
                 transcripts, snapshots, status>>

(* run-phase! returns: its locals go, its result is recorded and the        *)
(* attempt is spent.                                                       *)
LeaveRunPhase ==
  /\ tries' = 0
  /\ call' = NotCalled
  /\ UNCHANGED <<elapsed, transcripts>>

Settle ==
  /\ pc = "returned"
  /\ ~Retryable
  /\ results' = Append(results, PhaseResult)
  /\ attempts' = IF InSubsystem THEN [attempts EXCEPT ![stage] = @ + 1]
                                ELSE attempts
  /\ LeaveRunPhase

Completed == ~call.timedOut /\ FinalExit(call) = 0

GoTo(s) == /\ stage' = s
           /\ pc' = "stage"
           /\ status' = status

Return(s) == /\ status' = s
             /\ pc' = "done"
             /\ stage' = stage

(* stage-failure, and the first two branches of the other two loops.       *)
StageFails ==
  /\ Settle
  /\ ~Completed
  /\ Return(IF call.timedOut THEN "timeout" ELSE "fail")
  /\ UNCHANGED <<subsystems, majorFails, snapshots>>

FinishImplicitSpec ==
  /\ stage = "0"
  /\ Settle
  /\ Completed
  /\ GoTo("decompose")
  /\ UNCHANGED <<subsystems, majorFails, snapshots>>

FinishDecompose ==
  /\ stage = "decompose"
  /\ Settle
  /\ Completed
  /\ \E file \in Files : subsystems' = SlugsOf(ReadDecomposition(file))
  /\ GoTo("1")
  /\ UNCHANGED <<majorFails, snapshots>>

FinishPlan ==
  /\ stage = "1"
  /\ Settle
  /\ Completed
  /\ GoTo("2")
  /\ UNCHANGED <<subsystems, majorFails, snapshots>>

(* Mutation: any verdict but an outright fail lets the plan through.       *)
AcceptUnlessFailed ==
  /\ stage = "2"
  /\ Settle
  /\ Completed
  /\ call.verdict # "fail"
  /\ GoTo("build")
  /\ UNCHANGED <<subsystems, majorFails, snapshots>>

AcceptPlan ==
  /\ stage = "2"
  /\ Settle
  /\ Completed
  /\ call.verdict \in {"pass", "minor-fail"}
  /\ GoTo("build")
  /\ UNCHANGED <<subsystems, majorFails, snapshots>>

(* save-attempt! may find no implementation to copy; nobody looks.         *)
SendBackPlan ==
  /\ stage = "2"
  /\ Settle
  /\ Completed
  /\ call.verdict = "major-fail"
  /\ majorFails < ValidationRetryCap
  /\ majorFails' = majorFails + 1
  /\ \E copied \in {0, 1} : snapshots' = snapshots + copied
  /\ GoTo("1")
  /\ UNCHANGED subsystems

(* Mutation: a validation that forgets its verdict line has no branch.     *)
RejectOnVerdictOnly ==
  /\ stage = "2"
  /\ Settle
  /\ Completed
  /\ \/ call.verdict = "major-fail" /\ majorFails >= ValidationRetryCap
     \/ call.verdict = "fail"
  /\ Return("fail")
  /\ UNCHANGED <<subsystems, majorFails, snapshots>>

RejectPlan ==
  /\ stage = "2"
  /\ Settle
  /\ Completed
  /\ \/ call.verdict = "major-fail" /\ majorFails >= ValidationRetryCap
     \/ call.verdict \in {"fail", "none"}
  /\ Return("fail")
  /\ UNCHANGED <<subsystems, majorFails, snapshots>>

(* Mutation: plan rejections accumulate over the subsystems.               *)
PassBuildKeepingRejections ==
  /\ stage = "build"
  /\ pc = "returned"
  /\ ~Retryable
  /\ results' = Append(results, PhaseResult)
  /\ Completed
  /\ call.verdict = "pass"
  /\ subsystems' = Tail(subsystems)
  /\ attempts' = FreshAttempts
  /\ GoTo(IF Len(subsystems) = 1 THEN "full-spec-review" ELSE "1")
  /\ LeaveRunPhase
  /\ UNCHANGED <<majorFails, snapshots>>

(* Mutation: the first build that passes sends the whole run to review.    *)
PassBuildSkippingRest ==
  /\ stage = "build"
  /\ pc = "returned"
  /\ ~Retryable
  /\ results' = Append(results, PhaseResult)
  /\ Completed
  /\ call.verdict = "pass"
  /\ subsystems' = Tail(subsystems)
  /\ attempts' = FreshAttempts
  /\ majorFails' = 0
  /\ GoTo("full-spec-review")
  /\ LeaveRunPhase
  /\ UNCHANGED snapshots

(* The next subsystem starts with fresh attempts and a fresh count of      *)
(* plan rejections; after the last one comes the review.                   *)
PassBuild ==
  /\ stage = "build"
  /\ pc = "returned"
  /\ ~Retryable
  /\ results' = Append(results, PhaseResult)
  /\ Completed
  /\ call.verdict = "pass"
  /\ subsystems' = Tail(subsystems)
  /\ attempts' = FreshAttempts
  /\ majorFails' = 0
  /\ GoTo(IF Len(subsystems) = 1 THEN "full-spec-review" ELSE "1")
  /\ LeaveRunPhase
  /\ UNCHANGED snapshots

FailBuild ==
  /\ stage = "build"
  /\ Settle
  /\ Completed
  /\ call.verdict # "pass"
  /\ Return("fail")
  /\ UNCHANGED <<subsystems, majorFails, snapshots>>

(* Mutation: a review that ran to its end counts as passed.                *)
FinishReviewUnread ==
  /\ stage = "full-spec-review"
  /\ Settle
  /\ Completed
  /\ Return("pass")
  /\ UNCHANGED <<subsystems, majorFails, snapshots>>

FinishReview ==
  /\ stage = "full-spec-review"
  /\ Settle
  /\ Completed
  /\ Return(IF call.verdict = "pass" THEN "pass" ELSE "fail")
  /\ UNCHANGED <<subsystems, majorFails, snapshots>>

Next ==
  \/ ExceedBudget
  \/ StartPhase
  \/ Invoke
  \/ RetryPhase
  \/ StageFails
  \/ FinishImplicitSpec
  \/ FinishDecompose
  \/ FinishPlan
  \/ AcceptPlan
  \/ SendBackPlan
  \/ RejectPlan
  \/ PassBuild
  \/ FailBuild
  \/ FinishReview

Spec == Init /\ [][Next]_vars

(* The runner is one thread that never waits except on a process it bounds *)
(* by a timeout, so it keeps stepping.                                     *)
FairSpec == Spec /\ WF_vars(Next)

-----------------------------------------------------------------------------
TypeOK ==
  /\ stage \in Stages
  /\ pc \in {"stage", "invoke", "returned", "done"}
  /\ subsystems \in Seq(Slugs)
  /\ attempts \in [CountedPhases -> Nat]
  /\ majorFails \in Nat
  /\ tries \in 0..PhaseRetryCap
  /\ call \in Calls
  /\ elapsed \in Nat
  /\ results \in Seq(PhaseResults)
  /\ transcripts \subseteq TranscriptNames
  /\ snapshots \in Nat
  /\ status \in {"running", "pass", "fail", "timeout"}

LastResult == results[Len(results)]

(* How far past its budget a run can go: a phase that began in time may    *)
(* still sleep through the last backoff and then run for the one second    *)
(* every call is allowed (run-phase!, the `max 1 remaining` clamp and the  *)
(* unclamped Thread/sleep).                                                *)
BoundedOverrun == elapsed < Budget + Backoff * PhaseRetryCap + Tick

(* The docstring of *overall-timeout-s*: a hard cap on the wall-clock of   *)
(* one challenge run, phase invocations and retries included.              *)
HardCap == elapsed <= Budget

(* The run ends at the first phase that times out, exits non-zero, meets   *)
(* an infrastructure failure or is stopped by the user, and never passes   *)
(* after one: what classify-completion rests on when it looks at the last  *)
(* result alone.                                                           *)
StopsAtFirstFailure ==
  \A i \in DOMAIN results :
    (i < Len(results) \/ pc # "done" \/ status = "pass") =>
      /\ results[i].exit = 0
      /\ ~results[i].timedOut
      /\ results[i].failure = "none"
      /\ ~results[i].stopped

(* A build is only ever started on the plan that phase 2 has just accepted *)
(* for the same subsystem, and nothing is planned or reviewed on top of a  *)
(* build that did not pass.                                                *)
BuildsAcceptedPlans ==
  \A i \in DOMAIN results :
    /\ results[i].phase = "build" =>
         /\ i > 1
         /\ results[i - 1].phase = "2"
         /\ results[i - 1].subsystem = results[i].subsystem
         /\ results[i - 1].verdict \in {"pass", "minor-fail"}
    /\ (results[i].phase = "build" /\ i < Len(results)) =>
         results[i].verdict = "pass"

(* A pass means the full-spec review passed last, and every subsystem that *)
(* was planned was built to a pass.                                        *)
PassIsEarned ==
  status = "pass" =>
    /\ LastResult.phase = "full-spec-review"
    /\ LastResult.verdict = "pass"
    /\ \A i \in DOMAIN results : results[i].phase = "1" =>
         \E j \in DOMAIN results :
           /\ j > i
           /\ results[j].phase = "build"
           /\ results[j].subsystem = results[i].subsystem
           /\ results[j].verdict = "pass"

(* Every subsystem has the whole allowance of plan rejections to itself:   *)
(* no plan is validated more than the cap allows, and a run is only failed *)
(* for repeated rejections once its subsystem used the allowance up.       *)
PlanAllowance ==
  /\ \A i \in DOMAIN results :
       results[i].phase \in {"1", "2"} =>
         results[i].attempt <= ValidationRetryCap + 1
  /\ \A i \in DOMAIN results :
       /\ pc = "done"
       /\ i = Len(results)
       /\ status = "fail"
       /\ results[i].phase = "2"
       /\ results[i].exit = 0
       /\ results[i].verdict = "major-fail"
       => results[i].attempt = ValidationRetryCap + 1

(* save-transcript! overwrites a file of the same name; no invocation of a *)
(* run, a retry or a later subsystem included, writes over another's.      *)
FreshTranscript ==
  pc = "invoke" => <<stage, Attempt, Slug, tries>> \notin transcripts

(* Abstract promise: the run is a Pipeline whose stages are the runner's.  *)
P == INSTANCE Pipeline WITH todo <- subsystems, rejected <- majorFails,
                            Cap <- ValidationRetryCap

(* phase-loop!'s docstring: the stages, their order and the caps.          *)
ImplementsPipeline == P!Spec

(* phase-loop! returns.                                                    *)
Terminates == <>(pc = "done")
=============================================================================
