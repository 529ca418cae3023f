------------------------------ MODULE Grading ------------------------------
(***************************************************************************)
(* The second half of run-challenge: the phases are over, the private      *)
(* files are back in place, and the challenge is graded.  The private      *)
(* suite runs unless the solver run ended in a way that says nothing about *)
(* the solver; the headline outcome, the semantic retries and the score    *)
(* follow from its verdict and from the phase results.                     *)
(***************************************************************************)
EXTENDS PhaseLoop, Outcome

CONSTANT MaxTests  \* bound on the counts a private suite reports

ASSUME MaxTestsAssumption == MaxTests \in Nat

VARIABLES
  suite,          \* whether the challenge has a test-private/ directory
  implementation, \* whether find-impl-files finds any
  private,        \* the suite's output, once it was started
  grade           \* the result map, once the challenge is graded

gradingVars == <<vars, suite, implementation, private, grade>>

NotStarted == [started |-> FALSE]
Ungraded   == [graded |-> FALSE]

PossibleSuites == {r \in Suites(MaxTests) : PossibleSuite(r)}

Completion == ClassifyCompletion(status, results)

(* Mutation: a provider limit no longer keeps the suite from running.      *)
StartsSuiteOnLimits == suite /\ Completion \notin {"timeout", "infra-error"}

(* When private-result is not nil.                                         *)
StartsSuite ==
  suite /\ Completion \notin {"timeout", "infra-error", "quota-or-provider-limit"}

(* The fields of the result map that the report and the score rest on.     *)
Result(verdict) ==
  LET outcome == ClassifyOutcome(Completion, verdict.status, implementation)
      retries == CountSemanticRetries(results)
  IN  [graded |-> TRUE, completion |-> Completion, private |-> verdict.status,
       sentinel |-> verdict.sentinel, outcome |-> outcome,
       retries |-> retries, score |-> ComputeScore(outcome, retries)]

-----------------------------------------------------------------------------
GradingInit ==
  /\ Init
  /\ suite \in BOOLEAN
  /\ implementation = FALSE
  /\ private = NotStarted
  /\ grade = Ungraded

(* phase-loop!: what the agents leave under implementations/ shows at its  *)
(* end.                                                                    *)
Solve ==
  /\ Next
  /\ implementation' \in IF pc' = "done" THEN BOOLEAN ELSE {implementation}
  /\ UNCHANGED <<suite, private, grade>>

GradeWithSuite ==
  /\ pc = "done"
  /\ grade = Ungraded
  /\ StartsSuite
  /\ \E r \in PossibleSuites :
       /\ private' = [started |-> TRUE, run |-> r]
       /\ grade' = Result(ClassifyPrivateResult(suite, TRUE, r))
  /\ UNCHANGED <<vars, suite, implementation>>

GradeWithoutSuite ==
  /\ pc = "done"
  /\ grade = Ungraded
  /\ ~StartsSuite
  /\ grade' = Result(IF suite THEN Verdict("not-run", "no-sentinel")
                              ELSE Verdict("none", "no-sentinel"))
  /\ UNCHANGED <<vars, suite, implementation, private>>

GradingNext == Solve \/ GradeWithSuite \/ GradeWithoutSuite

GradingSpec == GradingInit /\ [][GradingNext]_gradingVars

-----------------------------------------------------------------------------
Graded == grade # Ungraded

Clean(r) == ~r.timedOut /\ r.exit = 0 /\ r.tests > 0 /\ Bad(r) = 0

(* A positive score needs the correctness signal itself: a private suite   *)
(* that ran tests and reported nothing bad or, where there is none, phases *)
(* that all passed, the full-spec review last.  The headline never hides a *)
(* failing or missing private verdict behind the runner's own PASS.        *)
HeadlineHonest ==
  (Graded /\ grade.score \notin {Unscored, 0}) =>
    IF suite THEN private.started /\ Clean(private.run)
    ELSE /\ status = "pass"
         /\ LastResult.phase = "full-spec-review"
         /\ LastResult.verdict = "pass"

(* A run that ended in a provider limit or in a failure of the host is not *)
(* held against the solver, nor counted for it: it has no score.           *)
InfraNeverBlamed ==
  (Graded /\ results # <<>> /\ LastResult.failure # "none") =>
    grade.score = Unscored

(* The retries a score is halved for are the plans that phase 2 sent back, *)
(* over all subsystems: not the builds of further subsystems, not the      *)
(* re-invocations after a provider error.                                  *)
RetriesAreRejections ==
  Graded => grade.retries =
    Cardinality({i \in DOMAIN results :
                   results[i].phase = "1" /\ results[i].attempt > 1})

(* A zero is always earned: an assertion of the suite failed or a test     *)
(* raised an error next to it, the solver left nothing behind, time ran    *)
(* out, or the last phase ended the run against the solver.                *)
ZeroNeedsEvidence ==
  (Graded /\ grade.score = 0) =>
    \/ private.started /\ private.run.tests > 0 /\ Bad(private.run) > 0
                       /\ ~SentinelZeroOfOne(private.run)
    \/ ~implementation
    \/ status = "timeout"
    \/ status = "fail" /\ ~suite

(* docs/outcome-taxonomy.md: an explicit solver FAIL on an infrastructure  *)
(* retry remains a solver failure.                                         *)
ExplicitFailIsSolverFail ==
  (Graded /\ results # <<>> /\ LastResult.tries > 0 /\ LastResult.verdict = "fail"
          /\ ~LastResult.timedOut /\ ~LastResult.stopped) =>
    grade.completion = "solver-fail"
=============================================================================
