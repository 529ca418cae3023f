------------------------------ MODULE Outcome ------------------------------
(***************************************************************************)
(* How run_challenges.bb turns what happened into one headline: the        *)
(* completion of the solver run, the verdict of the private suite, the     *)
(* outcome derived from both, the semantic retries and the score.          *)
(* docs/outcome-taxonomy.md describes the same tables in words.            *)
(***************************************************************************)
EXTENDS Integers, Sequences, FiniteSets

Completions == {"completed", "solver-fail", "timeout",
                "quota-or-provider-limit", "user-stopped", "infra-error"}

PrivateStatuses == {"none", "not-run", "unavailable", "pass", "fail"}

Sentinels == {"no-sentinel", "grader-timeout", "grader-oom", "no-summary",
              "ran-0", "zero-of-one"}

Headlines == {"private-pass", "public-pass", "private-fail",
              "private-unavailable", "solver-fail",
              "solver-no-implementation", "timeout",
              "quota-or-provider-limit", "user-stopped", "infra-error"}

Unscored == -1  \* nil
Scores == {Unscored} \cup 0..100

-----------------------------------------------------------------------------
(* What run-private-tests! returns.  summary is whether the output holds a *)
(* `Ran N tests` line; the counts add up every such line.                  *)
Suites(maxTests) ==
  [timedOut : BOOLEAN, exit : {0, 1, 137}, oomText : BOOLEAN,
   summary : BOOLEAN, tests : 0..maxTests, assertions : 0..maxTests,
   failures : 0..maxTests, errors : 0..maxTests]

(* A suite that could have run: counts only where there is a summary, and  *)
(* no more reports than assertions.  A killed grader exits 124, not 0.     *)
PossibleSuite(r) ==
  /\ ~r.summary => r.tests + r.assertions + r.failures + r.errors = 0
  /\ r.failures + r.errors <= r.assertions
  /\ r.tests = 0 => r.assertions = 0
  /\ r.timedOut => r.exit = 1

Bad(r) == r.failures + r.errors

SentinelZeroOfOne(r) ==
  r.tests = 1 /\ r.failures = 0 /\ r.errors > 0 /\ r.assertions = r.errors

Verdict(s, sentinel) == [status |-> s, sentinel |-> sentinel]

(* Mutation: the counts are read before the sentinels are.                 *)
ClassifyRanSuiteByCounts(r) ==
  IF Bad(r) > 0 THEN Verdict("fail", "no-sentinel")
  ELSE IF r.exit = 0 THEN Verdict("pass", "no-sentinel")
  ELSE Verdict("unavailable", "no-sentinel")

ClassifyRanSuite(r) ==
  IF ~r.summary THEN Verdict("unavailable", "no-summary")
  ELSE IF r.tests = 0 THEN Verdict("unavailable", "ran-0")
  ELSE IF SentinelZeroOfOne(r) THEN Verdict("unavailable", "zero-of-one")
  ELSE IF Bad(r) > 0 THEN Verdict("fail", "no-sentinel")
  ELSE IF r.exit = 0 THEN Verdict("pass", "no-sentinel")
  ELSE Verdict("unavailable", "no-sentinel")

(* classify-private-result.                                                *)
ClassifyPrivateResult(hasSuite, started, r) ==
  IF ~hasSuite THEN Verdict("none", "no-sentinel")
  ELSE IF ~started THEN Verdict("not-run", "no-sentinel")
  ELSE IF r.timedOut THEN Verdict("unavailable", "grader-timeout")
  ELSE IF r.exit = 137 \/ r.oomText THEN Verdict("unavailable", "grader-oom")
  ELSE ClassifyRanSuite(r)

-----------------------------------------------------------------------------
(* classify-completion: a phase result carries failure and stopped.        *)
ClassifyCompletion(status, results) ==
  LET ended == results # <<>>
      last  == results[Len(results)]
  IN  IF status = "pass" THEN "completed"
      ELSE IF ended /\ last.failure # "none" THEN last.failure
      ELSE IF ended /\ last.stopped THEN "user-stopped"
      ELSE IF status = "timeout" THEN "timeout"
      ELSE "solver-fail"

(* Mutation: the phase pipeline's own verdict dominates the private one.   *)
ClassifyOutcomeByRunner(completion, private, hasImplementation) ==
  IF completion = "infra-error" THEN "infra-error"
  ELSE IF completion = "completed" THEN "public-pass"
  ELSE IF private = "pass" THEN "private-pass"
  ELSE IF private = "fail" THEN "private-fail"
  ELSE IF completion \in {"timeout", "quota-or-provider-limit", "user-stopped"}
       THEN completion
  ELSE IF ~hasImplementation THEN "solver-no-implementation"
  ELSE IF private \in {"unavailable", "not-run"} THEN "private-unavailable"
  ELSE "solver-fail"

(* classify-outcome: the first match wins.                                 *)
ClassifyOutcome(completion, private, hasImplementation) ==
  IF completion = "infra-error" THEN "infra-error"
  ELSE IF private = "pass" THEN "private-pass"
  ELSE IF private = "fail" THEN "private-fail"
  ELSE IF completion \in {"timeout", "quota-or-provider-limit", "user-stopped"}
       THEN completion
  ELSE IF ~hasImplementation THEN "solver-no-implementation"
  ELSE IF private \in {"unavailable", "not-run"} THEN "private-unavailable"
  ELSE IF private = "none" /\ completion = "completed" THEN "public-pass"
  ELSE "solver-fail"

-----------------------------------------------------------------------------
(* Mutation: an accepted plan with remarks counts as a retry.              *)
CountRemarksToo(results) ==
  Cardinality({i \in 1..(Len(results) - 1) :
                 /\ results[i].verdict \in {"fail", "major-fail", "minor-fail"}
                 /\ results[i].subsystem = results[i + 1].subsystem})

(* count-semantic-retries.                                                 *)
CountSemanticRetries(results) ==
  Cardinality({i \in 1..(Len(results) - 1) :
                 /\ results[i].verdict \in {"fail", "major-fail"}
                 /\ results[i].subsystem = results[i + 1].subsystem})

(* max(1, round(100 / 2^retries)), rounding halves up.                     *)
Halved(retries) ==
  LET r == (200 + 2^retries) \div (2 * 2^retries) IN IF r < 1 THEN 1 ELSE r

(* compute-challenge-score.                                                *)
ComputeScore(outcome, retries) ==
  IF outcome \in {"private-pass", "public-pass"} THEN Halved(retries)
  ELSE IF outcome \in {"private-unavailable", "infra-error",
                       "quota-or-provider-limit", "user-stopped"}
       THEN Unscored
  ELSE 0
=============================================================================
