---------------------------- MODULE RunnerProofs ----------------------------
(***************************************************************************)
(* What TLAPS proves of the phase loop and of the grading that follows it: *)
(* for every decomposition, cap, budget, timeout and agent, any text an    *)
(* agent may quote, and any counts a suite may report.                     *)
(***************************************************************************)
EXTENDS Grading, FiniteSetTheorems, TLAPS

-----------------------------------------------------------------------------
(* Arithmetic of the clock.                                                *)

(* A whole number of seconds never counts more ticks than it was cut from. *)
LEMMA WholeSeconds ==
  ASSUME NEW t \in Nat
  PROVE  /\ t \div Tick \in Nat
         /\ (t \div Tick) * Tick <= t
BY LimitsAssumption

(* Products of naturals are monotone.                                      *)
LEMMA ProductMonotone ==
  ASSUME NEW a \in Nat, NEW b \in Nat, NEW c \in Nat, a <= b
  PROVE  /\ c * a \in Nat
         /\ c * a <= c * b
         /\ a * c <= b * c
OBVIOUS

-----------------------------------------------------------------------------
(* Types.                                                                  *)

(* While a subsystem is being planned, validated or built there is one.    *)
Shape == /\ TypeOK
         /\ stage \in CountedPhases => subsystems # <<>>

(* A decomposition always yields at least one slug, and slugs are names.   *)
LEMMA SlugsAreSequence ==
  ASSUME NEW file \in Files
  PROVE  /\ SlugsOf(ReadDecomposition(file)) \in Seq(Slugs)
         /\ SlugsOf(ReadDecomposition(file)) # <<>>
<1> DEFINE names == ReadDecomposition(file)
<1>1. names \in Seq(Names)
  <2>1. CASE names = <<>>
    BY <2>1
  <2>2. CASE names # <<>>
    <3>1. /\ names = file.entries
          /\ \A i \in DOMAIN file.entries : file.entries[i] # BadEntry
      BY <2>2 DEF ReadDecomposition
    <3>2. PICK n \in 0..MaxEntries : file.entries \in [1..n -> Names \cup {BadEntry}]
      BY DEF Files
    <3>3. file.entries \in [1..n -> Names]
      BY <3>1, <3>2
    <3> QED BY <3>1, <3>3
  <2> QED BY <2>1, <2>2
<1>2. CASE Len(names) > 1
  BY <1>1, <1>2 DEF SlugsOf, Slugs
<1>3. CASE ~(Len(names) > 1)
  BY <1>3 DEF SlugsOf, Slugs
<1> QED BY <1>2, <1>3

(* The current slug and attempt are well typed.                            *)
LEMMA CurrentPhase ==
  ASSUME Shape
  PROVE  Slug \in Slugs /\ Attempt \in Nat
<1>1. CASE InSubsystem
  <2>1. Len(subsystems) > 0
    BY <1>1 DEF Shape, TypeOK, InSubsystem
  <2> QED BY <1>1, <2>1 DEF Shape, TypeOK, InSubsystem, Slug, Attempt
<1>2. CASE ~InSubsystem
  BY <1>2 DEF Slug, Attempt, Slugs
<1> QED BY <1>1, <1>2

(* What run-phase! returns is a phase result.                              *)
LEMMA PhaseResultType ==
  ASSUME Shape
  PROVE  PhaseResult \in PhaseResults
<1>1. Slug \in Slugs /\ Attempt \in Nat
  BY CurrentPhase
<1>2. call \in Calls /\ stage \in Stages /\ tries \in Nat
  BY DEF Shape, TypeOK
<1>3. FinalExit(call) \in ExitCodes
  BY <1>2 DEF FinalExit, Calls, ExitCodes
<1>4. SettledFailure(call) \in FailureKinds
  BY DEF SettledFailure, InfrastructureFailure, FailureKinds
<1>5. call.timedOut \in BOOLEAN /\ call.verdict \in Verdicts
  BY <1>2 DEF Calls
<1> QED
  BY <1>1, <1>2, <1>3, <1>4, <1>5 DEF PhaseResult, PhaseResults

(* An agent that was invoked returned a call.                              *)
LEMMA OutcomeType ==
  ASSUME NEW s, NEW c \in Outcomes(s)
  PROVE  c \in Calls
BY AgentAssumption DEF Outcomes, Calls, MayEmit, Patterns, Verdicts

(* The clock's values are naturals.                                        *)
LEMMA ClockTypes ==
  ASSUME TypeOK
  PROVE  /\ TimeRemaining \in Nat
         /\ CallTimeout \in Nat
         /\ CallTimeout * Tick \in Nat
<1>1. TimeRemaining \in Nat
  BY LimitsAssumption DEF TypeOK, TimeRemaining, Most
<1>2. TimeRemaining \div Tick \in Nat
  BY <1>1, WholeSeconds
<1>3. CallTimeout \in Nat
  BY <1>2, LimitsAssumption DEF CallTimeout, Least, Most
<1>4. CallTimeout * Tick \in Nat
  BY <1>3, LimitsAssumption
<1> QED BY <1>1, <1>3, <1>4

(* A phase that settles leaves the types of what it touches intact.        *)
LEMMA SettleType ==
  ASSUME Shape, Settle
  PROVE  /\ attempts' \in [CountedPhases -> Nat]
         /\ tries' \in 0..PhaseRetryCap
         /\ call' \in Calls
         /\ elapsed' \in Nat
         /\ results' \in Seq(PhaseResults)
         /\ transcripts' \subseteq TranscriptNames
<1>1. results' \in Seq(PhaseResults)
  BY PhaseResultType DEF Shape, TypeOK, Settle
<1>2. attempts' \in [CountedPhases -> Nat]
  <2>1. attempts \in [CountedPhases -> Nat]
    BY DEF Shape, TypeOK
  <2>2. CASE InSubsystem
    <3>1. attempts' = [attempts EXCEPT ![stage] = attempts[stage] + 1]
      BY <2>2 DEF Settle
    <3>2. attempts[stage] + 1 \in Nat
      BY <2>1, <2>2 DEF InSubsystem
    <3> QED BY <2>1, <3>1, <3>2
  <2>3. CASE ~InSubsystem
    BY <2>1, <2>3 DEF Settle
  <2> QED BY <2>2, <2>3
<1>3. /\ tries' \in 0..PhaseRetryCap
      /\ call' \in Calls
      /\ elapsed' \in Nat
      /\ transcripts' \subseteq TranscriptNames
  BY LimitsAssumption DEF Shape, TypeOK, Settle, LeaveRunPhase, NotCalled,
     Calls, ExitCodes, Verdicts, Patterns
<1> QED BY <1>1, <1>2, <1>3

(* Every step keeps the types.                                             *)
LEMMA ShapeStep == Shape /\ [Next]_vars => Shape'
<1> SUFFICES ASSUME Shape, [Next]_vars
             PROVE  Shape'
  OBVIOUS
<1> USE DEF Shape
<1>1. CASE ExceedBudget
  BY <1>1 DEF TypeOK, ExceedBudget
<1>2. CASE StartPhase
  BY <1>2 DEF TypeOK, StartPhase
<1>3. CASE Invoke
  <2>1. PICK d \in 0..(CallTimeout * Tick) : elapsed' = elapsed + d
    BY <1>3 DEF Invoke
  <2>2. call' \in Calls
    BY <1>3, OutcomeType DEF Invoke
  <2>3. elapsed' \in Nat
    BY <2>1, ClockTypes DEF TypeOK
  <2>4. <<stage, Attempt, Slug, tries>> \in TranscriptNames
    BY CurrentPhase DEF TypeOK, TranscriptNames
  <2>5. transcripts' \subseteq TranscriptNames
    BY <1>3, <2>4 DEF TypeOK, Invoke
  <2> QED BY <1>3, <2>2, <2>3, <2>5 DEF TypeOK, Invoke
<1>4. CASE RetryPhase
  <2>1. tries' \in 0..PhaseRetryCap
    BY <1>4, LimitsAssumption DEF TypeOK, RetryPhase, Retryable
  <2>2. Backoff * (tries + 1) \in Nat
    BY LimitsAssumption DEF TypeOK
  <2>3. elapsed' \in Nat
    BY <1>4, <2>2 DEF TypeOK, RetryPhase
  <2> QED BY <1>4, <2>1, <2>3 DEF TypeOK, RetryPhase
<1>5. CASE StageFails
  BY <1>5, SettleType DEF TypeOK, StageFails, Return
<1>6. CASE FinishImplicitSpec
  BY <1>6, SettleType
     DEF TypeOK, FinishImplicitSpec, GoTo, Stages, CountedPhases
<1>7. CASE FinishDecompose
  <2>1. subsystems' \in Seq(Slugs) /\ subsystems' # <<>>
    BY <1>7, SlugsAreSequence DEF FinishDecompose
  <2> QED
    BY <1>7, <2>1, SettleType
       DEF TypeOK, FinishDecompose, GoTo, Stages, CountedPhases
<1>8. CASE FinishPlan
  BY <1>8, SettleType DEF TypeOK, FinishPlan, GoTo, Stages, CountedPhases
<1>9. CASE AcceptPlan
  BY <1>9, SettleType DEF TypeOK, AcceptPlan, GoTo, Stages, CountedPhases
<1>10. CASE SendBackPlan
  <2>1. majorFails' \in Nat /\ snapshots' \in Nat
    BY <1>10 DEF TypeOK, SendBackPlan
  <2> QED
    BY <1>10, <2>1, SettleType
       DEF TypeOK, SendBackPlan, GoTo, Stages, CountedPhases
<1>11. CASE RejectPlan
  BY <1>11, SettleType DEF TypeOK, RejectPlan, Return
<1>12. CASE PassBuild
  <2>1. subsystems # <<>> /\ subsystems \in Seq(Slugs)
    BY <1>12 DEF TypeOK, PassBuild, CountedPhases
  <2>2. /\ subsystems' \in Seq(Slugs)
        /\ Len(subsystems) # 1 => subsystems' # <<>>
    <3>1. subsystems' = Tail(subsystems)
      BY <1>12 DEF PassBuild
    <3>2. subsystems' \in Seq(Slugs) /\ Len(subsystems') = Len(subsystems) - 1
      BY <2>1, <3>1
    <3> QED BY <3>2
  <2>3. results' \in Seq(PhaseResults)
    BY <1>12, PhaseResultType DEF TypeOK, PassBuild
  <2>4. attempts' \in [CountedPhases -> Nat]
    BY <1>12 DEF PassBuild, FreshAttempts
  <2>5. /\ tries' \in 0..PhaseRetryCap
        /\ call' \in Calls
        /\ elapsed' \in Nat
        /\ transcripts' \subseteq TranscriptNames
    BY <1>12, LimitsAssumption DEF TypeOK, PassBuild, LeaveRunPhase,
       NotCalled, Calls, ExitCodes, Verdicts, Patterns
  <2> QED
    BY <1>12, <2>2, <2>3, <2>4, <2>5
       DEF TypeOK, PassBuild, GoTo, Stages, CountedPhases
<1>13. CASE FailBuild
  BY <1>13, SettleType DEF TypeOK, FailBuild, Return
<1>14. CASE FinishReview
  BY <1>14, SettleType DEF TypeOK, FinishReview, Return
<1>15. CASE UNCHANGED vars
  BY <1>15 DEF TypeOK, vars
<1> QED
  BY <1>1, <1>2, <1>3, <1>4, <1>5, <1>6, <1>7, <1>8, <1>9, <1>10, <1>11,
     <1>12, <1>13, <1>14, <1>15 DEF Next

(* The runner's state is always well typed: a phase of a subsystem has a   *)
(* slug and an attempt to run under, and a phase is retried at most        *)
(* *phase-retry-cap* times.                                                *)
THEOREM TypeCorrect == Spec => []TypeOK
<1>1. Init => Shape
  BY LimitsAssumption DEF Init, Shape, TypeOK, Stages, CountedPhases,
     FreshAttempts, NotCalled, Calls, ExitCodes, Verdicts, Patterns
<1>2. Shape => TypeOK
  BY DEF Shape
<1> QED BY <1>1, <1>2, ShapeStep, PTL DEF Spec

-----------------------------------------------------------------------------
(* The clock.                                                              *)

Slack == Backoff * PhaseRetryCap

(* An agent is only ever started while the budget lasts, or after a        *)
(* backoff that began while it lasted.                                     *)
Clock == /\ Shape
         /\ pc = "invoke" => elapsed < Budget + Slack
         /\ BoundedOverrun

(* A call takes at most what is left of the budget, or else one second.    *)
LEMMA CallFits ==
  ASSUME TypeOK
  PROVE  CallTimeout * Tick <= TimeRemaining \/ CallTimeout * Tick <= Tick
<1> DEFINE whole == TimeRemaining \div Tick
<1>1. TimeRemaining \in Nat /\ CallTimeout \in Nat
  BY ClockTypes
<1>2. whole \in Nat /\ whole * Tick <= TimeRemaining
  BY <1>1, WholeSeconds
<1>3. CASE whole >= 1
  <2>1. CallTimeout <= whole
    BY <1>2, <1>3, LimitsAssumption DEF CallTimeout, Least, Most
  <2>2. CallTimeout * Tick <= whole * Tick
    BY <1>1, <1>2, <2>1, LimitsAssumption, ProductMonotone
  <2>3. CallTimeout * Tick \in Int /\ whole * Tick \in Int
    BY <1>1, <1>2, LimitsAssumption
  <2> HIDE DEF whole
  <2> QED BY <1>1, <1>2, <2>2, <2>3
<1>4. CASE ~(whole >= 1)
  <2>1. CallTimeout <= 1
    BY <1>2, <1>4, LimitsAssumption DEF CallTimeout, Least, Most
  <2>2. CallTimeout = 0 \/ CallTimeout = 1
    BY <1>1, <2>1
  <2> QED BY <2>2, LimitsAssumption
<1> QED BY <1>3, <1>4

LEMMA ClockStep == Clock /\ [Next]_vars => Clock'
<1> SUFFICES ASSUME Clock, [Next]_vars
             PROVE  Clock'
  OBVIOUS
<1>1. Shape'
  BY ShapeStep DEF Clock
<1>2. /\ Slack \in Nat
      /\ elapsed \in Nat
      /\ Budget \in Nat
      /\ Tick \in Nat \ {0}
      /\ tries \in Nat
      /\ Slack' = Slack
  BY LimitsAssumption DEF Slack, Clock, Shape, TypeOK
<1>3. elapsed < Budget + Slack + Tick
  BY DEF Clock, BoundedOverrun, Slack
<1>4. CASE StartPhase
  <2>1. elapsed < Budget /\ elapsed' = elapsed
    BY <1>2, <1>4 DEF StartPhase, TimeRemaining, Most
  <2> QED BY <1>1, <1>2, <2>1 DEF Clock, BoundedOverrun, Slack
<1>5. CASE Invoke
  <2>1. PICK d \in 0..(CallTimeout * Tick) : elapsed' = elapsed + d
    BY <1>5 DEF Invoke
  <2>2. elapsed < Budget + Slack
    BY <1>5 DEF Clock, Invoke
  <2>3. pc' = "returned"
    BY <1>5 DEF Invoke
  <2>4. CallTimeout * Tick \in Nat /\ TimeRemaining \in Nat
    BY ClockTypes DEF Clock, Shape
  <2>5. CASE CallTimeout * Tick <= TimeRemaining
    <3>1. d <= TimeRemaining
      BY <2>4, <2>5
    <3>2. elapsed + d <= Budget \/ d = 0
      BY <1>2, <2>4, <3>1 DEF TimeRemaining, Most
    <3>3. elapsed' < Budget + Slack + Tick
      BY <1>2, <1>3, <2>1, <3>2
    <3> QED BY <1>1, <2>3, <3>3 DEF Clock, BoundedOverrun, Slack
  <2>6. CASE CallTimeout * Tick <= Tick
    <3>1. d <= Tick
      BY <1>2, <2>4, <2>6
    <3>2. elapsed' < Budget + Slack + Tick
      BY <1>2, <2>1, <2>2, <3>1
    <3> QED BY <1>1, <2>3, <3>2 DEF Clock, BoundedOverrun, Slack
  <2> QED BY <2>5, <2>6, CallFits DEF Clock, Shape
<1>6. CASE RetryPhase
  <2>1. tries + 1 <= PhaseRetryCap /\ elapsed < Budget
    BY <1>2, <1>6, LimitsAssumption
       DEF RetryPhase, Retryable, TimeRemaining, Most
  <2>2. /\ Backoff * (tries + 1) <= Backoff * PhaseRetryCap
        /\ Backoff * (tries + 1) \in Nat
    BY <1>2, <2>1, LimitsAssumption, ProductMonotone
  <2>3. elapsed' = elapsed + Backoff * (tries + 1)
    BY <1>6 DEF RetryPhase
  <2>4. Backoff * (tries + 1) <= Slack
    BY <2>2 DEF Slack
  <2>5. elapsed' < Budget + Slack
    BY <1>2, <2>1, <2>2, <2>3, <2>4
  <2>6. elapsed' < Budget + Slack + Tick
    BY <1>1, <1>2, <2>5 DEF Shape, TypeOK
  <2> QED BY <1>1, <1>2, <2>5, <2>6 DEF Clock, BoundedOverrun, Slack
<1>7. ASSUME elapsed' = elapsed, pc' # "invoke" \/ UNCHANGED vars
      PROVE  Clock'
  BY <1>1, <1>2, <1>3, <1>7 DEF Clock, BoundedOverrun, Slack, vars
<1>8. CASE ExceedBudget
  BY <1>8, <1>7 DEF ExceedBudget
<1>9. CASE StageFails \/ RejectPlan \/ FailBuild \/ FinishReview
  BY <1>9, <1>7 DEF StageFails, RejectPlan, FailBuild, FinishReview,
     Settle, LeaveRunPhase, Return
<1>10. CASE \/ FinishImplicitSpec
            \/ FinishDecompose
            \/ FinishPlan
            \/ AcceptPlan
            \/ SendBackPlan
  BY <1>10, <1>7 DEF FinishImplicitSpec, FinishDecompose, FinishPlan,
     AcceptPlan, SendBackPlan, Settle, LeaveRunPhase, GoTo
<1>11. CASE PassBuild
  BY <1>11, <1>7 DEF PassBuild, LeaveRunPhase, GoTo
<1>12. CASE UNCHANGED vars
  BY <1>12, <1>7 DEF vars
<1> QED
  BY <1>4, <1>5, <1>6, <1>8, <1>9, <1>10, <1>11, <1>12 DEF Next

(* The overall timeout overruns by less than the backoffs of one phase and *)
(* one second, whatever the agents do (run-phase!'s clamp of every call to *)
(* the time remaining, and the checks before every phase and every retry). *)
THEOREM OverrunBounded == Spec => []BoundedOverrun
<1>1. Init => Clock
  <2>1. Backoff * PhaseRetryCap \in Nat
    BY LimitsAssumption
  <2>2. Init => Shape
    BY LimitsAssumption DEF Init, Shape, TypeOK, Stages, CountedPhases,
       FreshAttempts, NotCalled, Calls, ExitCodes, Verdicts, Patterns
  <2> QED BY <2>1, <2>2, LimitsAssumption DEF Init, Clock, BoundedOverrun
<1>2. Clock => BoundedOverrun
  BY DEF Clock
<1> QED BY <1>1, <1>2, ClockStep, PTL DEF Spec

-----------------------------------------------------------------------------
(* Transcripts.                                                            *)

(* The stages that are over when the runner stands at stage s.             *)
Earlier(s) ==
  IF s = "0" THEN {}
  ELSE IF s = "decompose" THEN {"0"}
  ELSE IF s \in CountedPhases THEN {"0", "decompose"}
  ELSE {"0", "decompose"} \cup CountedPhases

(* A name that can not come up again: of an earlier stage, of a subsystem  *)
(* that is done, or of an attempt that is spent.                           *)
Behind(t) ==
  \/ t[1] \in Earlier(stage)
  \/ /\ InSubsystem
     /\ t[1] \in CountedPhases
     /\ \/ \A i \in DOMAIN subsystems : subsystems[i] # t[3]
        \/ t[3] = subsystems[1] /\ t[2] < attempts[t[1]]

(* A name of the phase in flight.                                          *)
InFlight(t) ==
  /\ t[1] = stage
  /\ t[2] = Attempt
  /\ t[3] = Slug
  /\ \/ t[4] < tries
     \/ t[4] = tries /\ pc = "returned"

Fresh ==
  /\ Shape
  /\ IsDistinct(subsystems)
  /\ pc = "stage" => tries = 0
  /\ pc # "done" => \A t \in transcripts : Behind(t) \/ InFlight(t)

(* A decomposition names every subsystem once.                             *)
LEMMA SlugsAreApart ==
  ASSUME NEW file
  PROVE  IsDistinct(SlugsOf(ReadDecomposition(file)))
<1> DEFINE names == ReadDecomposition(file)
<1>1. IsDistinct(names)
  BY DEF ReadDecomposition, IsDistinct
<1>2. CASE Len(names) > 1
  BY <1>1, <1>2 DEF SlugsOf
<1>3. CASE ~(Len(names) > 1)
  BY <1>3 DEF SlugsOf, IsDistinct
<1> QED BY <1>2, <1>3

(* A phase of a subsystem that settles leaves its names behind, and all    *)
(* others where they were, as long as its subsystem is not done.           *)
LEMMA SettledBehind ==
  ASSUME Fresh, Settle, InSubsystem, pc # "done",
         stage' \in CountedPhases, subsystems' = subsystems
  PROVE  \A t \in transcripts' : Behind(t)'
<1>1. /\ subsystems \in Seq(Slugs)
      /\ attempts \in [CountedPhases -> Nat]
      /\ stage \in CountedPhases
      /\ transcripts \subseteq TranscriptNames
      /\ transcripts' = transcripts
  BY DEF Fresh, Shape, TypeOK, InSubsystem, Settle, LeaveRunPhase
<1>2. attempts' = [attempts EXCEPT ![stage] = attempts[stage] + 1]
  BY DEF Settle
<1>3. Earlier(stage') = Earlier(stage) /\ InSubsystem'
  BY <1>1 DEF Earlier, InSubsystem, CountedPhases
<1> SUFFICES ASSUME NEW t \in transcripts
             PROVE  Behind(t)'
  BY <1>1
<1>4. t[2] \in Nat
  BY <1>1 DEF TranscriptNames
<1>5. CASE Behind(t)
  <2>1. t[1] \in CountedPhases /\ t[2] < attempts[t[1]] => t[2] < attempts'[t[1]]
    BY <1>1, <1>2, <1>4
  <2> QED BY <1>3, <1>5, <2>1 DEF Behind
<1>6. CASE InFlight(t)
  <2>1. t[1] = stage /\ t[2] = attempts[stage] /\ t[3] = subsystems[1]
    BY <1>6 DEF InFlight, Attempt, Slug
  <2>2. t[2] < attempts'[t[1]]
    BY <1>1, <1>2, <1>4, <2>1
  <2> QED BY <1>1, <1>3, <2>1, <2>2 DEF Behind
<1> QED BY <1>5, <1>6 DEF Fresh

(* The last build of a subsystem leaves all its names behind.              *)
LEMMA BuiltBehind ==
  ASSUME Fresh, PassBuild
  PROVE  /\ IsDistinct(subsystems')
         /\ \A t \in transcripts' : Behind(t)'
<1>1. /\ subsystems \in Seq(Slugs)
      /\ subsystems # <<>>
      /\ stage = "build"
      /\ transcripts' = transcripts
      /\ subsystems' = Tail(subsystems)
      /\ stage' \in {"1", "full-spec-review"}
      /\ pc = "returned"
  BY DEF Fresh, Shape, TypeOK, PassBuild, LeaveRunPhase, GoTo, CountedPhases
<1>2. /\ DOMAIN subsystems = 1..Len(subsystems)
      /\ Len(subsystems) \in Nat
      /\ DOMAIN subsystems' = 1..(Len(subsystems) - 1)
      /\ \A i \in DOMAIN subsystems' : /\ i + 1 \in DOMAIN subsystems
                                       /\ i + 1 # 1
                                       /\ subsystems'[i] = subsystems[i + 1]
  BY <1>1
<1>3. IsDistinct(subsystems')
  <2>1. SUFFICES ASSUME NEW i \in DOMAIN subsystems', NEW j \in DOMAIN subsystems',
                        subsystems'[i] = subsystems'[j]
                 PROVE  i = j
    BY DEF IsDistinct
  <2>2. i + 1 = j + 1
    BY <1>2, <2>1 DEF Fresh, IsDistinct
  <2> QED BY <1>2, <2>2
<1>4. \A i \in DOMAIN subsystems' : subsystems'[i] # subsystems[1]
  <2>1. SUFFICES ASSUME NEW i \in DOMAIN subsystems', subsystems'[i] = subsystems[1]
                 PROVE  FALSE
    OBVIOUS
  <2>2. 1 \in DOMAIN subsystems
    BY <1>1
  <2>3. i + 1 = 1
    BY <1>2, <2>1, <2>2 DEF Fresh, IsDistinct
  <2> QED BY <1>2, <2>3
<1>5. ASSUME NEW t \in transcripts
      PROVE  Behind(t)'
  <2>1. Behind(t) \/ InFlight(t)
    BY <1>1 DEF Fresh
  <2>2. t[1] \in Earlier(stage) \cup CountedPhases
    BY <1>1, <2>1 DEF Behind, InFlight, CountedPhases
  <2>3. CASE stage' = "full-spec-review"
    BY <1>1, <2>2, <2>3 DEF Behind, Earlier, CountedPhases
  <2>4. CASE stage' = "1"
    <3>1. Earlier(stage') = Earlier(stage) /\ InSubsystem'
      BY <1>1, <2>4 DEF Earlier, InSubsystem, CountedPhases
    <3>2. CASE t[1] \in Earlier(stage)
      BY <3>1, <3>2 DEF Behind
    <3>3. CASE t[1] \notin Earlier(stage)
      <4>1. \/ t[3] = subsystems[1]
            \/ \A i \in DOMAIN subsystems : subsystems[i] # t[3]
        BY <1>1, <2>1, <3>3 DEF Behind, InFlight, Slug, InSubsystem, CountedPhases
      <4>2. \A i \in DOMAIN subsystems' : subsystems'[i] # t[3]
        BY <1>2, <1>4, <4>1
      <4> QED BY <2>2, <3>1, <3>3, <4>2 DEF Behind
    <3> QED BY <3>2, <3>3
  <2> QED BY <1>1, <2>3, <2>4
<1> QED BY <1>1, <1>3, <1>5

(* Every step keeps used names behind the runner.                           *)
LEMMA FreshStep == Fresh /\ [Next]_vars => Fresh'
<1> SUFFICES ASSUME Fresh, [Next]_vars
             PROVE  Fresh'
  OBVIOUS
<1>1. Shape /\ Shape'
  BY ShapeStep DEF Fresh
<1>2. tries \in Nat /\ transcripts \subseteq TranscriptNames
  BY <1>1 DEF Shape, TypeOK
<1>3. ASSUME NEW t \in transcripts
      PROVE  t[4] \in Nat
  BY <1>2 DEF TranscriptNames
<1>4. CASE ExceedBudget \/ StageFails \/ RejectPlan \/ FailBuild \/ FinishReview
  BY <1>1, <1>4 DEF ExceedBudget, StageFails, RejectPlan, FailBuild,
     FinishReview, Return, Fresh
<1>5. CASE StartPhase
  <2>1. \A t \in transcripts : Behind(t)' <=> Behind(t)
    BY <1>5 DEF StartPhase, Behind, InSubsystem
  <2>2. \A t \in transcripts : ~InFlight(t)
    BY <1>3, <1>5 DEF StartPhase, Fresh, InFlight
  <2> QED BY <1>1, <1>5, <2>1, <2>2 DEF StartPhase, Fresh
<1>6. CASE Invoke
  <2>1. PICK new : new = <<stage, Attempt, Slug, tries>>
    OBVIOUS
  <2>2. /\ pc = "invoke"
        /\ pc' = "returned"
        /\ transcripts' = transcripts \cup {new}
        /\ UNCHANGED <<stage, subsystems, attempts, tries>>
    BY <1>6, <2>1 DEF Invoke
  <2>3. Attempt' = Attempt /\ Slug' = Slug
    BY <2>2 DEF Attempt, Slug, InSubsystem
  <2>4. \A t \in transcripts : Behind(t) => Behind(t)'
    BY <2>2 DEF Behind, InSubsystem
  <2>5. \A t \in transcripts : InFlight(t) => InFlight(t)'
    BY <2>2, <2>3 DEF InFlight
  <2>6. InFlight(new)'
    BY <2>1, <2>2, <2>3 DEF InFlight
  <2>7. \A t \in transcripts' : (Behind(t) \/ InFlight(t))'
    <3>1. \A t \in transcripts : (Behind(t) \/ InFlight(t))'
      BY <2>2, <2>4, <2>5 DEF Fresh
    <3> QED BY <2>2, <2>6, <3>1
  <2> QED BY <1>1, <2>2, <2>7 DEF Fresh
<1>7. CASE RetryPhase
  <2>1. /\ pc = "returned"
        /\ pc' = "invoke"
        /\ tries' = tries + 1
        /\ UNCHANGED <<stage, subsystems, attempts, transcripts>>
    BY <1>7 DEF RetryPhase
  <2>2. Attempt' = Attempt /\ Slug' = Slug
    BY <2>1 DEF Attempt, Slug, InSubsystem
  <2>3. \A t \in transcripts : Behind(t) => Behind(t)'
    BY <2>1 DEF Behind, InSubsystem
  <2>4. \A t \in transcripts : InFlight(t) => InFlight(t)'
    BY <1>2, <1>3, <2>1, <2>2 DEF InFlight
  <2> QED BY <1>1, <2>1, <2>3, <2>4 DEF Fresh
<1>8. CASE FinishImplicitSpec
  <2>1. \A t \in transcripts : t[1] = "0"
    BY <1>8 DEF FinishImplicitSpec, Settle, Fresh, Behind, InFlight, Earlier,
       InSubsystem, CountedPhases
  <2> QED
    BY <1>1, <1>8, <2>1 DEF FinishImplicitSpec, Settle, LeaveRunPhase, GoTo,
       Fresh, Behind, Earlier
<1>9. CASE FinishDecompose
  <2>1. \A t \in transcripts : t[1] \in {"0", "decompose"}
    BY <1>9 DEF FinishDecompose, Settle, Fresh, Behind, InFlight, Earlier,
       InSubsystem, CountedPhases
  <2>2. \A t \in transcripts' : Behind(t)'
    BY <1>9, <2>1 DEF FinishDecompose, Settle, LeaveRunPhase, GoTo, Behind,
       Earlier, CountedPhases
  <2>3. IsDistinct(subsystems')
    BY <1>9, SlugsAreApart DEF FinishDecompose
  <2> QED
    BY <1>1, <1>9, <2>2, <2>3 DEF FinishDecompose, Settle, LeaveRunPhase, Fresh
<1>10. CASE FinishPlan \/ AcceptPlan \/ SendBackPlan
  <2>1. /\ Settle
        /\ InSubsystem
        /\ pc # "done"
        /\ stage' \in CountedPhases
        /\ subsystems' = subsystems
    BY <1>10 DEF FinishPlan, AcceptPlan, SendBackPlan, Settle, GoTo,
       InSubsystem, CountedPhases
  <2>2. \A t \in transcripts' : Behind(t)'
    BY <2>1, SettledBehind
  <2> QED BY <1>1, <2>1, <2>2 DEF Settle, LeaveRunPhase, Fresh
<1>11. CASE PassBuild
  BY <1>1, <1>11, BuiltBehind DEF PassBuild, LeaveRunPhase, Fresh
<1>12. CASE UNCHANGED vars
  BY <1>1, <1>12 DEF vars, Fresh, Behind, InFlight, InSubsystem, Attempt, Slug
<1> QED
  BY <1>4, <1>5, <1>6, <1>7, <1>8, <1>9, <1>10, <1>11, <1>12 DEF Next

(* No transcript of a run is ever written over, by a retry, by a further   *)
(* attempt or by another subsystem (save-transcript!'s file names).        *)
THEOREM TranscriptsAreFresh == Spec => []FreshTranscript
<1>1. Init => Fresh
  <2>1. Init => Shape
    BY LimitsAssumption DEF Init, Shape, TypeOK, Stages, CountedPhases,
       FreshAttempts, NotCalled, Calls, ExitCodes, Verdicts, Patterns
  <2> QED BY <2>1 DEF Init, Fresh, IsDistinct
<1>2. Fresh => FreshTranscript
  <2> SUFFICES ASSUME Fresh, pc = "invoke",
                      <<stage, Attempt, Slug, tries>> \in transcripts
               PROVE  FALSE
    BY DEF FreshTranscript
  <2> DEFINE t == <<stage, Attempt, Slug, tries>>
  <2>1. Shape /\ tries \in Nat
    BY DEF Fresh, Shape, TypeOK
  <2>2. ~InFlight(t)
    BY <2>1 DEF InFlight
  <2>3. stage \notin Earlier(stage)
    BY <2>1 DEF Earlier, Shape, TypeOK, Stages, CountedPhases
  <2>4. CASE InSubsystem
    <3>1. /\ 1 \in DOMAIN subsystems
          /\ Slug = subsystems[1]
          /\ Attempt = attempts[stage]
          /\ attempts[stage] \in Nat
      BY <2>1, <2>4 DEF Shape, TypeOK, InSubsystem, Slug, Attempt
    <3>2. ~Behind(t)
      BY <2>3, <3>1 DEF Behind
    <3> QED BY <2>2, <3>2 DEF Fresh
  <2>5. CASE ~InSubsystem
    <3>1. ~Behind(t)
      BY <2>3, <2>5 DEF Behind
    <3> QED BY <2>2, <3>1 DEF Fresh
  <2> QED BY <2>4, <2>5
<1> QED BY <1>1, <1>2, FreshStep, PTL DEF Spec

-----------------------------------------------------------------------------
(***************************************************************************)
(* :phase-results, the record PhaseLoop leaves of a run: that it stops at  *)
(* the first failure, that builds stand on accepted plans, what a pass is  *)
(* worth, and that PhaseLoop implements Pipeline.                          *)
(***************************************************************************)
Ended == pc = "done"

(* A phase is recorded at the end of the history, under its own name.      *)
LEMMA Recorded ==
  ASSUME Shape, results' = Append(results, PhaseResult)
  PROVE  /\ Len(results) \in Nat
         /\ DOMAIN results = 1..Len(results)
         /\ Len(results') = Len(results) + 1
         /\ DOMAIN results' = 1..(Len(results) + 1)
         /\ \A i \in 1..Len(results) : results'[i] = results[i]
         /\ results'[Len(results) + 1] = PhaseResult
         /\ PhaseResult.phase = stage
         /\ PhaseResult.subsystem = Slug
         /\ PhaseResult.verdict = call.verdict
<1>1. results \in Seq(PhaseResults) /\ PhaseResult \in PhaseResults
  BY PhaseResultType DEF Shape, TypeOK
<1>2. /\ PhaseResult.phase = stage
      /\ PhaseResult.subsystem = Slug
      /\ PhaseResult.verdict = call.verdict
  BY DEF PhaseResult
<1> QED BY <1>1, <1>2

(* What the steps do to the history, and to what is left to do.            *)
Quiet == /\ results' = results
         /\ subsystems' = subsystems
         /\ stage' = stage
         /\ \/ ~Ended /\ ~Ended' /\ status' = status
            \/ ~Ended /\ Ended' /\ status' = "timeout"
            \/ Ended' = Ended /\ status' = status

Fails == /\ ~Ended
         /\ results' = Append(results, PhaseResult)
         /\ subsystems' = subsystems
         /\ stage' = stage
         /\ Ended'
         /\ status' \in {"fail", "timeout"}

(* The stage goes on to the next one, or the run passes.                   *)
Advances(from, to) ==
  /\ ~Ended
  /\ stage = from
  /\ results' = Append(results, PhaseResult)
  /\ Completed
  /\ stage' = to

Proceeds(from, to) == /\ Advances(from, to)
                      /\ ~Ended'
                      /\ status' = status

LEMMA Steps ==
  ASSUME Shape, [Next]_vars
  PROVE  \/ Quiet
         \/ Fails
         \/ Proceeds("0", "decompose")
         \/ Proceeds("decompose", "1")
         \/ Proceeds("1", "2") /\ subsystems' = subsystems
         \/ /\ Proceeds("2", "build")
            /\ subsystems' = subsystems
            /\ call.verdict \in {"pass", "minor-fail"}
         \/ Proceeds("2", "1") /\ subsystems' = subsystems
         \/ /\ \/ Proceeds("build", "full-spec-review")
               \/ Proceeds("build", "1")
            /\ call.verdict = "pass"
         \/ /\ Advances("full-spec-review", "full-spec-review")
            /\ subsystems' = subsystems
            /\ Ended'
            /\ status' = "pass"
            /\ call.verdict = "pass"
<1>1. CASE ExceedBudget \/ StartPhase \/ Invoke \/ RetryPhase
  BY <1>1 DEF ExceedBudget, StartPhase, Invoke, RetryPhase, Quiet, Ended
<1>2. CASE StageFails \/ RejectPlan \/ FailBuild
  BY <1>2 DEF StageFails, RejectPlan, FailBuild, Settle, Return, Fails, Ended
<1>3. CASE FinishReview
  BY <1>3 DEF FinishReview, Settle, Return, Fails, Ended, Advances
<1>4. CASE FinishImplicitSpec \/ FinishDecompose \/ FinishPlan
  BY <1>4 DEF FinishImplicitSpec, FinishDecompose, FinishPlan, Settle, GoTo,
     Proceeds, Advances, Ended
<1>5. CASE AcceptPlan \/ SendBackPlan
  BY <1>5 DEF AcceptPlan, SendBackPlan, Settle, GoTo, Proceeds, Advances, Ended
<1>6. CASE PassBuild
  BY <1>6 DEF PassBuild, GoTo, Proceeds, Advances, Ended
<1>7. CASE UNCHANGED vars
  BY <1>7 DEF vars, Quiet, Ended
<1> QED BY <1>1, <1>2, <1>3, <1>4, <1>5, <1>6, <1>7 DEF Next

-----------------------------------------------------------------------------
(* The first failure is the last result.                                   *)

CleanPhase(r) == /\ r.exit = 0
            /\ ~r.timedOut
            /\ r.failure = "none"
            /\ ~r.stopped

(* A phase that completed left a clean result.                             *)
LEMMA CompletedIsClean ==
  ASSUME Shape, Completed
  PROVE  CleanPhase(PhaseResult)
<1>1. call \in Calls /\ tries \in Nat
  BY LimitsAssumption DEF Shape, TypeOK
<1>2. call.exit = 0 /\ ~call.isError /\ ~call.timedOut /\ FinalExit(call) = 0
  BY <1>1 DEF Completed, FinalExit, Calls
<1>3. InfrastructureFailure(call) = "none"
  BY <1>2 DEF InfrastructureFailure
<1>4. SettledFailure(call) = "none"
  BY <1>2, <1>3 DEF SettledFailure
<1>5. PhaseResult.exit = 0 /\ PhaseResult.failure = "none"
  BY <1>2, <1>4 DEF PhaseResult
<1>6. PhaseResult.timedOut = call.timedOut
  BY DEF PhaseResult
<1>7. PhaseResult.stopped = (~call.timedOut /\ call.exit = 130)
  BY DEF PhaseResult
<1>8. ~PhaseResult.stopped
  <2>1. call.exit # 130
    BY <1>2
  <2> QED BY <1>7, <2>1, Zenon
<1> QED BY <1>2, <1>5, <1>6, <1>8 DEF CleanPhase

Failures ==
  /\ Shape
  /\ ~Ended => status = "running"
  /\ StopsAtFirstFailure

LEMMA FailuresStep == Failures /\ [Next]_vars => Failures'
<1> SUFFICES ASSUME Failures, [Next]_vars
             PROVE  Failures'
  OBVIOUS
<1>1. Shape /\ Shape'
  BY ShapeStep DEF Failures
<1>2. CASE Quiet
  BY <1>1, <1>2 DEF Quiet, Failures, StopsAtFirstFailure, Ended
<1>3. ASSUME ~Ended, results' = Append(results, PhaseResult)
      PROVE  /\ \A i \in 1..Len(results) : CleanPhase(results'[i])
             /\ Completed => CleanPhase(results'[Len(results) + 1])
  <2>1. \A i \in 1..Len(results) : CleanPhase(results[i])
    BY <1>1, <1>3, Recorded DEF Failures, StopsAtFirstFailure, Ended, CleanPhase
  <2> QED BY <1>1, <1>3, <2>1, Recorded, CompletedIsClean
<1>4. CASE Fails
  <2>1. \A i \in 1..Len(results) : CleanPhase(results'[i])
    BY <1>3, <1>4 DEF Fails
  <2>2. /\ DOMAIN results' = 1..(Len(results) + 1)
        /\ Len(results') = Len(results) + 1
        /\ Len(results) \in Nat
    BY <1>1, <1>4, Recorded DEF Fails
  <2>3. pc' = "done" /\ status' # "pass"
    BY <1>4 DEF Fails, Ended
  <2> QED
    BY <1>1, <2>1, <2>2, <2>3 DEF Failures, StopsAtFirstFailure, Ended, CleanPhase
<1>5. ASSUME NEW from, NEW to, Advances(from, to), Ended' \/ status' = status
      PROVE  Failures'
  <2>1. DOMAIN results' = 1..(Len(results) + 1) /\ Len(results) \in Nat
    BY <1>1, <1>5, Recorded DEF Advances
  <2>2. \A i \in 1..(Len(results) + 1) : CleanPhase(results'[i])
    BY <1>3, <1>5, <2>1 DEF Advances
  <2>3. ~Ended' => status' = "running"
    BY <1>5 DEF Advances, Failures
  <2> QED
    BY <1>1, <2>1, <2>2, <2>3 DEF Failures, StopsAtFirstFailure, CleanPhase
<1> QED BY <1>1, <1>2, <1>4, <1>5, Steps DEF Proceeds

LEMMA InitShape == Init => Shape
BY LimitsAssumption DEF Init, Shape, TypeOK, Stages, CountedPhases,
   FreshAttempts, NotCalled, Calls, ExitCodes, Verdicts, Patterns

(* phase-loop! never goes on after a phase that timed out, failed, was     *)
(* stopped or met an infrastructure failure, retries included: nothing but *)
(* the last result of a run can be one.                                    *)
THEOREM FirstFailureEnds == Spec => []StopsAtFirstFailure
<1>1. Init => Failures
  BY InitShape DEF Init, Failures, StopsAtFirstFailure
<1>2. Failures => StopsAtFirstFailure
  BY DEF Failures
<1> QED BY <1>1, <1>2, FailuresStep, PTL DEF Spec

-----------------------------------------------------------------------------
(* Builds stand on accepted plans.                                         *)

Accepted == /\ results # <<>>
            /\ LastResult.phase = "2"
            /\ LastResult.subsystem = subsystems[1]
            /\ LastResult.verdict \in {"pass", "minor-fail"}

Builds ==
  /\ Shape
  /\ BuildsAcceptedPlans
  /\ (~Ended /\ stage = "build") => Accepted
  /\ (~Ended /\ results # <<>> /\ LastResult.phase = "build") =>
       LastResult.verdict = "pass"

(* Recording a phase keeps the history in order.                           *)
LEMMA RecordKeepsBuilds ==
  ASSUME Builds, ~Ended, results' = Append(results, PhaseResult)
  PROVE  BuildsAcceptedPlans'
<1> DEFINE n == Len(results)
<1>1. Shape
  BY DEF Builds
<1>2. /\ n \in Nat
      /\ DOMAIN results = 1..n
      /\ Len(results') = n + 1
      /\ DOMAIN results' = 1..(n + 1)
      /\ \A i \in 1..n : results'[i] = results[i]
      /\ results'[n + 1].phase = stage
      /\ results'[n + 1].subsystem = Slug
  BY <1>1, Recorded
<1>3. results # <<>> => n > 0
  BY <1>1 DEF Shape, TypeOK
<1> HIDE DEF n
<1>4. ASSUME NEW i \in 1..n, results[i].phase = "build"
      PROVE  /\ i > 1
             /\ results'[i - 1].phase = "2"
             /\ results'[i - 1].subsystem = results'[i].subsystem
             /\ results'[i - 1].verdict \in {"pass", "minor-fail"}
             /\ results'[i].verdict = "pass"
  <2>1. /\ i > 1
        /\ results[i - 1].phase = "2"
        /\ results[i - 1].subsystem = results[i].subsystem
        /\ results[i - 1].verdict \in {"pass", "minor-fail"}
        /\ i < n => results[i].verdict = "pass"
    BY <1>2, <1>4 DEF Builds, BuildsAcceptedPlans, n
  <2>2. i - 1 \in 1..n
    BY <1>2, <2>1
  <2>3. i = n => results[i].verdict = "pass"
    BY <1>2, <1>4 DEF Builds, LastResult, n
  <2>4. results'[i] = results[i] /\ results'[i - 1] = results[i - 1]
    BY <1>2, <2>2
  <2>5. results[i].verdict = "pass"
    BY <2>1, <2>3, <1>2
  <2> QED BY <2>1, <2>4, <2>5
<1>5. ASSUME stage = "build"
      PROVE  /\ n + 1 > 1
             /\ results'[n].phase = "2"
             /\ results'[n].subsystem = results'[n + 1].subsystem
             /\ results'[n].verdict \in {"pass", "minor-fail"}
  <2>1. Accepted
    BY <1>5 DEF Builds
  <2>2. n > 0 /\ Slug = subsystems[1]
    BY <1>3, <1>5, <2>1 DEF Accepted, Slug, InSubsystem, CountedPhases
  <2>3. n \in 1..n
    BY <1>2, <2>2
  <2> QED BY <1>2, <2>1, <2>2, <2>3 DEF Accepted, LastResult, n
<1>6. ASSUME NEW i \in 1..(n + 1), results'[i].phase = "build"
      PROVE  /\ i > 1
             /\ results'[i - 1].phase = "2"
             /\ results'[i - 1].subsystem = results'[i].subsystem
             /\ results'[i - 1].verdict \in {"pass", "minor-fail"}
             /\ i < n + 1 => results'[i].verdict = "pass"
  <2>1. CASE i = n + 1
    <3>1. i - 1 = n /\ stage = "build"
      BY <1>2, <1>6, <2>1
    <3>2. i > 1 /\ ~(i < n + 1)
      BY <1>2, <1>5, <2>1, <3>1
    <3>3. /\ results'[i - 1].phase = "2"
          /\ results'[i - 1].subsystem = results'[i].subsystem
          /\ results'[i - 1].verdict \in {"pass", "minor-fail"}
      BY <1>5, <2>1, <3>1, Zenon
    <3> QED BY <3>2, <3>3
  <2>2. CASE i # n + 1
    <3>1. i \in 1..n
      BY <1>2, <2>2
    <3> QED BY <1>2, <1>4, <1>6, <3>1
  <2> QED BY <2>1, <2>2
<1> QED BY <1>2, <1>6 DEF BuildsAcceptedPlans

LEMMA BuildsStep == Builds /\ [Next]_vars => Builds'
<1> SUFFICES ASSUME Builds, [Next]_vars
             PROVE  Builds'
  OBVIOUS
<1>1. Shape /\ Shape'
  BY ShapeStep DEF Builds
<1>2. CASE Quiet
  BY <1>1, <1>2 DEF Quiet, Builds, BuildsAcceptedPlans, Accepted, LastResult,
     Ended
<1>3. CASE Fails
  <2>1. BuildsAcceptedPlans' /\ Ended'
    BY <1>3, RecordKeepsBuilds DEF Fails
  <2> QED BY <1>1, <2>1 DEF Builds
<1>4. ASSUME NEW from, NEW to, Advances(from, to),
             (from = "build" /\ ~Ended') => call.verdict = "pass",
             (to = "build" /\ ~Ended') =>
               /\ from = "2"
               /\ subsystems' = subsystems
               /\ call.verdict \in {"pass", "minor-fail"}
      PROVE  Builds'
  <2>1. BuildsAcceptedPlans'
    BY <1>4, RecordKeepsBuilds DEF Advances
  <2>2. /\ results' # <<>>
        /\ LastResult'.phase = from
        /\ LastResult'.subsystem = Slug
        /\ LastResult'.verdict = call.verdict
    BY <1>1, <1>4, Recorded DEF Advances, LastResult
  <2>3. CASE Ended'
    BY <1>1, <2>1, <2>3 DEF Builds
  <2>4. CASE ~Ended'
    <3>1. stage' = "build" => Accepted'
      <4> SUFFICES ASSUME to = "build"
                   PROVE  Accepted'
        BY <1>4 DEF Advances
      <4>1. Slug = subsystems[1]
        BY <1>4, <2>4 DEF Advances, Slug, InSubsystem, CountedPhases
      <4>2. results' # <<>> /\ LastResult'.phase = "2"
        BY <1>4, <2>2, <2>4
      <4> QED BY <1>4, <2>2, <2>4, <4>1, <4>2 DEF Accepted
    <3> QED BY <1>1, <1>4, <2>1, <2>2, <2>4, <3>1 DEF Builds
  <2> QED BY <2>3, <2>4
<1> QED BY <1>1, <1>2, <1>3, <1>4, Steps DEF Proceeds

(* A subsystem is built only on the plan its own phase 2 accepted just     *)
(* before, and nothing follows a build that did not pass                   *)
(* (run-subsystem-phases!).                                                *)
THEOREM PlansAreAccepted == Spec => []BuildsAcceptedPlans
<1>1. Init => Builds
  BY InitShape DEF Init, Builds, BuildsAcceptedPlans
<1>2. Builds => BuildsAcceptedPlans
  BY DEF Builds
<1> QED BY <1>1, <1>2, BuildsStep, PTL DEF Spec

-----------------------------------------------------------------------------
(* A pass is earned.                                                       *)

BuiltAfter(i) == \E j \in DOMAIN results :
                   /\ j > i
                   /\ results[j].phase = "build"
                   /\ results[j].subsystem = results[i].subsystem
                   /\ results[j].verdict = "pass"

InProgress(i) == /\ stage \in CountedPhases
                 /\ results[i].subsystem = subsystems[1]

(* Every plan was built to a pass already or belongs to the current        *)
(* subsystem.                                                              *)
Earned ==
  /\ Shape
  /\ status = "pass" => /\ Ended
                        /\ stage = "full-spec-review"
                        /\ LastResult.phase = "full-spec-review"
                        /\ LastResult.verdict = "pass"
  /\ \A i \in DOMAIN results :
       results[i].phase = "1" => BuiltAfter(i) \/ InProgress(i)

(* The history only grows, so what was built stays built.                  *)
LEMMA StaysBuilt ==
  ASSUME Shape, results' = Append(results, PhaseResult),
         NEW i \in DOMAIN results
  PROVE  /\ i \in DOMAIN results'
         /\ results'[i] = results[i]
         /\ BuiltAfter(i) => BuiltAfter(i)'
<1>1. /\ Len(results) \in Nat
      /\ DOMAIN results = 1..Len(results)
      /\ DOMAIN results' = 1..(Len(results) + 1)
      /\ \A k \in 1..Len(results) : results'[k] = results[k]
  BY Recorded
<1>2. \A k \in DOMAIN results : k \in DOMAIN results' /\ results'[k] = results[k]
  BY <1>1
<1>3. ASSUME NEW j \in DOMAIN results,
             j > i,
             results[j].phase = "build",
             results[j].subsystem = results[i].subsystem,
             results[j].verdict = "pass"
      PROVE  BuiltAfter(i)'
  BY <1>2, <1>3 DEF BuiltAfter
<1> QED BY <1>2, <1>3 DEF BuiltAfter

LEMMA EarnedStep == Earned /\ [Next]_vars => Earned'
<1> SUFFICES ASSUME Earned, [Next]_vars
             PROVE  Earned'
  OBVIOUS
<1>1. Shape /\ Shape'
  BY ShapeStep DEF Earned
<1>2. CASE Quiet
  BY <1>1, <1>2 DEF Quiet, Earned, BuiltAfter, InProgress, LastResult, Ended
<1>3. ASSUME ~Ended,
             results' = Append(results, PhaseResult),
             \A i \in DOMAIN results :
               InProgress(i) => BuiltAfter(i)' \/ InProgress(i)',
             stage = "1" => stage' \in CountedPhases /\ subsystems' = subsystems,
             status' = "pass" => /\ Ended'
                                 /\ stage = "full-spec-review"
                                 /\ stage' = stage
                                 /\ call.verdict = "pass"
      PROVE  Earned'
  <2>1. /\ Len(results) \in Nat
        /\ DOMAIN results = 1..Len(results)
        /\ Len(results') = Len(results) + 1
        /\ DOMAIN results' = 1..(Len(results) + 1)
        /\ results'[Len(results) + 1].phase = stage
        /\ results'[Len(results) + 1].subsystem = Slug
        /\ results'[Len(results) + 1].verdict = call.verdict
    BY <1>1, <1>3, Recorded
  <2>2. ASSUME NEW i \in DOMAIN results', results'[i].phase = "1"
        PROVE  BuiltAfter(i)' \/ InProgress(i)'
    <3>1. CASE i \in DOMAIN results
      <4>1. results[i].phase = "1"
        BY <1>1, <1>3, <2>2, <3>1, StaysBuilt
      <4>2. BuiltAfter(i) \/ InProgress(i)
        BY <3>1, <4>1 DEF Earned
      <4> QED BY <1>1, <1>3, <3>1, <4>2, StaysBuilt
    <3>2. CASE i \notin DOMAIN results
      <4>1. i = Len(results) + 1
        BY <2>1, <3>2
      <4>2. stage = "1" /\ results'[i].subsystem = Slug
        BY <2>1, <2>2, <4>1
      <4>3. Slug = subsystems[1]
        BY <4>2 DEF Slug, InSubsystem, CountedPhases
      <4> QED BY <1>3, <4>2, <4>3 DEF InProgress
    <3> QED BY <3>1, <3>2
  <2>3. status' = "pass" =>
          /\ Ended'
          /\ stage' = "full-spec-review"
          /\ LastResult'.phase = "full-spec-review"
          /\ LastResult'.verdict = "pass"
    BY <1>3, <2>1 DEF LastResult
  <2> QED BY <1>1, <2>2, <2>3 DEF Earned
<1>4. \A i \in DOMAIN results :
        /\ stage' \in CountedPhases
        /\ subsystems' = subsystems
        /\ results' = Append(results, PhaseResult)
        /\ InProgress(i)
        => InProgress(i)'
  BY <1>1, StaysBuilt DEF InProgress
<1>5. ~Ended => status # "pass"
  BY DEF Earned
<1>6. CASE Fails
  <2>1. /\ ~Ended
        /\ stage' = stage
        /\ subsystems' = subsystems
        /\ results' = Append(results, PhaseResult)
        /\ status' # "pass"
    BY <1>6 DEF Fails
  <2>2. \A i \in DOMAIN results : InProgress(i) => InProgress(i)'
    BY <1>4, <2>1 DEF InProgress
  <2>3. stage = "1" => stage' \in CountedPhases
    BY <2>1 DEF CountedPhases
  <2> QED BY <1>3, <2>1, <2>2, <2>3
<1>7. CASE Proceeds("0", "decompose") \/ Proceeds("decompose", "1")
  BY <1>3, <1>5, <1>7 DEF Proceeds, Advances, InProgress, CountedPhases
<1>8. CASE /\ \/ Proceeds("1", "2")
              \/ Proceeds("2", "build")
              \/ Proceeds("2", "1")
           /\ subsystems' = subsystems
  BY <1>3, <1>4, <1>5, <1>8 DEF Proceeds, Advances, CountedPhases
<1>9. ASSUME NEW to, Proceeds("build", to), call.verdict = "pass"
      PROVE  Earned'
  <2>1. /\ ~Ended
        /\ stage = "build"
        /\ results' = Append(results, PhaseResult)
        /\ status' = status
    BY <1>9 DEF Proceeds, Advances
  <2>2. Slug = subsystems[1]
    BY <2>1 DEF Slug, InSubsystem, CountedPhases
  <2>3. ASSUME NEW i \in DOMAIN results, InProgress(i)
        PROVE  BuiltAfter(i)'
    <3> DEFINE n == Len(results) + 1
    <3>1. /\ n \in DOMAIN results'
          /\ n > i
          /\ results'[n].phase = "build"
          /\ results'[n].subsystem = Slug
          /\ results'[n].verdict = "pass"
      BY <1>1, <1>9, <2>1, Recorded
    <3>2. results'[i].subsystem = subsystems[1]
      BY <1>1, <2>1, <2>3, StaysBuilt DEF InProgress
    <3> QED BY <2>2, <3>1, <3>2 DEF BuiltAfter
  <2> QED BY <1>3, <1>5, <2>1, <2>3
<1>10. CASE /\ Advances("full-spec-review", "full-spec-review")
            /\ subsystems' = subsystems
            /\ Ended'
            /\ status' = "pass"
            /\ call.verdict = "pass"
  <2>1. /\ ~Ended
        /\ stage = "full-spec-review"
        /\ stage' = stage
        /\ results' = Append(results, PhaseResult)
    BY <1>10 DEF Advances
  <2>2. \A i \in DOMAIN results : ~InProgress(i)
    BY <2>1 DEF InProgress, CountedPhases
  <2> QED BY <1>3, <1>10, <2>1, <2>2
<1> QED BY <1>1, <1>2, <1>6, <1>7, <1>8, <1>9, <1>10, Steps

(* A run passes only on a passing full-spec review, after every subsystem  *)
(* it planned was built to a pass, however many plans were rejected and    *)
(* phases retried on the way (phase-loop!, run-full-spec-review!).         *)
THEOREM PassMeansBuilt == Spec => []PassIsEarned
<1>1. Init => Earned
  BY InitShape DEF Init, Earned
<1>2. Earned => PassIsEarned
  BY DEF Earned, PassIsEarned, BuiltAfter, InProgress, CountedPhases
<1> QED BY <1>1, <1>2, EarnedStep, PTL DEF Spec

-----------------------------------------------------------------------------
(* The allowance of plan rejections.                                       *)

(* Attempts count the rejections, and one more once a phase is behind.     *)
Counted ==
  /\ attempts["1"] = majorFails + (IF stage \in {"2", "build"} THEN 2 ELSE 1)
  /\ attempts["2"] = majorFails + (IF stage = "build" THEN 2 ELSE 1)

Allowance ==
  /\ Shape
  /\ majorFails <= ValidationRetryCap
  /\ ~Ended => Counted
  /\ PlanAllowance

(* What PlanAllowance asks of the phase that settles now.                  *)
LEMMA RecordKeepsAllowance ==
  ASSUME Allowance, ~Ended, results' = Append(results, PhaseResult),
         (/\ Ended'
          /\ status' = "fail"
          /\ stage = "2"
          /\ FinalExit(call) = 0
          /\ call.verdict = "major-fail") => majorFails = ValidationRetryCap
  PROVE  PlanAllowance'
<1> DEFINE n == Len(results)
<1>1. Shape /\ Counted /\ majorFails \in Nat
  BY DEF Allowance, Shape, TypeOK
<1>2. /\ n \in Nat
      /\ DOMAIN results = 1..n
      /\ Len(results') = n + 1
      /\ DOMAIN results' = 1..(n + 1)
      /\ \A i \in 1..n : results'[i] = results[i]
      /\ results'[n + 1] = PhaseResult
  BY <1>1, Recorded
<1>3. /\ PhaseResult.phase = stage
      /\ PhaseResult.attempt = Attempt
      /\ PhaseResult.exit = FinalExit(call)
      /\ PhaseResult.verdict = call.verdict
  BY DEF PhaseResult
<1>4. stage \in {"1", "2"} => Attempt = majorFails + 1
  BY <1>1 DEF Counted, Attempt, InSubsystem, CountedPhases
<1>5. ValidationRetryCap \in Nat /\ majorFails <= ValidationRetryCap
  BY LimitsAssumption DEF Allowance
<1> HIDE DEF n
<1>6. ASSUME NEW i \in 1..(n + 1), results'[i].phase \in {"1", "2"}
      PROVE  results'[i].attempt <= ValidationRetryCap + 1
  <2>1. CASE i = n + 1
    <3>1. results'[i] = PhaseResult
      BY <1>2, <2>1
    <3>2. results'[i].attempt = majorFails + 1
      BY <1>3, <1>4, <1>6, <3>1
    <3> QED BY <1>1, <1>5, <3>2
  <2>2. CASE i # n + 1
    <3>1. i \in 1..n /\ results'[i] = results[i]
      BY <1>2, <2>2
    <3> QED BY <1>2, <1>6, <3>1 DEF Allowance, PlanAllowance
  <2> QED BY <2>1, <2>2
<1>7. ASSUME Ended', status' = "fail",
             PhaseResult.phase = "2",
             PhaseResult.exit = 0,
             PhaseResult.verdict = "major-fail"
      PROVE  PhaseResult.attempt = ValidationRetryCap + 1
  BY <1>3, <1>4, <1>7
<1> QED BY <1>2, <1>6, <1>7 DEF PlanAllowance, Ended

LEMMA AllowanceStep == Allowance /\ [Next]_vars => Allowance'
<1> SUFFICES ASSUME Allowance, [Next]_vars
             PROVE  Allowance'
  OBVIOUS
<1>1. /\ Shape /\ Shape'
      /\ majorFails \in Nat /\ majorFails <= ValidationRetryCap
      /\ ValidationRetryCap \in Nat
      /\ attempts \in [CountedPhases -> Nat]
  BY ShapeStep, LimitsAssumption DEF Allowance, Shape, TypeOK
<1>2. CASE ExceedBudget \/ StartPhase \/ Invoke \/ RetryPhase \/ UNCHANGED vars
  <2>1. /\ results' = results /\ attempts' = attempts
        /\ majorFails' = majorFails /\ stage' = stage
        /\ Ended => Ended'
        /\ (Ended' /\ status' = "fail") => (Ended /\ status = "fail")
    BY <1>2 DEF ExceedBudget, StartPhase, Invoke, RetryPhase, vars, Ended
  <2>2. PlanAllowance'
    BY <2>1 DEF Allowance, PlanAllowance, Ended
  <2> QED BY <1>1, <2>1, <2>2 DEF Allowance, Counted
<1>3. ASSUME Settle, Ended', majorFails' = majorFails,
             (/\ status' = "fail"
              /\ stage = "2"
              /\ FinalExit(call) = 0
              /\ call.verdict = "major-fail") => majorFails = ValidationRetryCap
      PROVE  Allowance'
  <2>1. ~Ended /\ results' = Append(results, PhaseResult)
    BY <1>3 DEF Settle, Ended
  <2>2. PlanAllowance'
    BY <1>3, <2>1, RecordKeepsAllowance
  <2> QED BY <1>1, <1>3, <2>2 DEF Allowance
<1>4. CASE StageFails
  <2>1. Ended' /\ Settle /\ majorFails' = majorFails
    BY <1>4 DEF StageFails, Return, Ended
  <2>2. status' = "fail" => FinalExit(call) # 0
    BY <1>4 DEF StageFails, Return, Completed
  <2> QED BY <1>3, <2>1, <2>2
<1>5. CASE RejectPlan
  <2>1. Ended' /\ Settle /\ majorFails' = majorFails
    BY <1>5 DEF RejectPlan, Return, Ended
  <2>2. call.verdict = "major-fail" => majorFails = ValidationRetryCap
    BY <1>1, <1>5 DEF RejectPlan
  <2> QED BY <1>3, <2>1, <2>2
<1>6. CASE FailBuild \/ FinishReview
  <2>1. Ended' /\ Settle /\ majorFails' = majorFails /\ stage # "2"
    BY <1>6 DEF FailBuild, FinishReview, Return, Ended
  <2> QED BY <1>3, <2>1
<1>7. ASSUME ~Ended, ~Ended', results' = Append(results, PhaseResult),
             Counted', majorFails' <= ValidationRetryCap
      PROVE  Allowance'
  BY <1>1, <1>7, RecordKeepsAllowance DEF Allowance
<1>8. CASE FinishImplicitSpec \/ FinishDecompose
  <2>1. /\ ~Ended /\ ~Ended'
        /\ results' = Append(results, PhaseResult)
        /\ attempts' = attempts /\ majorFails' = majorFails
        /\ stage \notin {"2", "build"} /\ stage' \notin {"2", "build"}
    BY <1>8 DEF FinishImplicitSpec, FinishDecompose, Settle, GoTo, Ended,
       InSubsystem, CountedPhases
  <2> QED BY <1>1, <1>7, <2>1 DEF Allowance, Counted
<1>9. ASSUME NEW p \in CountedPhases, stage = p, Settle, GoTo(stage')
      PROVE  /\ ~Ended /\ ~Ended'
             /\ results' = Append(results, PhaseResult)
             /\ \A q \in CountedPhases :
                  attempts'[q] = attempts[q] + (IF q = p THEN 1 ELSE 0)
  <2>1. attempts' = [attempts EXCEPT ![p] = @ + 1]
    BY <1>9 DEF Settle, InSubsystem
  <2> QED BY <1>1, <1>9, <2>1 DEF Settle, GoTo, Ended
<1>10. CASE FinishPlan \/ AcceptPlan \/ SendBackPlan
  <2>1. /\ stage \in CountedPhases /\ Settle /\ GoTo(stage')
        /\ \/ stage = "1" /\ stage' = "2" /\ majorFails' = majorFails
           \/ stage = "2" /\ stage' = "build" /\ majorFails' = majorFails
           \/ /\ stage = "2" /\ stage' = "1"
              /\ majorFails < ValidationRetryCap
              /\ majorFails' = majorFails + 1
    BY <1>10 DEF FinishPlan, AcceptPlan, SendBackPlan, GoTo, CountedPhases
  <2>2. /\ ~Ended /\ ~Ended'
        /\ results' = Append(results, PhaseResult)
        /\ attempts'["1"] = attempts["1"] + (IF stage = "1" THEN 1 ELSE 0)
        /\ attempts'["2"] = attempts["2"] + (IF stage = "2" THEN 1 ELSE 0)
    BY <1>9, <2>1 DEF CountedPhases
  <2>3. Counted'
    BY <1>1, <2>1, <2>2 DEF Allowance, Counted
  <2>4. majorFails' <= ValidationRetryCap
    BY <1>1, <2>1
  <2> QED BY <1>7, <2>2, <2>3, <2>4
<1>11. CASE PassBuild
  <2>1. /\ ~Ended /\ ~Ended'
        /\ results' = Append(results, PhaseResult)
        /\ attempts' = FreshAttempts /\ majorFails' = 0
        /\ stage' \in {"full-spec-review", "1"}
    BY <1>11 DEF PassBuild, GoTo, Ended
  <2>2. Counted'
    BY <2>1 DEF Counted, FreshAttempts, CountedPhases
  <2> QED BY <1>1, <1>7, <2>1, <2>2
<1> QED
  BY <1>2, <1>4, <1>5, <1>6, <1>8, <1>10, <1>11 DEF Next

(* Every subsystem may have its plan rejected validation-retry-cap times,  *)
(* no more and no fewer, before the run is failed for it                   *)
(* (run-subsystem-phases!).                                                *)
THEOREM RejectionsAreCapped == Spec => []PlanAllowance
<1>1. Init => Allowance
  BY InitShape, LimitsAssumption
     DEF Init, Allowance, Counted, PlanAllowance, FreshAttempts, CountedPhases
<1>2. Allowance => PlanAllowance
  BY DEF Allowance
<1> QED BY <1>1, <1>2, AllowanceStep, PTL DEF Spec

-----------------------------------------------------------------------------
(* PhaseLoop implements Pipeline for all values of the constants: clocks,  *)
(* retries, transcripts and agents do not show in what phase-loop!         *)
(* promises of a challenge.                                                *)

(* What the promise needs to know of the runner's state.                   *)
Promised ==
  /\ Shape
  /\ ~Ended => status = "running"
  /\ stage = "full-spec-review" => subsystems = <<>>

LEMMA PromisedStep == Promised /\ [Next]_vars => Promised'
<1> SUFFICES ASSUME Promised, [Next]_vars
             PROVE  Promised'
  OBVIOUS
<1>1. Shape /\ Shape'
  BY ShapeStep DEF Promised
<1>2. ASSUME stage' = "full-spec-review"
      PROVE  subsystems' = <<>>
  <2>1. CASE PassBuild
    <3>1. Len(subsystems) = 1 /\ subsystems' = Tail(subsystems)
      BY <1>2, <2>1 DEF PassBuild, GoTo
    <3>2. subsystems \in Seq(Slugs) /\ subsystems' \in Seq(Slugs)
      BY <1>1 DEF Shape, TypeOK
    <3>3. Len(subsystems') = 0
      BY <3>1, <3>2
    <3> QED BY <3>2, <3>3
  <2>2. CASE FinishReview
    BY <2>2 DEF FinishReview, Promised
  <2>3. CASE StageFails
    BY <1>2, <2>3 DEF StageFails, Return, Promised
  <2>4. CASE RejectPlan \/ FailBuild
    BY <1>2, <2>4 DEF RejectPlan, FailBuild, Return
  <2>5. CASE ExceedBudget \/ StartPhase \/ Invoke \/ RetryPhase \/ UNCHANGED vars
    BY <1>2, <2>5 DEF ExceedBudget, StartPhase, Invoke, RetryPhase, vars, Promised
  <2>6. CASE FinishImplicitSpec \/ FinishDecompose \/ FinishPlan
              \/ AcceptPlan \/ SendBackPlan
    BY <1>2, <2>6 DEF FinishImplicitSpec, FinishDecompose, FinishPlan,
       AcceptPlan, SendBackPlan, GoTo
  <2> QED BY <2>1, <2>2, <2>3, <2>4, <2>5, <2>6 DEF Next
<1>3. ~Ended' => status' = "running"
  BY <1>1, Steps DEF Promised, Quiet, Fails, Proceeds, Advances
<1> QED BY <1>1, <1>2, <1>3 DEF Promised

(* A decomposition names every subsystem once.                             *)
LEMMA SlugsAreDistinct ==
  ASSUME NEW file
  PROVE  P!Distinct(SlugsOf(ReadDecomposition(file)))
<1> DEFINE names == ReadDecomposition(file)
<1>1. IsDistinct(names)
  BY DEF ReadDecomposition, IsDistinct
<1>2. CASE Len(names) > 1
  BY <1>1, <1>2 DEF SlugsOf, IsDistinct, P!Distinct
<1>3. CASE ~(Len(names) > 1)
  BY <1>3 DEF SlugsOf, P!Distinct
<1> QED BY <1>2, <1>3

(* Every step of the runner is a step of the pipeline or does not show.    *)
LEMMA PipelineStep == Promised /\ [Next]_vars => [P!Next]_P!pipeline
<1> SUFFICES ASSUME Promised, [Next]_vars
             PROVE  [P!Next]_P!pipeline
  OBVIOUS
<1> USE DEF P!pipeline
<1>1. pc # "done" => status = "running"
  BY DEF Promised, Ended
<1>2. CASE ExceedBudget
  <2>1. P!Stop
    BY <1>1, <1>2 DEF ExceedBudget, P!Stop
  <2> QED BY <2>1 DEF P!Next
<1>3. CASE StartPhase \/ Invoke \/ RetryPhase \/ UNCHANGED vars
  BY <1>3 DEF StartPhase, Invoke, RetryPhase, vars
<1>4. CASE StageFails \/ RejectPlan \/ FailBuild
  <2>1. P!Stop
    BY <1>1, <1>4 DEF StageFails, RejectPlan, FailBuild, Settle, Return, P!Stop
  <2> QED BY <2>1 DEF P!Next
<1>5. CASE FinishImplicitSpec
  <2>1. P!Interpret
    BY <1>1, <1>5 DEF FinishImplicitSpec, Settle, GoTo, P!Interpret, P!Move
  <2> QED BY <2>1 DEF P!Next
<1>6. CASE FinishDecompose
  <2>1. PICK file \in Files : subsystems' = SlugsOf(ReadDecomposition(file))
    BY <1>6 DEF FinishDecompose
  <2>2. /\ subsystems' \in Seq(Slugs)
        /\ subsystems' # <<>>
        /\ P!Distinct(subsystems')
    BY <2>1, SlugsAreSequence, SlugsAreDistinct
  <2>3. /\ status = "running" /\ stage = "decompose" /\ stage' = "1"
        /\ majorFails' = majorFails /\ status' = status
    BY <1>1, <1>6 DEF FinishDecompose, Settle, GoTo
  <2>4. P!Decompose
    BY <2>2, <2>3 DEF P!Decompose, P!Move
  <2> QED BY <2>4 DEF P!Next
<1>7. CASE FinishPlan
  <2>1. P!Plan
    BY <1>1, <1>7 DEF FinishPlan, Settle, GoTo, P!Plan, P!Move
  <2> QED BY <2>1 DEF P!Next
<1>8. CASE AcceptPlan
  <2>1. P!Approve
    BY <1>1, <1>8 DEF AcceptPlan, Settle, GoTo, P!Approve, P!Move
  <2> QED BY <2>1 DEF P!Next
<1>9. CASE SendBackPlan
  <2>1. P!SendBack
    BY <1>1, <1>9 DEF SendBackPlan, Settle, GoTo, P!SendBack, P!Move
  <2> QED BY <2>1 DEF P!Next
<1>10. CASE PassBuild
  <2>1. subsystems # <<>>
    BY <1>10 DEF Promised, Shape, PassBuild, CountedPhases
  <2>2. P!Build
    BY <1>1, <1>10, <2>1 DEF PassBuild, GoTo, P!Build, P!Move
  <2> QED BY <2>2 DEF P!Next
<1>11. CASE FinishReview
  <2>1. /\ status = "running" /\ stage = "full-spec-review"
        /\ stage' = stage /\ subsystems = <<>>
        /\ UNCHANGED <<subsystems, majorFails>>
        /\ status' \in {"pass", "fail"}
    BY <1>1, <1>11 DEF FinishReview, Settle, Return, Promised
  <2>2. P!Pass \/ P!Stop
    BY <2>1 DEF P!Pass, P!Stop
  <2> QED BY <2>2 DEF P!Next
<1> QED
  BY <1>2, <1>3, <1>4, <1>5, <1>6, <1>7, <1>8, <1>9, <1>10, <1>11 DEF Next

(* phase-loop! does what its docstring promises: the stages in order, each *)
(* subsystem planned, approved and built before the next, rejections       *)
(* capped, a review last, a verdict that never changes.                    *)
THEOREM PipelineImplemented == Spec => ImplementsPipeline
<1>1. Init => Promised
  BY InitShape DEF Init, Promised
<1>2. Init => P!Init
  BY DEF Init, P!Init
<1> QED
  BY <1>1, <1>2, PromisedStep, PipelineStep, PTL
     DEF Spec, ImplementsPipeline, P!Spec

-----------------------------------------------------------------------------
(* A challenge is graded on what the phase loop returned.                  *)

SuiteVerdict ==
  \E r \in PossibleSuites :
    /\ suite /\ StartsSuite
    /\ private = [started |-> TRUE, run |-> r]
    /\ grade = Result(ClassifyPrivateResult(suite, TRUE, r))

NoSuiteVerdict ==
  /\ ~StartsSuite
  /\ grade = Result(IF suite THEN Verdict("not-run", "no-sentinel")
                             ELSE Verdict("none", "no-sentinel"))

GradedOnReturn == Graded => Ended /\ (SuiteVerdict \/ NoSuiteVerdict)

LEMMA LoopIsOver == ASSUME Next PROVE ~Ended
BY DEF Next, ExceedBudget, StartPhase, Invoke, RetryPhase, StageFails, FinishImplicitSpec,
       FinishDecompose, FinishPlan, AcceptPlan, SendBackPlan, RejectPlan, PassBuild,
       FailBuild, FinishReview, Settle, Ended

LEMMA GradedStep == GradedOnReturn /\ [GradingNext]_gradingVars => GradedOnReturn'
<1> SUFFICES ASSUME GradedOnReturn, [GradingNext]_gradingVars PROVE GradedOnReturn'
  OBVIOUS
<1>1. CASE Solve
  <2>1. ~Graded /\ grade' = grade
    BY <1>1, LoopIsOver DEF Solve, GradedOnReturn
  <2> QED BY <2>1 DEF GradedOnReturn, Graded
<1>2. ASSUME UNCHANGED <<status, results, suite, implementation>>
      PROVE  /\ StartsSuite' = StartsSuite
             /\ \A v : Result(v)' = Result(v)
  BY <1>2 DEF StartsSuite, Completion, Result
<1>3. CASE GradeWithSuite
  <2>1. /\ Ended /\ StartsSuite /\ suite /\ UNCHANGED <<pc, status, results, suite, implementation>>
        /\ \E r \in PossibleSuites :
             /\ private' = [started |-> TRUE, run |-> r]
             /\ grade' = Result(ClassifyPrivateResult(suite, TRUE, r))
    BY <1>3 DEF GradeWithSuite, Ended, StartsSuite, vars
  <2>2. PICK r \in PossibleSuites :
             /\ private' = [started |-> TRUE, run |-> r]
             /\ grade' = Result(ClassifyPrivateResult(suite, TRUE, r))
    BY <2>1
  <2>3. Result(ClassifyPrivateResult(suite, TRUE, r))' = Result(ClassifyPrivateResult(suite, TRUE, r))
    BY <2>1 DEF Result, Completion
  <2>4. Ended' /\ StartsSuite' /\ suite'
    BY <2>1 DEF Ended, StartsSuite, Completion
  <2> QED BY <2>2, <2>3, <2>4 DEF GradedOnReturn, SuiteVerdict
<1>4. CASE GradeWithoutSuite
  <2>1. /\ Ended /\ ~StartsSuite /\ UNCHANGED <<pc, status, results, suite, implementation>>
        /\ grade' = Result(IF suite THEN Verdict("not-run", "no-sentinel")
                                    ELSE Verdict("none", "no-sentinel"))
    BY <1>4 DEF GradeWithoutSuite, Ended, vars
  <2>2. Ended' /\ NoSuiteVerdict'
    BY <2>1 DEF Ended, NoSuiteVerdict, StartsSuite, Completion, Result
  <2> QED BY <2>2 DEF GradedOnReturn
<1>5. CASE UNCHANGED gradingVars
  BY <1>5 DEF gradingVars, vars, GradedOnReturn, Graded, Ended, SuiteVerdict, NoSuiteVerdict,
              StartsSuite, Completion, Result
<1> QED BY <1>1, <1>3, <1>4, <1>5 DEF GradingNext

LEMMA Gradings == GradingSpec => []GradedOnReturn
<1>1. GradingInit => GradedOnReturn
  BY DEF GradingInit, GradedOnReturn, Graded
<1> QED BY <1>1, GradedStep, PTL DEF GradingSpec

(* The phases of a challenge that is graded are a run of the phase loop.   *)
LEMMA PhasesRun == GradingSpec => Spec
<1>1. GradingInit => Init
  BY DEF GradingInit
<1>2. [GradingNext]_gradingVars => [Next]_vars
  BY DEF GradingNext, Solve, GradeWithSuite, GradeWithoutSuite, gradingVars
<1> QED BY <1>1, <1>2, PTL DEF GradingSpec, Spec

(* A phase loop that returned has a verdict.                               *)
Settled == Shape /\ (Ended => status \in {"pass", "fail", "timeout"})

LEMMA Settles == Spec => []Settled
<1>1. Init => Settled
  BY InitShape DEF Init, Settled, Ended
<1>2. Settled /\ [Next]_vars => Settled'
  <2> SUFFICES ASSUME Settled, [Next]_vars PROVE Settled'
    OBVIOUS
  <2>1. Shape /\ Shape'
    BY ShapeStep DEF Settled
  <2> QED BY <2>1, Steps DEF Settled, Quiet, Fails, Proceeds, Advances
<1> QED BY <1>1, <1>2, PTL DEF Spec

-----------------------------------------------------------------------------
(* What the tables make of it.                                             *)

LEMMA HalvedIsPositive == ASSUME NEW n PROVE Halved(n) # 0
<1> DEFINE r == (200 + 2^n) \div (2 * 2^n)
<1> HIDE DEF r
<1>1. Halved(n) = IF r < 1 THEN 1 ELSE r
  BY DEF Halved, r
<1> QED BY <1>1

LEMMA ScoreOf ==
  ASSUME NEW v, grade = Result(v)
  PROVE  LET outcome == ClassifyOutcome(Completion, v.status, implementation) IN
         /\ grade.score = 0 => outcome \notin {"private-pass", "public-pass", "private-unavailable",
                                 "infra-error", "quota-or-provider-limit", "user-stopped"}
         /\ grade.score \notin {Unscored, 0} => outcome \in {"private-pass", "public-pass"}
         /\ outcome \in {"infra-error", "quota-or-provider-limit"} => grade.score = Unscored
<1> DEFINE outcome == ClassifyOutcome(Completion, v.status, implementation)
<1>1. grade.score = ComputeScore(outcome, CountSemanticRetries(results))
  BY DEF Result
<1> HIDE DEF outcome
<1>2. Unscored # 0
  BY DEF Unscored
<1>3. Halved(CountSemanticRetries(results)) # 0
  BY HalvedIsPositive
<1>4. /\ grade.score = 0 => outcome \notin {"private-pass", "public-pass", "private-unavailable",
                                 "infra-error", "quota-or-provider-limit", "user-stopped"}
      /\ grade.score \notin {Unscored, 0} => outcome \in {"private-pass", "public-pass"}
      /\ outcome \in {"infra-error", "quota-or-provider-limit"} => grade.score = Unscored
  BY <1>1, <1>2, <1>3 DEF ComputeScore
<1> QED BY <1>4 DEF outcome

(* The verdicts of a suite that ran.                                       *)
LEMMA SuiteSays ==
  ASSUME NEW r \in PossibleSuites
  PROVE  LET v == ClassifyPrivateResult(TRUE, TRUE, r) IN
         /\ v.status \in {"pass", "fail", "unavailable"}
         /\ v.status = "pass" => Clean(r)
         /\ v.status = "fail" => r.tests > 0 /\ Bad(r) > 0 /\ ~SentinelZeroOfOne(r)
<1>1. r \in Suites(MaxTests)
  BY DEF PossibleSuites
<1>2. /\ r.tests \in Nat /\ r.failures \in Nat /\ r.errors \in Nat
  BY <1>1, MaxTestsAssumption DEF Suites
<1> QED BY <1>2 DEF ClassifyPrivateResult, ClassifyRanSuite, Verdict, Clean, Bad

LEMMA CompletionOf ==
  ASSUME Shape
  PROVE  /\ Completion = "completed" => status = "pass"
         /\ Completion = "timeout" => status = "timeout"
         /\ Completion = "solver-fail" => status \notin {"pass", "timeout"}
         /\ results # <<>> /\ LastResult.failure # "none" /\ status # "pass" =>
              /\ Completion = LastResult.failure
              /\ Completion \in {"infra-error", "quota-or-provider-limit"}
<1>1. ASSUME results # <<>>
      PROVE  LastResult.failure \in FailureKinds /\ Len(results) \in DOMAIN results
  <2>1. results \in Seq(PhaseResults)
    BY DEF Shape, TypeOK
  <2>2. LastResult \in PhaseResults /\ Len(results) \in DOMAIN results
    BY <1>1, <2>1 DEF LastResult
  <2> QED BY <2>2 DEF PhaseResults
<1>2. LastResult = results[Len(results)]
  BY DEF LastResult
<1> HIDE DEF LastResult
<1> QED BY <1>1, <1>2 DEF Completion, ClassifyCompletion, FailureKinds

(* A positive score rests on a clean suite or on a full-spec review that   *)
(* passed, whatever the agents did (classify-outcome, compute-challenge-   *)
(* score).                                                                 *)
THEOREM HeadlinesAreHonest == GradingSpec => []HeadlineHonest
<1>1. GradedOnReturn /\ Settled /\ PassIsEarned => HeadlineHonest
  <2> SUFFICES ASSUME GradedOnReturn, Settled, PassIsEarned, Graded, grade.score \notin {Unscored, 0}
               PROVE  IF suite THEN private.started /\ Clean(private.run)
                      ELSE /\ status = "pass"
                           /\ LastResult.phase = "full-spec-review"
                           /\ LastResult.verdict = "pass"
    BY DEF HeadlineHonest
  <2>1. CASE SuiteVerdict
    <3>1. PICK r \in PossibleSuites :
            /\ suite /\ private = [started |-> TRUE, run |-> r]
            /\ grade = Result(ClassifyPrivateResult(suite, TRUE, r))
      BY <2>1 DEF SuiteVerdict
    <3>2. suite = TRUE \/ suite # TRUE
      OBVIOUS
    <3> QED BY <3>1, ScoreOf, SuiteSays DEF ClassifyOutcome
  <2>2. CASE NoSuiteVerdict
    <3>1. PICK v : v = (IF suite THEN Verdict("not-run", "no-sentinel") ELSE Verdict("none", "no-sentinel"))
      OBVIOUS
    <3>2. grade = Result(v)
      BY <2>2, <3>1 DEF NoSuiteVerdict
    <3>3. ClassifyOutcome(Completion, v.status, implementation) \in {"private-pass", "public-pass"}
      BY <3>2, ScoreOf
    <3>4. v.status = IF suite THEN "not-run" ELSE "none"
      BY <3>1 DEF Verdict
    <3>5. ~suite /\ Completion = "completed"
      BY <3>3, <3>4 DEF ClassifyOutcome
    <3>6. status = "pass"
      BY <3>5, CompletionOf DEF Settled
    <3> QED BY <3>5, <3>6 DEF PassIsEarned
  <2> QED BY <2>1, <2>2 DEF GradedOnReturn
<1> QED BY <1>1, Gradings, PhasesRun, Settles, PassMeansBuilt, PTL

(* A run that ended in a failure of the host or of the provider has no     *)
(* score: the solver is neither blamed nor praised for it.                 *)
THEOREM InfraIsUnscored == GradingSpec => []InfraNeverBlamed
<1>1. GradedOnReturn /\ Settled /\ StopsAtFirstFailure => InfraNeverBlamed
  <2> SUFFICES ASSUME GradedOnReturn, Settled, StopsAtFirstFailure, Graded, results # <<>>,
                      LastResult.failure # "none"
               PROVE  grade.score = Unscored
    BY DEF InfraNeverBlamed
  <2>1. status # "pass"
    <3>1. results \in Seq(PhaseResults)
      BY DEF Settled, Shape, TypeOK
    <3>2. Len(results) \in DOMAIN results
      BY <3>1
    <3> QED BY <3>2 DEF StopsAtFirstFailure, LastResult
  <2>2. Completion \in {"infra-error", "quota-or-provider-limit"}
    BY <2>1, CompletionOf DEF Settled
  <2>3. ~StartsSuite
    BY <2>2 DEF StartsSuite
  <2>4. NoSuiteVerdict
    BY <2>3 DEF GradedOnReturn, SuiteVerdict
  <2>5. PICK v : v = (IF suite THEN Verdict("not-run", "no-sentinel") ELSE Verdict("none", "no-sentinel"))
    OBVIOUS
  <2>6. grade = Result(v) /\ v.status \notin {"pass", "fail"}
    BY <2>4, <2>5 DEF NoSuiteVerdict, Verdict
  <2>7. ClassifyOutcome(Completion, v.status, implementation) \in {"infra-error", "quota-or-provider-limit"}
    BY <2>2, <2>6 DEF ClassifyOutcome
  <2> QED BY <2>6, <2>7, ScoreOf
<1> QED BY <1>1, Gradings, PhasesRun, Settles, FirstFailureEnds, PTL

(* A zero is the suite's, or the solver left nothing, ran out of time, or  *)
(* failed a phase of a challenge without a suite.                          *)
THEOREM ZerosHaveEvidence == GradingSpec => []ZeroNeedsEvidence
<1>1. GradedOnReturn /\ Settled => ZeroNeedsEvidence
  <2> SUFFICES ASSUME GradedOnReturn, Settled, Graded, grade.score = 0, implementation,
                      status # "timeout"
               PROVE  \/ private.started /\ private.run.tests > 0 /\ Bad(private.run) > 0
                                         /\ ~SentinelZeroOfOne(private.run)
                      \/ status = "fail" /\ ~suite
    BY DEF ZeroNeedsEvidence
  <2>1. Completion # "timeout"
    BY CompletionOf DEF Settled
  <2>2. CASE SuiteVerdict
    <3>1. PICK r \in PossibleSuites :
            /\ suite /\ private = [started |-> TRUE, run |-> r]
            /\ grade = Result(ClassifyPrivateResult(suite, TRUE, r))
      BY <2>2 DEF SuiteVerdict
    <3>2. PICK v : v = ClassifyPrivateResult(suite, TRUE, r)
      OBVIOUS
    <3>3. v = ClassifyPrivateResult(TRUE, TRUE, r)
      BY <3>1, <3>2 DEF ClassifyPrivateResult
    <3>4. /\ v.status \in {"pass", "fail", "unavailable"}
          /\ v.status = "fail" => r.tests > 0 /\ Bad(r) > 0 /\ ~SentinelZeroOfOne(r)
      BY <3>3, SuiteSays
    <3>5. ClassifyOutcome(Completion, v.status, implementation) \notin
            {"private-pass", "public-pass", "private-unavailable", "infra-error",
             "quota-or-provider-limit", "user-stopped"}
      BY <3>1, <3>2, ScoreOf
    <3>6. v.status = "fail"
      BY <2>1, <3>4, <3>5 DEF ClassifyOutcome
    <3>7. private.started /\ private.run = r
      BY <3>1
    <3> QED BY <3>4, <3>6, <3>7
  <2>3. CASE NoSuiteVerdict
    <3>1. PICK v : v = (IF suite THEN Verdict("not-run", "no-sentinel") ELSE Verdict("none", "no-sentinel"))
      OBVIOUS
    <3>2. grade = Result(v) /\ v.status = IF suite THEN "not-run" ELSE "none"
      BY <2>3, <3>1 DEF NoSuiteVerdict, Verdict
    <3>3. ClassifyOutcome(Completion, v.status, implementation) \notin
            {"private-pass", "public-pass", "private-unavailable", "infra-error",
             "quota-or-provider-limit", "user-stopped"}
      BY <3>2, ScoreOf
    <3>4. ~suite /\ Completion \notin {"completed", "infra-error", "quota-or-provider-limit", "user-stopped"}
      BY <2>1, <3>2, <3>3 DEF ClassifyOutcome
    <3>5. status # "pass"
      BY <3>4 DEF Completion, ClassifyCompletion
    <3>6. status \in {"pass", "fail", "timeout"}
      BY DEF GradedOnReturn, Settled
    <3> QED BY <3>4, <3>5, <3>6
  <2> QED BY <2>2, <2>3 DEF GradedOnReturn
<1> QED BY <1>1, Gradings, PhasesRun, Settles, PTL

-----------------------------------------------------------------------------
(* The semantic retries of a score: count-semantic-retries reads them back *)
(* from neighbouring phase results, and finds exactly the plans that were  *)
(* sent back.  The counts are related by a bijection between sets of       *)
(* indices.                                                                *)

Rejecting == {"fail", "major-fail"}

(* What the neighbours in the history say of a plan that was sent back.    *)
Pairs ==
  /\ \A i \in 1..(Len(results) - 1) :
       (results[i].verdict \in Rejecting /\ results[i].subsystem = results[i + 1].subsystem)
         <=> (results[i + 1].phase = "1" /\ results[i + 1].attempt > 1)
  /\ results # <<>> => results[1].phase = "0"

(* A phase starts on a rejecting result only when it is the plan's next    *)
(* attempt.                                                                *)
SentBack ==
  /\ results = <<>> => stage = "0"
  /\ results # <<>> =>
       IF stage = "1"
       THEN /\ attempts["1"] > 1 <=> LastResult.verdict \in Rejecting
            /\ LastResult.verdict \in Rejecting => LastResult.subsystem = subsystems[1]
       ELSE LastResult.verdict \notin Rejecting /\ stage # "0"
  /\ stage \in {"0", "decompose"} => attempts["1"] = 1
  /\ attempts["1"] >= 1
  /\ stage = "2" => attempts["1"] > 1
  /\ pc = "returned" => call.verdict \in MayEmit(stage)

Retries == Shape /\ Pairs /\ (~Ended => SentBack)

LEMMA RecordPairs ==
  ASSUME Shape, Pairs, SentBack, results' = Append(results, PhaseResult)
  PROVE  Pairs' /\ results' # <<>> /\ LastResult' = PhaseResult
<1>1. /\ Len(results) \in Nat
      /\ DOMAIN results = 1..Len(results)
      /\ Len(results') = Len(results) + 1
      /\ \A i \in 1..Len(results) : results'[i] = results[i]
      /\ results'[Len(results) + 1] = PhaseResult
      /\ PhaseResult.phase = stage
      /\ PhaseResult.subsystem = Slug
  BY Recorded
<1>2. PhaseResult.attempt = Attempt
  BY DEF PhaseResult
<1>3. LastResult' = PhaseResult /\ results' # <<>>
  BY <1>1 DEF LastResult
<1>4. results'[1].phase = "0"
  <2>1. CASE results = <<>>
    BY <1>1, <2>1 DEF SentBack
  <2>2. CASE results # <<>>
    <3>1. 1 \in 1..Len(results)
      BY <1>1, <2>2 DEF Shape, TypeOK
    <3> QED BY <1>1, <2>2, <3>1 DEF Pairs
  <2> QED BY <2>1, <2>2
<1>5. ASSUME NEW i \in 1..Len(results)
      PROVE  (results'[i].verdict \in Rejecting /\ results'[i].subsystem = results'[i + 1].subsystem)
               <=> (results'[i + 1].phase = "1" /\ results'[i + 1].attempt > 1)
  <2>1. CASE i < Len(results)
    <3>1. i \in 1..(Len(results) - 1) /\ i + 1 \in 1..Len(results)
      BY <1>1, <2>1
    <3> QED BY <1>1, <3>1 DEF Pairs
  <2>2. CASE i = Len(results)
    <3>1. results # <<>> /\ results'[i] = LastResult /\ results'[i + 1] = PhaseResult
      BY <1>1, <2>2 DEF LastResult
    <3>2. CASE stage = "1"
      <4>1. Slug = subsystems[1] /\ Attempt = attempts["1"]
        BY <3>2 DEF Slug, Attempt, InSubsystem, CountedPhases
      <4> QED BY <1>1, <1>2, <3>1, <3>2, <4>1 DEF SentBack
    <3>3. CASE stage # "1"
      BY <1>1, <3>1, <3>3 DEF SentBack
    <3> QED BY <3>2, <3>3
  <2> QED BY <1>1, <2>1, <2>2
<1> QED BY <1>1, <1>3, <1>4, <1>5 DEF Pairs

LEMMA RetriesStep ==
  ASSUME Unprompted = {}
  PROVE  Retries /\ [Next]_vars => Retries'
<1> SUFFICES ASSUME Retries, [Next]_vars PROVE Retries'
  OBVIOUS
<1>1. Shape /\ Shape' /\ Pairs
  BY ShapeStep DEF Retries
<1>2. CASE UNCHANGED vars
  BY <1>1, <1>2 DEF vars, Retries, Pairs, SentBack, Ended, LastResult
<1>3. CASE ExceedBudget
  BY <1>1, <1>3 DEF ExceedBudget, Retries, Pairs, Ended
<1>4. CASE StartPhase \/ RetryPhase
  BY <1>1, <1>4 DEF StartPhase, RetryPhase, Retries, Pairs, SentBack, Ended, LastResult
<1>5. CASE Invoke
  <2>1. call'.verdict \in MayEmit(stage)
    BY <1>5 DEF Invoke, Outcomes
  <2> QED BY <1>1, <1>5, <2>1 DEF Invoke, Retries, Pairs, SentBack, Ended, LastResult
<1>6. ASSUME pc = "returned", results' = Append(results, PhaseResult)
      PROVE  /\ SentBack /\ Pairs' /\ results' # <<>> /\ LastResult'.verdict = call.verdict
             /\ LastResult'.subsystem = Slug
             /\ call.verdict \in MayEmit(stage)
  <2>1. SentBack
    BY <1>6 DEF Retries, Ended
  <2>2. PhaseResult.verdict = call.verdict /\ PhaseResult.subsystem = Slug
    BY DEF PhaseResult
  <2> QED BY <1>1, <1>6, <2>1, <2>2, RecordPairs DEF SentBack
<1>7. CASE StageFails \/ RejectPlan \/ FailBuild \/ FinishReview
  <2>1. pc = "returned" /\ results' = Append(results, PhaseResult) /\ pc' = "done"
    BY <1>7 DEF StageFails, RejectPlan, FailBuild, FinishReview, Settle, Return
  <2> QED BY <1>1, <1>6, <2>1 DEF Retries, Ended
<1>8. ASSUME stage \in {"0", "decompose", "1"}, pc = "returned", results' = Append(results, PhaseResult)
      PROVE  LastResult'.verdict \notin Rejecting
  <2>1. call.verdict = "none"
    BY <1>6, <1>8 DEF MayEmit, Owes
  <2> QED BY <1>6, <1>8, <2>1 DEF Rejecting
<1>9. attempts \in [CountedPhases -> Nat] /\ attempts' \in [CountedPhases -> Nat]
  BY <1>1 DEF Shape, TypeOK
<1>10. CASE FinishImplicitSpec
  <2>1. /\ pc = "returned" /\ results' = Append(results, PhaseResult) /\ stage = "0"
        /\ stage' = "decompose" /\ pc' = "stage" /\ attempts' = attempts
    BY <1>10 DEF FinishImplicitSpec, Settle, GoTo, InSubsystem, CountedPhases
  <2> QED BY <1>1, <1>6, <1>8, <2>1 DEF Retries, SentBack
<1>11. CASE FinishDecompose
  <2>1. /\ pc = "returned" /\ results' = Append(results, PhaseResult) /\ stage = "decompose"
        /\ stage' = "1" /\ pc' = "stage" /\ attempts' = attempts
    BY <1>11 DEF FinishDecompose, Settle, GoTo, InSubsystem, CountedPhases
  <2> QED BY <1>1, <1>6, <1>8, <2>1 DEF Retries, SentBack
<1>12. CASE FinishPlan
  <2>1. /\ pc = "returned" /\ results' = Append(results, PhaseResult) /\ stage = "1"
        /\ stage' = "2" /\ pc' = "stage" /\ attempts' = [attempts EXCEPT !["1"] = @ + 1]
    BY <1>12 DEF FinishPlan, Settle, GoTo, InSubsystem, CountedPhases
  <2>2. attempts'["1"] = attempts["1"] + 1
    BY <1>9, <2>1 DEF CountedPhases
  <2> QED BY <1>1, <1>6, <1>8, <1>9, <2>1, <2>2 DEF Retries, SentBack, CountedPhases
<1>13. CASE AcceptPlan
  <2>1. /\ pc = "returned" /\ results' = Append(results, PhaseResult) /\ stage = "2"
        /\ stage' = "build" /\ pc' = "stage" /\ attempts' = [attempts EXCEPT !["2"] = @ + 1]
        /\ call.verdict \in {"pass", "minor-fail"}
    BY <1>13 DEF AcceptPlan, Settle, GoTo, InSubsystem, CountedPhases
  <2>2. attempts'["1"] = attempts["1"]
    BY <1>9, <2>1 DEF CountedPhases
  <2>3. LastResult'.verdict \notin Rejecting
    BY <1>6, <2>1 DEF Rejecting
  <2> QED BY <1>1, <1>6, <2>1, <2>2, <2>3 DEF Retries, SentBack
<1>14. CASE SendBackPlan
  <2>1. /\ pc = "returned" /\ results' = Append(results, PhaseResult) /\ stage = "2"
        /\ stage' = "1" /\ pc' = "stage" /\ attempts' = [attempts EXCEPT !["2"] = @ + 1]
        /\ call.verdict = "major-fail" /\ subsystems' = subsystems
    BY <1>14 DEF SendBackPlan, Settle, GoTo, InSubsystem, CountedPhases
  <2>2. attempts'["1"] = attempts["1"]
    BY <1>9, <2>1 DEF CountedPhases
  <2>3. LastResult'.verdict \in Rejecting /\ LastResult'.subsystem = subsystems'[1]
    BY <1>6, <2>1 DEF Rejecting, Slug, InSubsystem, CountedPhases
  <2> QED BY <1>1, <1>6, <2>1, <2>2, <2>3 DEF Retries, SentBack
<1>15. CASE PassBuild
  <2>1. /\ pc = "returned" /\ results' = Append(results, PhaseResult) /\ stage = "build"
        /\ stage' \in {"1", "full-spec-review"} /\ pc' = "stage" /\ attempts' = FreshAttempts
        /\ call.verdict = "pass"
    BY <1>15 DEF PassBuild, GoTo
  <2>2. attempts'["1"] = 1
    BY <2>1 DEF FreshAttempts, CountedPhases
  <2>3. LastResult'.verdict \notin Rejecting
    BY <1>6, <2>1 DEF Rejecting
  <2> QED BY <1>1, <1>6, <2>1, <2>2, <2>3 DEF Retries, SentBack
<1> QED BY <1>2, <1>3, <1>4, <1>5, <1>7, <1>10, <1>11, <1>12, <1>13, <1>14, <1>15 DEF Next

LEMMA RetriesInit == Init => Retries
<1> SUFFICES ASSUME Init PROVE Retries
  OBVIOUS
<1>1. Shape
  BY InitShape
<1>2. results = <<>> /\ stage = "0" /\ pc = "stage" /\ attempts = FreshAttempts
  BY DEF Init
<1>3. attempts["1"] = 1
  BY <1>2 DEF FreshAttempts, CountedPhases
<1>4. Pairs
  BY <1>2 DEF Pairs
<1> QED BY <1>1, <1>2, <1>3, <1>4 DEF Retries, SentBack

(* A rejected plan and the attempt after it are as many.                   *)
LEMMA RetriesCounted ==
  ASSUME Shape, Pairs
  PROVE  CountSemanticRetries(results) =
           Cardinality({i \in DOMAIN results : results[i].phase = "1" /\ results[i].attempt > 1})
<1> DEFINE n == Len(results)
           from == {i \in 1..(n - 1) : /\ results[i].verdict \in Rejecting
                                       /\ results[i].subsystem = results[i + 1].subsystem}
           to == {i \in DOMAIN results : results[i].phase = "1" /\ results[i].attempt > 1}
           next == [i \in from |-> i + 1]
<1>1. n \in Nat /\ DOMAIN results = 1..n
  BY DEF Shape, TypeOK
<1>2. \A i \in to : i - 1 \in from
  <2>1. SUFFICES ASSUME NEW i \in to PROVE i - 1 \in from
    OBVIOUS
  <2>2. i \in 1..n /\ i # 1
    BY <1>1, <2>1 DEF Pairs
  <2>3. i - 1 \in 1..(n - 1) /\ (i - 1) + 1 = i
    BY <1>1, <2>2
  <2> QED BY <2>1, <2>3 DEF Pairs
<1>3. next \in [from -> to]
  BY <1>1 DEF Pairs
<1>4. next \in Bijection(from, to)
  <2>1. \A a, b \in from : next[a] = next[b] => a = b
    BY <1>1
  <2>2. \A t \in to : \E s \in from : next[s] = t
    <3>1. SUFFICES ASSUME NEW t \in to PROVE \E s \in from : next[s] = t
      OBVIOUS
    <3>2. t - 1 \in from /\ next[t - 1] = t
      BY <1>1, <1>2
    <3> QED BY <3>2
  <2> HIDE DEF from, to, next
  <2>3. next \in Injection(from, to)
    BY <1>3, <2>1 DEF Injection, IsInjective
  <2>4. next \in Surjection(from, to)
    BY <1>3, <2>2 DEF Surjection
  <2> QED BY <2>3, <2>4 DEF Bijection
<1>5. IsFiniteSet(from)
  <2>1. IsFiniteSet(1..(n - 1))
    BY <1>1, FS_Interval
  <2> QED BY <2>1, FS_Subset
<1>6. Cardinality(to) = Cardinality(from)
  BY <1>4, <1>5, FS_Bijection DEF ExistsBijection
<1>7. CountSemanticRetries(results) = Cardinality(from)
  BY DEF CountSemanticRetries, Rejecting
<1> QED BY <1>6, <1>7

(* Where the stages that owe no verdict quote none, the score is halved    *)
(* for every plan that was sent back and for nothing else, over any number *)
(* of subsystems and retries (count-semantic-retries).                     *)
THEOREM RetriesAreTheRejections ==
  ASSUME Unprompted = {}
  PROVE  GradingSpec => []RetriesAreRejections
<1>1. Spec => []Retries
  BY RetriesInit, RetriesStep, PTL DEF Spec
<1>2. GradedOnReturn /\ Retries => RetriesAreRejections
  <2> SUFFICES ASSUME GradedOnReturn, Retries, Graded
               PROVE  grade.retries = Cardinality({i \in DOMAIN results :
                        results[i].phase = "1" /\ results[i].attempt > 1})
    BY DEF RetriesAreRejections
  <2>1. grade.retries = CountSemanticRetries(results)
    <3>1. PICK v : grade = Result(v)
      BY DEF GradedOnReturn, SuiteVerdict, NoSuiteVerdict
    <3> QED BY <3>1 DEF Result
  <2> QED BY <2>1, RetriesCounted DEF Retries
<1> QED BY <1>1, <1>2, Gradings, PhasesRun, PTL
=============================================================================
