------------------------------ MODULE Pipeline ------------------------------
(***************************************************************************)
(* What phase-loop! promises of one challenge, without clocks, retries or  *)
(* agents: the stages in their order, every subsystem planned, approved    *)
(* and built before the next one, a bounded number of rejected plans for   *)
(* each, a review at the end, and a verdict that never changes.            *)
(***************************************************************************)
EXTENDS Naturals, Sequences

CONSTANTS Slugs, Cap

VARIABLES stage, todo, rejected, status

pipeline == <<stage, todo, rejected, status>>

Distinct(s) == \A i, j \in DOMAIN s : s[i] = s[j] => i = j

Init ==
  /\ stage = "0"
  /\ todo = <<>>
  /\ rejected = 0
  /\ status = "running"

Move(from, to) == status = "running" /\ stage = from /\ stage' = to

Interpret == Move("0", "decompose") /\ UNCHANGED <<todo, rejected, status>>

Decompose == /\ Move("decompose", "1")
             /\ todo' \in Seq(Slugs)
             /\ todo' # <<>>
             /\ Distinct(todo')
             /\ UNCHANGED <<rejected, status>>

Plan == Move("1", "2") /\ UNCHANGED <<todo, rejected, status>>

Approve == Move("2", "build") /\ UNCHANGED <<todo, rejected, status>>

SendBack == /\ Move("2", "1")
            /\ rejected < Cap
            /\ rejected' = rejected + 1
            /\ UNCHANGED <<todo, status>>

Build == /\ Move("build", IF Len(todo) = 1 THEN "full-spec-review" ELSE "1")
         /\ todo # <<>>
         /\ todo' = Tail(todo)
         /\ rejected' = 0
         /\ UNCHANGED status

Pass == /\ status = "running"
        /\ stage = "full-spec-review"
        /\ todo = <<>>
        /\ status' = "pass"
        /\ UNCHANGED <<stage, todo, rejected>>

Stop == /\ status = "running"
        /\ status' \in {"fail", "timeout"}
        /\ UNCHANGED <<stage, todo, rejected>>

Next == Interpret \/ Decompose \/ Plan \/ Approve \/ SendBack \/ Build
          \/ Pass \/ Stop

Spec == Init /\ [][Next]_pipeline
=============================================================================
