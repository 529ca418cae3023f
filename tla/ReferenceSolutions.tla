------------------------- MODULE ReferenceSolutions -------------------------
(***************************************************************************)
(* The entries of docs/atlas/data/flows-other.mjs that draw a solution:    *)
(* the solution's run beside the diagram that shows its branches and loops *)
(* and the answer its README asks for.                                     *)
(***************************************************************************)
EXTENDS CountingSolutions, SearchSolutions

CONSTANT SolutionInputs  \* of each solution, the inputs it is run on

VARIABLE entry  \* whose solution runs

Slugs == DOMAIN SolutionInputs

(* What the problems promise of their inputs, as far as the proofs need it. *)
ASSUME InputsAssumption ==
  /\ "almost-equal" \in Slugs => \A s \in SolutionInputs["almost-equal"] :
       /\ Len(s) \in Nat /\ DOMAIN s = 1..Len(s)
       /\ \A i, j \in DOMAIN s : IsFiniteSet(DOMAIN s[i]) /\ DOMAIN s[i] = DOMAIN s[j]
  /\ "anti" \in Slugs => \A s \in SolutionInputs["anti"] : s \in Seq(Upper \cup Lower \cup {"?"})
  /\ "attack" \in Slugs => \A x \in SolutionInputs["attack"] : {x.a, x.b} \subseteq Nat \ {0}
  /\ "fill-the-gaps" \in Slugs => \A s \in SolutionInputs["fill-the-gaps"] :
       s \in Seq(Nat) /\ Len(s) > 1 /\ \A i \in 1..(Len(s) - 1) : s[i] # s[i + 1]
  /\ "find-snuke" \in Slugs =>
       /\ Len(Target) \in Nat \ {0} /\ DOMAIN Target = 1..Len(Target)
       /\ \A grid \in SolutionInputs["find-snuke"] :
            Len(grid[1]) \in Nat \ {0} /\ \E cells \in Spellings(grid) : Spellings(grid) = {cells}
  /\ "impartial-gift" \in Slugs => \A x \in SolutionInputs["impartial-gift"] :
       x.A \in Seq(Nat) /\ x.B \in Seq(Nat) /\ x.D \in Nat
  /\ "overall-winner" \in Slugs => \A s \in SolutionInputs["overall-winner"] :
       s \in Seq({"T", "A"}) \ {<<>>}

DiagramOf(slug) ==
  CASE slug = "almost-equal"    -> AlmostEqualDiagram
    [] slug = "anti"            -> AntiDiagram
    [] slug = "atcoder-cards"   -> CardsDiagram
    [] slug = "attack"          -> AttackDiagram
    [] slug = "bitmask"         -> BitmaskDiagram
    [] slug = "fill-the-gaps"   -> GapsDiagram
    [] slug = "find-snuke"      -> FindSnukeDiagram
    [] slug = "impartial-gift"  -> ImpartialGiftDiagram
    [] slug = "overall-winner"  -> WinnerDiagram
    [] slug = "pac"             -> PacDiagram

SolutionArrows == [slug \in Slugs |-> Range(DiagramOf(slug).edges)]

SolutionInit == \E slug \in Slugs : entry = slug /\ Begin(SolutionInputs[slug])

SolutionStep ==
  /\ UNCHANGED entry
  /\ \/ entry = "almost-equal"   /\ AlmostEqualStep
     \/ entry = "anti"           /\ AntiStep
     \/ entry = "atcoder-cards"  /\ CardsStep
     \/ entry = "attack"         /\ AttackStep
     \/ entry = "bitmask"        /\ BitmaskStep
     \/ entry = "fill-the-gaps"  /\ GapsStep
     \/ entry = "find-snuke"     /\ FindSnukeStep
     \/ entry = "impartial-gift" /\ ImpartialGiftStep
     \/ entry = "overall-winner" /\ WinnerStep
     \/ entry = "pac"            /\ PacStep

(* What solve answers at the end, and what the problem asks for.           *)
Answered ==
  LET x == state.in
      m == state.m IN
  CASE entry = "almost-equal"   -> At("yes") = AlmostEqualAnswer(x)
    [] entry = "anti"           -> AntiOutput = AntiAnswer(x)
    [] entry = "atcoder-cards"  -> At("yes") = CardsAnswer(x)
    [] entry = "attack"         -> m = AttackAnswer(x)
    [] entry = "bitmask"        -> BitmaskOutput = BitmaskAnswer(x)
    [] entry = "fill-the-gaps"  -> m.out = GapsAnswer(x)
    [] entry = "find-snuke"     -> {m.cells} = Spellings(x)
    [] entry = "impartial-gift" -> m.best = ImpartialGiftAnswer(x)
    [] entry = "overall-winner" -> At(WinnerAnswer(x))
    [] entry = "pac"            -> PacOutput = PacAnswer(x)
=============================================================================
