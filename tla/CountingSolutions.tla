-------------------------- MODULE CountingSolutions --------------------------
(***************************************************************************)
(* Solutions that go once over their input: anti, atcoder-cards, attack,   *)
(* bitmask, fill-the-gaps and overall-winner.                              *)
(*                                                                         *)
(* The alphabets and the modulus are constants, 26 letters of each case    *)
(* and 998244353 in the code.  mod-inv is modelled by what it computes.    *)
(***************************************************************************)
EXTENDS SolutionSteps

CONSTANTS
  Upper,     \* uppercase letters
  Lower,     \* lowercase letters, as many
  Modulus,   \* a prime
  Alphabet,  \* the letters of the cards, a sequence
  Atcoder    \* the letters a card @ can stand for

ASSUME LettersAssumption ==
  /\ Cardinality(Upper) = Cardinality(Lower)
  /\ Upper \cap Lower = {} /\ "?" \notin Upper \cup Lower
  /\ Cardinality(Upper) < Modulus
  /\ Atcoder \subseteq Range(Alphabet) /\ "@" \notin Range(Alphabet)

-----------------------------------------------------------------------------
(* anti: strings that avoid an uppercase letter twice, then a lowercase    *)
(* letter, then an uppercase one.  dp0[n]: no letter repeated, n seen;     *)
(* dp1: one repeated; dp2: and then a lowercase letter; D: seen for sure.  *)
K == Cardinality(Upper)
ModInv(a) == CHOOSE x \in 1..(Modulus - 1) : (a * x) % Modulus = 1
Zero == [n \in 0..K |-> 0]

AntiDiagram == Scenario(
  << <<"event", "start">>, <<"decision", "more">>, <<"end", "answer">>,
     <<"decision", "type">>, <<"etl", "wildcard">>, <<"decision", "definite">>,
     <<"etl", "repeat", "split", "lower">> >>,
  << <<"start", "more">>, <<"more", "answer", "type">>,
     <<"type", "wildcard", "definite", "lower">>, <<"definite", "repeat", "split">>,
     <<"wildcard", "more">>, <<"repeat", "more">>, <<"split", "more">>,
     <<"lower", "more">> >>)

(* update-dp0-for-question and compute-advancing.                          *)
Wildcard(m) ==
  [m EXCEPT
    !.i = @ + 1,
    !.dp0 = [n \in 0..K |->
      (K * m.dp0[n] + (IF n = 0 THEN 0 ELSE (K - n + 1) * m.dp0[n - 1])) % Modulus],
    !.dp1 = (K * @ + SumOver([n \in 1..K |-> n * m.dp0[n]])) % Modulus,
    !.dp2 = (K * m.dp1 + K * @) % Modulus]

(* split-dp0: the part of dp0 that has the letter already, by symmetry.    *)
Split(m, letter) ==
  LET d == Cardinality(m.D)
      inv == ModInv(K - d)
      share(n, k) == (((m.dp0[n] * k) % Modulus) * inv) % Modulus IN
  [m EXCEPT
    !.i = @ + 1,
    !.dp0 = [n \in 0..K |-> IF n = 0 \/ m.dp0[n - 1] = 0 THEN 0
                            ELSE share(n - 1, K - n + 1)],
    !.dp1 = (@ + SumOver([n \in d..K |-> share(n, n - d)])) % Modulus,
    !.dp2 = 0,
    !.D = @ \cup {letter}]

AntiStep ==
  LET m == state.m
      letter == state.in[m.i] IN
  \/ At("start") /\ Go("more", [i |-> 1, dp0 |-> [Zero EXCEPT ![0] = 1],
                                dp1 |-> 0, dp2 |-> 0, D |-> {}])
  \/ At("more") /\ Branch(m.i > Len(state.in), "answer", "type")
  \/ /\ At("type")
     /\ Go(CASE letter = "?" -> "wildcard"
             [] letter \in Upper -> "definite"
             [] letter \in Lower -> "lower", m)
  \/ At("definite") /\ Branch(letter \in m.D, "repeat", "split")
  \/ At("wildcard") /\ Go("more", Wildcard(m))
  \/ /\ At("repeat")
     /\ Go("more", [m EXCEPT !.i = @ + 1, !.dp0 = Zero, !.dp2 = 0,
                             !.dp1 = (@ + SumOver(m.dp0)) % Modulus])
  \/ At("split") /\ Go("more", Split(m, letter))
  \/ /\ At("lower")
     /\ Go("more", [m EXCEPT !.i = @ + 1, !.dp1 = 0, !.dp2 = (@ + m.dp1) % Modulus])

AntiOutput == (SumOver(state.m.dp0) + state.m.dp1 + state.m.dp2) % Modulus

(* The strings the pattern stands for that hold no DDoS-type subsequence.  *)
Completions(s) ==
  {t \in [DOMAIN s -> Upper \cup Lower] : \A i \in DOMAIN s : s[i] \in {"?", t[i]}}
HoldsDDoS(t) ==
  \E a, b, c, d \in DOMAIN t :
    /\ a < b /\ b < c /\ c < d
    /\ {t[a], t[b], t[d]} \subseteq Upper /\ t[c] \in Lower /\ t[a] = t[b]
AntiAnswer(s) == Cardinality({t \in Completions(s) : ~HoldsDDoS(t)}) % Modulus

-----------------------------------------------------------------------------
(* atcoder-cards: two rows of cards that a rearrangement and a choice for  *)
(* each @ should make equal.  A row is a function, the order is free.      *)
CardsDiagram == Scenario(
  << <<"event", "start">>, <<"decision", "loop", "wildcard", "allowed">>,
     <<"etl", "deficit">>, <<"decision", "equal">>, <<"etl", "invalid">>,
     <<"decision", "budget">>, <<"end", "yes", "no">> >>,
  << <<"start", "loop">>, <<"loop", "wildcard">>, <<"wildcard", "loop", "allowed">>,
     <<"allowed", "deficit">>, <<"deficit", "loop">>, <<"allowed", "equal">>,
     <<"equal", "invalid", "loop">>, <<"invalid", "loop">>, <<"loop", "budget">>,
     <<"budget", "yes", "no">> >>)

Count(row, card) == Cardinality({i \in DOMAIN row : row[i] = card})
Excess(a, b) == IF a > b THEN a - b ELSE 0
AllCards == Append(Alphabet, "@")

(* Mutation: both deficits are charged to the first row.                   *)
DeficitsMerged(m, a, b) == [m EXCEPT !.s = @ + Excess(a, b) + Excess(b, a), !.i = @ + 1]

(* What row S lacks takes its cards @, what row T lacks takes T's.         *)
Deficits(m, a, b) ==
  [m EXCEPT !.s = @ + Excess(b, a), !.t = @ + Excess(a, b), !.i = @ + 1]

CardsStep ==
  LET m == state.m
      card == AllCards[m.i]
      next == [m EXCEPT !.i = @ + 1]
      inS == Count(state.in.s, card)
      inT == Count(state.in.t, card) IN
  \/ At("start") /\ Go("loop", [i |-> 1, s |-> 0, t |-> 0, valid |-> TRUE])
  \/ At("loop") /\ Branch(m.i <= Len(AllCards), "wildcard", "budget")
  \/ At("wildcard") /\ card = "@" /\ Go("loop", next)
  \/ At("wildcard") /\ card # "@" /\ Go("allowed", m)
  \/ At("allowed") /\ Branch(card \in Atcoder, "deficit", "equal")
  \/ At("deficit") /\ Go("loop", Deficits(m, inS, inT))
  \/ At("equal") /\ inS = inT /\ Go("loop", next)
  \/ At("equal") /\ inS # inT /\ Go("invalid", m)
  \/ At("invalid") /\ Go("loop", [next EXCEPT !.valid = FALSE])
  \/ /\ At("budget")
     /\ Branch(m.valid /\ m.s <= Count(state.in.s, "@") /\ m.t <= Count(state.in.t, "@"),
               "yes", "no")

Replacements(row) ==
  {t \in [DOMAIN row -> Range(Alphabet)] :
     \A i \in DOMAIN row : row[i] = t[i] \/ (row[i] = "@" /\ t[i] \in Atcoder)}
CardsAnswer(x) ==
  \E a \in Replacements(x.s), b \in Replacements(x.t) :
    \A c \in Range(Alphabet) : Count(a, c) = Count(b, c)

-----------------------------------------------------------------------------
(* attack: how many blows of b a stamina of a takes.                       *)
AttackDiagram == Scenario(
  << <<"event", "start">>, <<"etl", "parse", "ceil">>, <<"end", "out">> >>,
  << <<"start", "parse">>, <<"parse", "ceil">>, <<"ceil", "out">> >>)

AttackStep ==
  \/ At("start") /\ Go("parse", [a |-> state.in.a, b |-> state.in.b])
  \/ At("parse") /\ Go("ceil", state.m)
  \/ At("ceil") /\ Go("out", (state.m.a + state.m.b - 1) \div state.m.b)

AttackAnswer(x) ==
  CHOOSE k \in 1..x.a : k * x.b >= x.a /\ \A j \in 0..(k - 1) : j * x.b < x.a

-----------------------------------------------------------------------------
(* bitmask: the greatest value of the pattern s that is not above n.  tail *)
(* is what the bits from one place on can add at most, fb the answer       *)
(* should a later bit of the pattern exceed n's.                           *)
BitmaskDiagram == Scenario(
  << <<"event", "start">>, <<"decision", "all">>, <<"end", "max">>,
     <<"decision", "loop">>, <<"end", "exact">>, <<"decision", "bit">>,
     <<"end", "loose", "fallback">>, <<"etl", "save", "stay">> >>,
  << <<"start", "all">>, <<"all", "max", "loop">>, <<"loop", "exact", "bit">>,
     <<"bit", "loose", "fallback", "save", "stay">>, <<"save", "loop">>,
     <<"stay", "loop">> >>)

Weight(s, i) == 2 ^ (Len(s) - i)
MaxTail(s) ==
  [i \in 1..(Len(s) + 1) |->
    SumOver([j \in i..Len(s) |-> IF s[j] = "0" THEN 0 ELSE Weight(s, j)])]

BitmaskStep ==
  LET m == state.m
      s == state.in.s
      one == (state.in.n \div Weight(s, m.i)) % 2 = 1
      matched == IF one THEN m.val + Weight(s, m.i) ELSE m.val IN
  \/ At("start") /\ Go("all", [i |-> 1, val |-> 0, fb |-> -1, tail |-> MaxTail(s)])
  \/ At("all") /\ Branch(state.in.n >= m.tail[1], "max", "loop")
  \/ At("loop") /\ Branch(m.i > Len(s), "exact", "bit")
  \/ /\ At("bit")
     /\ Go(CASE s[m.i] = "0" /\ one  -> "loose"
             [] s[m.i] = "1" /\ ~one -> "fallback"
             [] s[m.i] = "?" /\ one  -> "save"
             [] OTHER                -> "stay", m)
  \/ /\ At("save")
     /\ Go("loop", [m EXCEPT !.i = @ + 1, !.val = matched, !.fb = m.val + m.tail[m.i + 1]])
  \/ At("stay") /\ Go("loop", [m EXCEPT !.i = @ + 1, !.val = matched])

BitmaskOutput ==
  LET m == state.m IN
  CASE At("max")      -> m.tail[1]
    [] At("exact")    -> m.val
    [] At("loose")    -> m.val + m.tail[m.i + 1]
    [] At("fallback") -> m.fb

Values(s) ==
  {SumOver([i \in DOMAIN s |-> b[i] * Weight(s, i)]) :
     b \in {b \in [DOMAIN s -> {0, 1}] :
              \A i \in DOMAIN s : s[i] = (IF b[i] = 0 THEN "0" ELSE "1") \/ s[i] = "?"}}
BitmaskAnswer(x) == Max({-1} \cup {v \in Values(x.s) : v <= x.n})

-----------------------------------------------------------------------------
(* fill-the-gaps: every integer between neighbours is put between them.    *)
GapsDiagram == Scenario(
  << <<"event", "start">>, <<"decision", "pair", "direction">>,
     <<"etl", "up", "down", "init">>, <<"decision", "more">>,
     <<"etl", "append", "next">>, <<"end", "end">> >>,
  << <<"start", "pair">>, <<"pair", "end", "direction">>, <<"direction", "up", "down">>,
     <<"up", "init">>, <<"down", "init">>, <<"init", "more">>, <<"more", "append">>,
     <<"append", "more">>, <<"more", "next">>, <<"next", "pair">> >>)

GapsStep ==
  LET m == state.m
      nums == state.in IN
  \/ At("start") /\ Go("pair", [i |-> 2, out |-> <<nums[1]>>, step |-> 0, j |-> 0])
  \/ At("pair") /\ Branch(m.i > Len(nums), "end", "direction")
  \/ At("direction") /\ Branch(nums[m.i - 1] < nums[m.i], "up", "down")
  \/ At("up") /\ Go("init", [m EXCEPT !.step = 1])
  \/ At("down") /\ Go("init", [m EXCEPT !.step = -1])
  \/ At("init") /\ Go("more", [m EXCEPT !.j = nums[m.i - 1] + m.step])
  \/ At("more") /\ Branch(m.j # nums[m.i] + m.step, "append", "next")
  \/ At("append") /\ Go("more", [m EXCEPT !.out = Append(@, m.j), !.j = @ + m.step])
  \/ At("next") /\ Go("pair", [m EXCEPT !.i = @ + 1])

(* The procedure of the problem: fill the first gap until there is none.   *)
FirstGap(a) == CHOOSE i \in 1..(Len(a) - 1) :
  /\ a[i] - a[i + 1] \notin {1, -1}
  /\ \A j \in 1..(i - 1) : a[j] - a[j + 1] \in {1, -1}
Filling(a, b) == IF a < b THEN [k \in 1..(b - a - 1) |-> a + k]
                 ELSE [k \in 1..(a - b - 1) |-> a - k]
Fill(a) ==
  IF \A i \in 1..(Len(a) - 1) : a[i] - a[i + 1] \in {1, -1} THEN a
  ELSE LET i == FirstGap(a) IN
       SubSeq(a, 1, i) \o Filling(a[i], a[i + 1]) \o SubSeq(a, i + 1, Len(a))
GapsAnswer(a) ==
  LET filled[i \in 0..Len(a)] == IF i = 0 THEN a ELSE Fill(filled[i - 1]) IN filled[Len(a)]

-----------------------------------------------------------------------------
(* overall-winner: more wins or, with as many, the count reached first.    *)
WinnerDiagram == Scenario(
  << <<"event", "start">>, <<"etl", "count">>, <<"decision", "totals">>,
     <<"end", "t", "a">>, <<"etl", "scan">>, <<"decision", "type", "tc", "ac">> >>,
  << <<"start", "count">>, <<"count", "totals">>, <<"totals", "t", "a", "scan">>,
     <<"scan", "type">>, <<"type", "tc", "ac">>, <<"tc", "t">>, <<"ac", "a">>,
     <<"tc", "scan">>, <<"ac", "scan">> >>)

Wins(s, p) == Count(s, p)

WinnerStep ==
  LET m == state.m
      s == state.in
      T == Wins(s, "T")
      A == Wins(s, "A") IN
  \/ At("start") /\ Go("count", m)
  \/ At("count") /\ Go("totals", m)
  \/ At("totals") /\ T # A /\ Go(IF T > A THEN "t" ELSE "a", m)
  \/ At("totals") /\ T = A /\ Go("scan", [i |-> 0, t |-> 0, a |-> 0])
  \/ At("scan") /\ Go("type", [m EXCEPT !.i = @ + 1])
  \/ At("type") /\ s[m.i] = "T" /\ Go("tc", [m EXCEPT !.t = @ + 1])
  \/ At("type") /\ s[m.i] = "A" /\ Go("ac", [m EXCEPT !.a = @ + 1])
  \/ At("tc") /\ Branch(m.t = T, "t", "scan")
  \/ At("ac") /\ Branch(m.a = A, "a", "scan")

WinnerAnswer(s) ==
  LET reached(p) == CHOOSE i \in DOMAIN s :
                      Wins(SubSeq(s, 1, i), p) = Wins(s, p) /\ s[i] = p IN
  CASE Wins(s, "T") > Wins(s, "A") -> "t"
    [] Wins(s, "T") < Wins(s, "A") -> "a"
    [] OTHER -> IF reached("T") < reached("A") THEN "t" ELSE "a"
=============================================================================
