---------------------------- MODULE SolutionSteps ----------------------------
(***************************************************************************)
(* The reference solutions of the AtCoder challenges, and how the atlas    *)
(* draws them (docs/atlas/data/flows-other.mjs).                           *)
(*                                                                         *)
(* A run of solve is a walk over its scenario: the node it is at, the      *)
(* input, and the variables of its loops.  Parsing the text and printing   *)
(* the answer are left out; indices count from 1.                          *)
(***************************************************************************)
EXTENDS Diagrams

VARIABLE state  \* at, in, m

At(node) == state.at = node
Begin(inputs) == \E x \in inputs : state = [at |-> "start", in |-> x, m |-> <<>>]
Go(node, m) == state' = [state EXCEPT !.at = node, !.m = m]
Branch(condition, yes, no) == Go(IF condition THEN yes ELSE no, state.m)

(* algorithm(): the overview of a solution, its stages in a row.           *)
Stages == <<"step0", "step1", "step2">>
FunctionOverview(n) ==
  Graph("lr",
        << <<"event", "input">>, <<"etl">> \o SubSeq(Stages, 1, n), <<"end", "output">> >>,
        << <<"input", "step0">> >>
        \o [i \in 1..(n - 1) |-> <<Stages[i], Stages[i + 1]>>]
        \o << <<Stages[n], "output">> >>)
=============================================================================
