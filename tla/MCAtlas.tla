------------------------------ MODULE MCAtlas ------------------------------
(* Instances of Atlas for TLC.                                             *)
EXTENDS Atlas, TLC

(* One challenge with two scenarios, one of them refused by mermaidSource, *)
(* and one without diagrams.                                               *)
TwoChallenges == [bank |-> [lr |-> {}, td |-> {"bid", "bad"}],
                  chat |-> [lr |-> {}, td |-> {}]]
OneChallenge  == [bank |-> [lr |-> {"overview"}, td |-> {"bid", "expire"}]]
SearchBank    == "" :> {"bank", "chat"} @@ "ba" :> {"bank"}
EveryKind     == "All" :> {"bank", "chat"}
NoSearch      == "" :> {"bank"}
NoFilter      == "All" :> {"bank"}
=============================================================================
