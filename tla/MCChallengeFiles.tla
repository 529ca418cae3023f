-------------------------- MODULE MCChallengeFiles --------------------------
(* Instances of ChallengeFiles for TLC.                                    *)
EXTENDS ChallengeFiles

CONSTANTS bank, fanout

(* bank provides a source and a file outside src/, and has a hidden setup;  *)
(* fanout has a helper.                                                     *)
TwoChallenges == {<<bank, "readme">>, <<bank, "rest">>, <<bank, "source">>,
                  <<bank, "private">>,
                  <<fanout, "readme">>, <<fanout, "helper">>}
=============================================================================
