---------------------------- MODULE MCDecisions ----------------------------
(* Model-checking instance of Decisions.  A unit of time is 10 s, so       *)
(* Margin is 6, Floor 12 and Timeout 1.                                    *)
EXTENDS Decisions

CONSTANTS c1, c2, r1, r2, r3

TwoBatches == {<<>>, <<r1, r2, r3>>}

=============================================================================
