---------------------------- MODULE MCSequencer ----------------------------
(* Blocks every two units of time; L1 blocks further apart, so that the    *)
(* drift is exceeded, and on the second fork later than on the first.      *)
EXTENDS Sequencer

MCL1Times == [f \in 0..1 |-> [n \in 0..MaxL1 |-> IF n < ForkPoint THEN 3 * n
                                                 ELSE IF f = 0 THEN 3 * n ELSE n + 6]]
=============================================================================
