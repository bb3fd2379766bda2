---------------------------- MODULE MCWithdrawals ---------------------------
EXTENDS Withdrawals, TLC
CONSTANTS a, b, c
AB == Permutations({a, b})
MCValue == [m \in Messages |-> 1]
=============================================================================
