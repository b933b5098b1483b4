----------------------------- MODULE MCPayroll ------------------------------
EXTENDS Payroll, TLC

\* One net pay is below zero: deductions exceed the gross pay.
MCNets == {-1, 2}

MCAmounts == {-1, 0, 2}

Symmetric == Permutations(Workers) \cup Permutations(Payments)
=============================================================================
