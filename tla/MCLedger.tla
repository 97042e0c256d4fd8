------------------------------ MODULE MCLedger ------------------------------
(* A small instance of Ledger for TLC: integers of 4 bits, floats of 5.     *)
EXTENDS Ledger

MCUlps == {2^k : k \in 0..14}

\* 0, 1.5, -0.25 and 24.
MCFactors == {0, 3 * (Scale \div 2), -(Scale \div 4), 24 * Scale}
=============================================================================
