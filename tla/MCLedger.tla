------------------------------- MODULE MCLedger -------------------------------
\* Two sessions, two turns, four rows, two states.
EXTENDS Ledger

MCWindows == {1}
=============================================================================
