-------------------------- MODULE MCDataProcessor --------------------------
\* Small instances of DataProcessor for TLC.
EXTENDS DataProcessor

CONSTANTS m1, m2

TwoMessages == {m1, m2}
=============================================================================
