-------------------------- MODULE MCRelayFallback --------------------------
\* RelayFallback for TLC.
EXTENDS RelayFallback, TLC

\* Records are told apart by nothing but their names.
RecordSymmetry == Permutations(Records)
=============================================================================
