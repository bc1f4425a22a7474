------------------------------ MODULE MCSystem ------------------------------
\* Small instances of System: one worker with one job.
EXTENDS System

CONSTANT a

MCOneJob == [g \in Runs |-> a]
=============================================================================
