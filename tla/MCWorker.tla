------------------------------ MODULE MCWorker ------------------------------
\* Small instances of Worker: several Runs of one job.
EXTENDS Worker, TLC

CONSTANT a

MCOneJob == [g \in Runs |-> a]

\* Runs are interchangeable.
MCSymmetry == Permutations(Runs)
=============================================================================
