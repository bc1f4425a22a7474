---------------------------- MODULE MCMirrorJob ----------------------------
\* Small instances of MirrorJob, each job driven by one Run.
EXTENDS MirrorJob, TLC

MCJobOf == [g \in Runs |-> g]

\* Jobs are interchangeable.
MCSymmetry == Permutations(Jobs)
=============================================================================
