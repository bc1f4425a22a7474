------------------------------ MODULE MCCgroup ------------------------------
\* Small instances of Cgroup.
EXTENDS Cgroup

CONSTANTS b1, b2, k1, k2

MCSubsystems == <<"cpu", "memory">>
=============================================================================
