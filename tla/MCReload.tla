------------------------------ MODULE MCReload ------------------------------
\* Small instances of Reload: all pairs of configurations.
EXTENDS Reload
=============================================================================
