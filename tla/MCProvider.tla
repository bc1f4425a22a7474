----------------------------- MODULE MCProvider -----------------------------
\* Small instances of Provider: the tries of one provider.
EXTENDS Provider
=============================================================================
