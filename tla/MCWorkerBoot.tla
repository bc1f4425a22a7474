--------------------------- MODULE MCWorkerBoot ---------------------------
\* Small instances of WorkerBoot: mirrors that never succeeded have LastUpdate
\* 0, and all mirrors share the default interval.
EXTENDS WorkerBoot

MCInterval == [j \in Jobs |-> 2]
=============================================================================
