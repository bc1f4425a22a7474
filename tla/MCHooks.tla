------------------------------ MODULE MCHooks ------------------------------
(* Instances of module Hooks for TLC. *)
EXTENDS Hooks

\* A worker with docker: the cgroup hook is configured and not added.
MCDocker == {"btrfs", "docker", "cgroup", "execOnSuccess", "execOnFailure"}
=============================================================================
