---------------------------- MODULE MCDiscovery ----------------------------
(* Small instances of Discovery for TLC. *)
EXTENDS Discovery

\* Calls without a filter, and calls whose filter no host passes.
MCFilters == {Hosts, {}}
=============================================================================
