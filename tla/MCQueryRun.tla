----------------------------- MODULE MCQueryRun -----------------------------
(***************************************************************************)
(* QueryRun for TLC: two jobs submitted in a fixed order.  The order tells *)
(* the jobs apart, so there is no symmetry to exploit.                     *)
(***************************************************************************)
EXTENDS QueryRun

CONSTANTS j1, j2

TwoJobs == <<j1, j2>>
=============================================================================
