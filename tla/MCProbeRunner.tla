---- MODULE MCProbeRunner ----
(***************************************************************************)
(* Three keys, one of which has no credential and one no search adapter,   *)
(* rounds of two tasks, and one administrator.                             *)
(***************************************************************************)
EXTENDS ProbeRunner

CONSTANTS k1, k2, k3, w1, w2, admin
====
