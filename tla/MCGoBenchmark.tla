---------------------------- MODULE MCGoBenchmark ----------------------------
(* The instances of GoBenchmark that TLC checks: see the .cfg files.          *)
EXTENDS GoBenchmark
=============================================================================
