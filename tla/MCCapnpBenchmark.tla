-------------------------- MODULE MCCapnpBenchmark --------------------------
(* The instances of CapnpBenchmark that TLC checks: see the .cfg files.     *)
EXTENDS CapnpBenchmark
=============================================================================
